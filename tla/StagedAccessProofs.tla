------------------------- MODULE StagedAccessProofs -------------------------
(***************************************************************************)
(* Staging and reading, for every scenario on disk and every path: the     *)
(* staged project is the one that was set up for the recorder, whatever    *)
(* the order of the copies, and read_file shows of it what it should.      *)
(***************************************************************************)
EXTENDS StagedAccess, SequenceTheorems, FiniteSetTheorems, WellFoundedInduction, TLAPS

-----------------------------------------------------------------------------
(* Trees                                                                   *)

LEMMA OneOverAnother ==
    ASSUME NEW f, NEW g
    PROVE  /\ DOMAIN Over(f, g) = DOMAIN f \union DOMAIN g
           /\ \A p \in DOMAIN f : Over(f, g)[p] = f[p]
           /\ \A p \in DOMAIN g \ DOMAIN f : Over(f, g)[p] = g[p]
  BY DEF Over

\* What is where in a baseline with some files over it.
LEMMA OverlaidTree ==
    ASSUME NEW s, NEW files
    PROVE  /\ DOMAIN Overlaid(s, files) = files \union DOMAIN s.baseline
                                            \union OverlaidParents(files) \union {<< >>}
           /\ \A p \in files : Overlaid(s, files)[p] = "overlay"
           /\ \A p \in DOMAIN s.baseline \ files : Overlaid(s, files)[p] = s.baseline[p]
           /\ \A p \in (OverlaidParents(files) \union {<< >>}) \ (files \union DOMAIN s.baseline) :
                 Overlaid(s, files)[p] = "dir"
  BY DEF Overlaid, Over, Files, Dirs
\* The directories above a path.
LEMMA ParentsArePaths ==
    ASSUME NEW p \in Seq(STRING)
    PROVE  /\ Parents(p) \subseteq Seq(STRING)
           /\ p # << >> => << >> \in Parents(p)
  <1>1. Len(p) \in Nat /\ DOMAIN p = 1 .. Len(p) /\ \A i \in 1 .. Len(p) : p[i] \in STRING
    BY LenProperties, ElementOfSeq
  <1>2. ASSUME NEW k \in 0 .. Len(p) - 1 PROVE SubSeq(p, 1, k) \in Seq(STRING)
    BY <1>1, SubSeqProperties
  <1>3. ASSUME p # << >> PROVE << >> \in Parents(p)
    <2>1. Len(p) \in Nat \ {0}
      BY <1>3, EmptySeq
    <2>2. SubSeq(p, 1, 0) = << >>
      BY SubSeqEmpty
    <2> QED
      BY <2>1, <2>2 DEF Parents
  <1> QED
    BY <1>2, <1>3 DEF Parents

LEMMA ArtifactParents ==
    /\ Target \in Seq(STRING) /\ Target # << >>
    /\ \A p \in ArtifactPaths :
          /\ p \in Seq(STRING) /\ p # << >> /\ p # Target
          /\ Parents(p) = {<< >>, Target}
  <1>1. "target" \in STRING /\ Artifacts \subseteq STRING
    BY SourceAssumption
  <1>2. Target \in Seq(STRING) /\ Len(Target) = 1 /\ Target[1] = "target"
    BY <1>1 DEF Target
  <1>3. ASSUME NEW name \in Artifacts
        PROVE  /\ Artifact(name) \in Seq(STRING) /\ Len(Artifact(name)) = 2
               /\ Parents(Artifact(name)) = {<< >>, Target}
    <2> DEFINE p == Artifact(name)
    <2>1. p \in Seq(STRING) /\ Len(p) = 2 /\ p[1] = "target"
      BY <1>1 DEF Artifact
    <2> HIDE DEF p
    <2>2. SubSeq(p, 1, 0) = << >>
      BY SubSeqEmpty
    <2>3. SubSeq(p, 1, 1) = Target
      <3>1. \A i \in 1 .. 1 : p[i] \in STRING
        BY <1>1, <2>1
      <3>2. /\ SubSeq(p, 1, 1) \in Seq(STRING) /\ Len(SubSeq(p, 1, 1)) = 1
            /\ SubSeq(p, 1, 1)[1] = p[1]
        BY <3>1, SubSeqProperties
      <3> QED
        BY <1>2, <2>1, <3>2, SeqEqual
    <2>4. 0 .. Len(p) - 1 = {0, 1}
      BY <2>1
    <2>5. Parents(p) = {SubSeq(p, 1, 0), SubSeq(p, 1, 1)}
      BY <2>4 DEF Parents
    <2>6. Parents(p) = {<< >>, Target}
      BY <2>2, <2>3, <2>5
    <2> QED
      BY <2>1, <2>6 DEF p
  <1>4. ASSUME NEW p \in Seq(STRING), Len(p) \in {1, 2} PROVE p # << >>
    BY <1>4, EmptySeq
  <1>5. ASSUME NEW p \in ArtifactPaths
        PROVE  p \in Seq(STRING) /\ Len(p) = 2 /\ Parents(p) = {<< >>, Target}
    <2>1. PICK name \in Artifacts : p = Artifact(name)
      BY DEF ArtifactPaths
    <2> QED
      BY <1>3, <2>1
  <1>6. \A p \in ArtifactPaths : p # << >> /\ p # Target
    BY <1>2, <1>4, <1>5
  <1>7. Target # << >>
    BY <1>2, <1>4
  <1> QED
    BY <1>2, <1>5, <1>6, <1>7

LEMMA ArtifactsArePaths == Artifact("manifest.json") \in ArtifactPaths
  BY DEF ArtifactPaths, Artifacts

-----------------------------------------------------------------------------
(* The invariant                                                           *)

Planted(s) ==
    Over(Files(ArtifactPaths, "captured"), Over(Dirs({Target}), Overlaid(s, s.overlay)))

\* The project that is being staged is the baseline with the files copied so
\* far over it, and a copy fails for nothing but a missing artifact.
LaidOut ==
    Recordable(source) =>
        /\ stage = "overlaying" => staged = Overlaid(source, source.overlay \ todo)
        /\ stage = "staged" => staged = Planted(source)
        /\ stage = "failed" => ~(Artifacts \subseteq source.captured)

Places ==
    /\ source \in Sources
    /\ todo \subseteq source.overlay
    /\ DOMAIN staged \subseteq Seq(STRING)
    /\ path \in Seq(STRING)
    /\ \A i \in DOMAIN path : path[i] = "/" => i = 1

Answered == answer = "pending" \/ (stage = "staged" /\ answer = ReadFile(Tree, path))

AInv == Places /\ LaidOut /\ Answered

\* A file that is still to be copied finds no directory in its place and no
\* file above it.
LEMMA RoomForFile ==
    ASSUME NEW s \in Sources, Recordable(s),
           NEW left \in SUBSET s.overlay, NEW p \in left
    PROVE  /\ ~CannotCopy(Overlaid(s, s.overlay \ left), p)
           /\ Destination(Overlaid(s, s.overlay \ left), p) = p
  <1> DEFINE done == s.overlay \ left
             tree == Overlaid(s, done)
  <1>1. /\ p # << >>
        /\ \A q \in s.overlay : p \notin Parents(q) /\ q \notin Parents(p)
    BY SourceAssumption
  <1>2. /\ ~IsDir(s.baseline, p)
        /\ \A q \in Parents(p) : ~IsFile(s.baseline, q)
    BY DEF Recordable
  <1>3. done \subseteq s.overlay /\ p \notin done
    OBVIOUS
  <1> HIDE DEF done
  <1>4. /\ DOMAIN tree = done \union DOMAIN s.baseline \union OverlaidParents(done) \union {<< >>}
        /\ \A q \in done : tree[q] = "overlay"
        /\ \A q \in DOMAIN s.baseline \ done : tree[q] = s.baseline[q]
        /\ \A q \in (OverlaidParents(done) \union {<< >>}) \ (done \union DOMAIN s.baseline) :
              tree[q] = "dir"
    BY OverlaidTree
  <1>5. p \notin OverlaidParents(done)
    BY <1>1, <1>3 DEF OverlaidParents
  <1> HIDE DEF tree
  <1>6. ~IsDir(tree, p)
    BY <1>1, <1>2, <1>3, <1>4, <1>5 DEF IsDir
  <1>7. ASSUME NEW q \in Parents(p) PROVE ~IsFile(tree, q)
    <2>1. q \notin done /\ ~IsFile(s.baseline, q)
      BY <1>1, <1>2, <1>3
    <2> QED
      BY <1>4, <2>1 DEF IsFile
  <1>8. ~CannotCopy(tree, p) /\ Destination(tree, p) = p
    BY <1>6, <1>7 DEF CannotCopy, Destination
  <1> QED
    BY <1>8 DEF tree, done

\* Copying it lays it over the tree.
LEMMA FileLaidOver ==
    ASSUME NEW s \in Sources, Recordable(s),
           NEW left \in SUBSET s.overlay, NEW p \in left
    PROVE  CopyTo(Overlaid(s, s.overlay \ left), p, "overlay")
              = Overlaid(s, s.overlay \ (left \ {p}))
  <1> DEFINE done == s.overlay \ left
             now == s.overlay \ (left \ {p})
  <1>1. now = done \union {p}
    OBVIOUS
  <1>2. OverlaidParents(now) = OverlaidParents(done) \union Parents(p)
    BY <1>1 DEF OverlaidParents
  <1>3. \A q \in now : q \notin Parents(p)
    BY SourceAssumption
  <1>4. CopyTo(Overlaid(s, done), p, "overlay")
           = Over(Over(Files({p}, "overlay"), Overlaid(s, done)), Dirs(Parents(p)))
    BY RoomForFile DEF CopyTo, WithParents
  <1> HIDE DEF done, now
  <1>5. Over(Over(Files({p}, "overlay"), Overlaid(s, done)), Dirs(Parents(p))) = Overlaid(s, now)
    BY <1>1, <1>2, <1>3 DEF Overlaid, Over, Files, Dirs
  <1> QED
    BY <1>4, <1>5 DEF done, now

\* dbt's artifacts find their place.
LEMMA RoomForArtifacts ==
    ASSUME NEW s \in Sources, Recordable(s)
    PROVE  /\ ~IsFile(Overlaid(s, s.overlay), Target)
           /\ \A p \in ArtifactPaths :
                 /\ ~CannotCopy(Overlaid(s, s.overlay), p)
                 /\ Destination(Overlaid(s, s.overlay), p) = p
  <1> DEFINE tree == Overlaid(s, s.overlay)
  <1>0. \A p \in ArtifactPaths : ~IsDir(tree, p) /\ \A q \in Parents(p) : ~IsFile(tree, q)
    BY DEF Recordable
  <1>1. ~IsFile(tree, Target) /\ \A p \in ArtifactPaths : ~IsDir(tree, p)
    BY <1>0, ArtifactParents, ArtifactsArePaths
  <1>2. ~IsFile(tree, << >>)
    <2>1. << >> \notin s.overlay \union DOMAIN s.baseline
      BY SourceAssumption
    <2> QED
      BY <2>1, OverlaidTree DEF IsFile
  <1> HIDE DEF tree
  <1>3. ASSUME NEW p \in ArtifactPaths PROVE ~CannotCopy(tree, p) /\ Destination(tree, p) = p
    <2>1. \A q \in Parents(p) : ~IsFile(tree, q)
      BY <1>1, <1>2, ArtifactParents
    <2> QED
      BY <1>1, <2>1 DEF CannotCopy, Destination
  <1> QED
    BY <1>1, <1>3 DEF tree

-----------------------------------------------------------------------------
(* The steps                                                               *)

LEMMA InitEstablishes == Init => AInv
  <1> SUFFICES ASSUME Init PROVE AInv
    OBVIOUS
  <1>1. Places
    <2>1. DOMAIN staged = {} /\ << >> \in Seq(STRING)
      BY EmptySeq DEF Init, StageInit
    <2> QED
      BY <2>1 DEF Init, StageInit, Places
  <1>2. LaidOut
    BY DEF Init, StageInit, LaidOut
  <1> QED
    BY <1>1, <1>2 DEF Init, AInv, Answered

LEMMA CopyBaselineKeeps ==
    ASSUME AInv, CopyBaseline
    PROVE  source' \in Sources /\ todo' \subseteq source'.overlay
              /\ DOMAIN staged' \subseteq Seq(STRING) /\ LaidOut'
  <1>1. source' = source /\ source \in Sources /\ todo' = source.overlay /\ Places
           /\ stage' = "overlaying" /\ staged' = Over(Dirs({<< >>}), source.baseline)
    BY DEF AInv, Places, CopyBaseline
  <1>2. DOMAIN source.baseline \subseteq Seq(STRING) \ {<< >>}
    BY <1>1, SourceAssumption
  <1>3. DOMAIN staged' \subseteq Seq(STRING)
    BY <1>1, <1>2, EmptySeq DEF Over, Dirs
  <1>4. staged' = Overlaid(source, {})
    <2>1. OverlaidParents({}) = {}
      BY DEF OverlaidParents
    <2>2. Overlaid(source, {}) = Over(Dirs({<< >>}), source.baseline)
      BY <1>2, <2>1 DEF Overlaid, Over, Files, Dirs
    <2> QED
      BY <1>1, <2>2
  <1>5. source'.overlay \ todo' = {}
    BY <1>1
  <1> QED
    BY <1>1, <1>3, <1>4, <1>5 DEF LaidOut

LEMMA OverlayFileKeeps ==
    ASSUME AInv, NEW p, OverlayFile(p)
    PROVE  source' \in Sources /\ todo' \subseteq source'.overlay
              /\ DOMAIN staged' \subseteq Seq(STRING) /\ LaidOut'
  <1>1. /\ source' = source /\ source \in Sources /\ stage = "overlaying" /\ stage' = stage
        /\ todo \subseteq source.overlay /\ p \in todo /\ todo' = todo \ {p}
        /\ staged' = CopyTo(staged, p, "overlay")
        /\ DOMAIN staged \subseteq Seq(STRING)
    BY DEF AInv, Places, OverlayFile
  <1>2. p \in Seq(STRING) /\ p # << >>
    BY <1>1, SourceAssumption
  <1>3. Destination(staged, p) \in Seq(STRING)
    <2>1. Len(p) \in 1 .. Len(p) /\ Len(p) \in Nat
      BY <1>2, EmptySeq
    <2>2. Last(p) \in STRING
      BY <1>2, <2>1, ElementOfSeq DEF Last
    <2> QED
      BY <1>2, <2>2, AppendProperties DEF Destination
  <1>4. DOMAIN staged' \subseteq Seq(STRING)
    <2>1. Parents(p) \subseteq Seq(STRING)
      BY <1>2, ParentsArePaths
    <2> QED
      BY <1>1, <1>3, <2>1 DEF CopyTo, WithParents, Over, Files, Dirs
  <1>5. ASSUME Recordable(source) PROVE staged' = Overlaid(source, source.overlay \ todo')
    <2>1. staged = Overlaid(source, source.overlay \ todo)
      BY <1>1, <1>5 DEF AInv, LaidOut
    <2> QED
      BY <1>1, <1>5, <2>1, FileLaidOver
  <1> QED
    BY <1>1, <1>4, <1>5 DEF LaidOut

LEMMA PlantArtifactsKeeps ==
    ASSUME AInv, PlantArtifacts
    PROVE  source' \in Sources /\ todo' \subseteq source'.overlay
              /\ DOMAIN staged' \subseteq Seq(STRING) /\ LaidOut'
  <1> DEFINE targets == {Destination(staged, p) : p \in ArtifactPaths}
  <1>1. /\ source' = source /\ source \in Sources /\ stage = "overlaying" /\ stage' = "staged"
        /\ todo = {} /\ todo' = {}
        /\ staged' = Over(Files(targets, "captured"), Over(Dirs({Target}), staged))
        /\ DOMAIN staged \subseteq Seq(STRING)
    BY DEF AInv, Places, PlantArtifacts
  <1>2. ASSUME NEW p \in ArtifactPaths PROVE Destination(staged, p) \in Seq(STRING)
    <2>1. p \in Seq(STRING) /\ p # << >>
      BY ArtifactParents
    <2>2. Len(p) \in 1 .. Len(p) /\ Len(p) \in Nat
      BY <2>1, EmptySeq
    <2>3. Last(p) \in STRING
      BY <2>1, <2>2, ElementOfSeq DEF Last
    <2> QED
      BY <2>1, <2>3, AppendProperties DEF Destination
  <1>3. DOMAIN staged' \subseteq Seq(STRING)
    <2>1. targets \subseteq Seq(STRING) /\ Target \in Seq(STRING)
      BY <1>2, ArtifactParents
    <2> HIDE DEF targets
    <2> QED
      BY <1>1, <2>1 DEF Over, Files, Dirs
  <1>4. ASSUME Recordable(source) PROVE staged' = Planted(source)
    <2>1. staged = Overlaid(source, source.overlay)
      BY <1>1, <1>4 DEF AInv, LaidOut
    <2>2. targets = ArtifactPaths
      BY <1>1, <1>4, <2>1, RoomForArtifacts
    <2> QED
      BY <1>1, <2>1, <2>2 DEF Planted
  <1> QED
    BY <1>1, <1>3, <1>4 DEF LaidOut

LEMMA StageRaisesKeeps ==
    ASSUME AInv, StageRaises
    PROVE  source' \in Sources /\ todo' \subseteq source'.overlay
              /\ DOMAIN staged' \subseteq Seq(STRING) /\ LaidOut'
  <1>1. /\ source' = source /\ source \in Sources /\ stage = "overlaying" /\ stage' = "failed"
        /\ todo \subseteq source.overlay /\ todo' = todo /\ staged' = staged
        /\ DOMAIN staged \subseteq Seq(STRING)
    BY DEF AInv, Places, StageRaises
  <1>2. ASSUME Recordable(source) PROVE ~(Artifacts \subseteq source.captured)
    <2>1. staged = Overlaid(source, source.overlay \ todo)
      BY <1>1, <1>2 DEF AInv, LaidOut
    <2>2. \A p \in todo : ~CannotCopy(staged, p)
      BY <1>1, <1>2, <2>1, RoomForFile
    <2>3. todo = {} /\ ~Plantable
      BY <2>2 DEF StageRaises
    <2>4. staged = Overlaid(source, source.overlay)
      BY <2>1, <2>3
    <2> QED
      BY <1>1, <1>2, <2>3, <2>4, RoomForArtifacts DEF Plantable
  <1> QED
    BY <1>1, <1>2 DEF LaidOut

LEMMA StageStepKeeps ==
    ASSUME AInv, StageStep, UNCHANGED <<path, answer>>
    PROVE  AInv'
  <1>1. source' \in Sources /\ todo' \subseteq source'.overlay
           /\ DOMAIN staged' \subseteq Seq(STRING) /\ LaidOut'
    BY CopyBaselineKeeps, OverlayFileKeeps, PlantArtifactsKeeps, StageRaisesKeeps DEF StageStep
  <1>2. Places'
    BY <1>1 DEF AInv, Places
  <1>3. stage # "staged"
    BY DEF StageStep, CopyBaseline, OverlayFile, PlantArtifacts, StageRaises
  <1>4. answer' = "pending"
    BY <1>3 DEF AInv, Answered
  <1> QED
    BY <1>1, <1>2, <1>4 DEF AInv, Answered

LEMMA AskKeeps ==
    ASSUME AInv, Ask
    PROVE  AInv'
  <1>1. UNCHANGED stageVars /\ path' \in Seq(STRING) /\ stage = "staged"
          /\ answer' = ReadFile(Tree, path')
    BY AccessAssumption DEF Ask
  <1>2. Tree' = Tree
    BY <1>1 DEF Tree, stageVars
  <1>3. Places' /\ LaidOut'
    <2>1. \A i \in DOMAIN path' : path'[i] = "/" => i = 1
      BY AccessAssumption DEF Ask
    <2>2. Places'
      BY <1>1, <2>1 DEF AInv, Places, stageVars
    <2>3. LaidOut'
      BY <1>1 DEF AInv, LaidOut, stageVars
    <2> QED
      BY <2>2, <2>3
  <1>4. Answered'
    BY <1>1, <1>2 DEF Answered, stageVars
  <1> QED
    BY <1>3, <1>4 DEF AInv

THEOREM StagingInvariant == Spec => []AInv
  <1>1. AInv /\ [Next]_vars => AInv'
    <2> SUFFICES ASSUME AInv, [Next]_vars PROVE AInv'
      OBVIOUS
    <2>1. CASE UNCHANGED vars
      BY <2>1 DEF vars, AInv, Places, LaidOut, Answered, Tree
    <2> QED
      BY <2>1, StageStepKeeps, AskKeeps DEF Next
  <1> QED
    BY <1>1, InitEstablishes, PTL DEF Spec

\* The agent reads the project the recorder read, apart from what setup.sh and dbt
\* leave, and a scenario that could be recorded fails to stage for nothing but a
\* missing artifact: for every baseline, overlay, output of dbt and order of the
\* copies.
THEOREM StagedAsRecorded == Spec => []StagedLikeRecorded
  <1>1. AInv => StagedLikeRecorded
    <2> DEFINE recorded == RecordedTree(source)
               tree == Overlaid(source, source.overlay)
               above == OverlaidParents(source.dbt)
               generated == source.dbt \union {Profiles}
    <2> SUFFICES ASSUME AInv, Recordable(source)
                 PROVE  /\ stage = "staged" =>
                              /\ \A p \in DOMAIN staged \ generated :
                                    p \in DOMAIN recorded /\ staged[p] = recorded[p]
                              /\ \A p \in ArtifactPaths :
                                    p \in DOMAIN staged /\ staged[p] = "captured"
                              /\ DOMAIN recorded \ DOMAIN staged \subseteq generated \union above
                        /\ stage = "failed" => ~(Artifacts \subseteq source.captured)
      BY DEF StagedLikeRecorded
    <2>1. /\ stage = "staged" =>
                staged = Over(Files(ArtifactPaths, "captured"), Over(Dirs({Target}), tree))
          /\ stage = "failed" => ~(Artifacts \subseteq source.captured)
      BY DEF AInv, LaidOut, Planted
    <2>2. recorded = Over(Files(source.dbt, "dbt"),
                          Over(Files({Profiles}, "setup"), Over(tree, Dirs(above))))
      BY DEF RecordedTree
    <2>3. ArtifactPaths \subseteq source.dbt
      BY DEF Recordable
    <2>4. Target \in above /\ ~IsFile(tree, Target)
      <3>1. Target \in Parents(Artifact("manifest.json"))
        BY ArtifactParents, ArtifactsArePaths
      <3> QED
        BY <2>3, <3>1, ArtifactsArePaths DEF OverlaidParents, Recordable
    <2>5. Target \in DOMAIN tree => tree[Target] = "dir"
      BY <2>4 DEF IsFile
    <2>6. Target \notin ArtifactPaths
      BY ArtifactParents
    <2> HIDE DEF tree, above, recorded
    <2>7. ASSUME stage = "staged", NEW p \in DOMAIN staged \ generated
          PROVE  p \in DOMAIN recorded /\ staged[p] = recorded[p]
      <3>1. p \notin ArtifactPaths /\ p \notin source.dbt /\ p # Profiles
        BY <2>3, <2>7
      <3>2. CASE p = Target
        BY <2>1, <2>2, <2>4, <2>5, <2>7, <3>1, <3>2 DEF Over, Files, Dirs
      <3>3. CASE p # Target
        BY <2>1, <2>2, <2>7, <3>1, <3>3 DEF Over, Files, Dirs
      <3> QED
        BY <3>2, <3>3
    <2>8. ASSUME stage = "staged"
          PROVE  /\ \A p \in ArtifactPaths : p \in DOMAIN staged /\ staged[p] = "captured"
                 /\ DOMAIN recorded \ DOMAIN staged \subseteq generated \union above
      BY <2>1, <2>2, <2>8 DEF Over, Files, Dirs
    <2> HIDE DEF generated
    <2> QED
      BY <2>1, <2>7, <2>8
  <1> QED
    BY <1>1, StagingInvariant, PTL

-----------------------------------------------------------------------------
(* Paths                                                                   *)

\* Induction, for a set of numbers.
LEMMA AllNumbers ==
    ASSUME NEW S, 0 \in S, \A n \in Nat : n \in S => n + 1 \in S
    PROVE  Nat \subseteq S
  <1> DEFINE Missing == Nat \ S
  <1> SUFFICES ASSUME Missing # {} PROVE FALSE
    OBVIOUS
  <1>1. PICK n \in Missing : \A k \in Missing : ~(<<k, n>> \in OpToRel(<, Nat))
    <2>1. Missing \subseteq Nat
      OBVIOUS
    <2> HIDE DEF Missing
    <2> QED
      BY <2>1, WFMin, NatLessThanWellFounded
  <1>2. n \in Nat /\ n \notin S /\ n # 0
    OBVIOUS
  <1>3. n - 1 \in Nat /\ n - 1 < n /\ (n - 1) + 1 = n
    BY <1>2
  <1>4. n - 1 \notin Missing
    BY <1>1, <1>2, <1>3 DEF OpToRel
  <1> QED
    BY <1>2, <1>3, <1>4

\* The function that Candidate chooses applies the components in turn.
LEMMA CandidateWalks ==
    ASSUME NEW p \in Seq(STRING)
    PROVE  \E at :
              /\ at[0] = ProjectRoot
              /\ \A n \in 1 .. Len(p) : at[n] = Walk(at[n - 1], p[n])
              /\ Candidate(p) = at[Len(p)]
  <1> DEFINE Follows(f, m) == f = [n \in 0 .. m |->
                                      IF n = 0 THEN ProjectRoot ELSE Walk(f[n - 1], p[n])]
             S == {m \in Nat : \E f : Follows(f, m)}
             chosen == CHOOSE f : Follows(f, Len(p))
  <1>1. Len(p) \in Nat
    BY LenProperties
  <1>2. Candidate(p) = chosen[Len(p)]
    BY DEF Candidate
  <1>3. 0 \in S
    <2> DEFINE f == [n \in 0 .. 0 |-> ProjectRoot]
    <2>1. \A n \in 0 .. 0 : n = 0
      OBVIOUS
    <2>2. Follows(f, 0)
      BY <2>1
    <2> QED
      BY <2>2
  <1>4. ASSUME NEW m \in Nat, m \in S PROVE m + 1 \in S
    <2>1. PICK f : Follows(f, m)
      BY <1>4
    <2> DEFINE g == [n \in 0 .. m + 1 |->
                        IF n <= m THEN f[n] ELSE Walk(f[m], p[m + 1])]
    <2>2. ASSUME NEW n \in 0 .. m + 1
          PROVE  g[n] = IF n = 0 THEN ProjectRoot ELSE Walk(g[n - 1], p[n])
      <3>1. CASE n = 0
        <4>1. 0 \in 0 .. m /\ g[0] = f[0]
          OBVIOUS
        <4> HIDE DEF g
        <4> QED
          BY <2>1, <3>1, <4>1
      <3>2. CASE n \in 1 .. m
        <4>1. n \in 0 .. m /\ n - 1 \in 0 .. m /\ n # 0 /\ g[n] = f[n] /\ g[n - 1] = f[n - 1]
          BY <3>2
        <4> HIDE DEF g
        <4> QED
          BY <2>1, <4>1
      <3>3. CASE n = m + 1
        <4>1. n # 0 /\ n - 1 = m /\ g[n] = Walk(f[m], p[n]) /\ g[m] = f[m]
          BY <3>3
        <4> HIDE DEF g
        <4> QED
          BY <4>1
      <3> QED
        BY <3>1, <3>2, <3>3
    <2>3. g = [n \in 0 .. m + 1 |-> g[n]]
      OBVIOUS
    <2> HIDE DEF g
    <2>4. Follows(g, m + 1)
      BY <2>2, <2>3
    <2> QED
      BY <2>4
  <1>5. Nat \subseteq S
    <2> HIDE DEF S
    <2> QED
      BY <1>3, <1>4, AllNumbers
  <1>6. \E f : Follows(f, Len(p))
    BY <1>1, <1>5
  <1>7. Follows(chosen, Len(p))
    <2> HIDE DEF Follows
    <2> QED
      BY <1>6
  <1>8. \A n \in 0 .. Len(p) : chosen[n] = IF n = 0 THEN ProjectRoot ELSE Walk(chosen[n - 1], p[n])
    <2> HIDE DEF chosen
    <2> QED
      BY <1>7
  <1> HIDE DEF chosen, Follows
  <1>9. chosen[0] = ProjectRoot /\ \A n \in 1 .. Len(p) : chosen[n] = Walk(chosen[n - 1], p[n])
    BY <1>1, <1>8
  <1> QED
    BY <1>2, <1>9

\* A stretch of a path, one component longer.
LEMMA OneMore ==
    ASSUME NEW p \in Seq(STRING), NEW m \in 1 .. Len(p), NEW n \in m - 1 .. Len(p) - 1
    PROVE  /\ SubSeq(p, m, n) \in Seq(STRING)
           /\ SubSeq(p, m, n + 1) = Append(SubSeq(p, m, n), p[n + 1])
  <1>1. Len(p) \in Nat /\ \A i \in 1 .. Len(p) : p[i] \in STRING
    BY LenProperties, ElementOfSeq
  <1>2. SubSeq(p, m, n) \in Seq(STRING)
    <2>1. m \in Int /\ n \in Int /\ \A i \in m .. n : p[i] \in STRING
      BY <1>1
    <2> QED
      BY <2>1, SubSeqProperties
  <1>3. SubSeq(p, m, n + 1) = SubSeq(p, m, n) \o <<p[n + 1]>>
    <2>1. m \in 1 .. Len(p) /\ n + 1 \in m .. Len(p) /\ (n + 1) - 1 = n
      BY <1>1
    <2> QED
      BY <2>1, SubSeqRecursiveSecond
  <1> QED
    BY <1>1, <1>2, <1>3, AppendIsConcat

\* What a stretch of a path holds.
LEMMA Stretch ==
    ASSUME NEW p \in Seq(STRING), NEW m \in Nat \ {0}, NEW n \in Nat,
           m <= n + 1, n <= Len(p)
    PROVE  /\ SubSeq(p, m, n) \in Seq(STRING)
           /\ Len(SubSeq(p, m, n)) = n + 1 - m
           /\ \A i \in 1 .. n + 1 - m : SubSeq(p, m, n)[i] = p[m + i - 1]
  <1>1. Len(p) \in Nat /\ \A i \in 1 .. Len(p) : p[i] \in STRING
    BY LenProperties, ElementOfSeq
  <1>2. \A i \in m .. n : p[i] \in STRING
    BY <1>1
  <1>3. /\ SubSeq(p, m, n) \in Seq(STRING)
        /\ Len(SubSeq(p, m, n)) = IF m <= n THEN n - m + 1 ELSE 0
        /\ \A i \in 1 .. n - m + 1 : SubSeq(p, m, n)[i] = p[m + i - 1]
    BY <1>2, SubSeqProperties
  <1>4. n - m + 1 = n + 1 - m
    OBVIOUS
  <1>5. (IF m <= n THEN n - m + 1 ELSE 0) = n + 1 - m
    OBVIOUS
  <1> DEFINE part == SubSeq(p, m, n)
  <1> HIDE DEF part
  <1>6. part \in Seq(STRING) /\ Len(part) = n + 1 - m
    BY <1>3, <1>5 DEF part
  <1>7. \A i \in 1 .. n + 1 - m : part[i] = p[m + i - 1]
    BY <1>3, <1>4 DEF part
  <1> QED
    BY <1>6, <1>7 DEF part

\* A path that only goes down resolves to a place under the root.
LEMMA PlainPathsGoDown ==
    ASSUME NEW p \in Seq(STRING), \A i \in DOMAIN p : p[i] \notin {"/", ".."}
    PROVE  Candidate(p) = ProjectRoot \o p
  <1>1. Len(p) \in Nat /\ DOMAIN p = 1 .. Len(p) /\ ProjectRoot \in Seq(STRING)
    BY LenProperties, RootAssumption
  <1>2. PICK at : /\ at[0] = ProjectRoot
                  /\ \A n \in 1 .. Len(p) : at[n] = Walk(at[n - 1], p[n])
                  /\ Candidate(p) = at[Len(p)]
    BY CandidateWalks
  <1> DEFINE S == {n \in Nat : n <= Len(p) => at[n] = ProjectRoot \o SubSeq(p, 1, n)}
  <1>3. 0 \in S
    <2>1. SubSeq(p, 1, 0) = << >>
      BY SubSeqEmpty
    <2> QED
      BY <1>1, <1>2, <2>1, ConcatEmptySeq
  <1>4. ASSUME NEW n \in Nat, n \in S PROVE n + 1 \in S
    <2> SUFFICES ASSUME n + 1 <= Len(p) PROVE at[n + 1] = ProjectRoot \o SubSeq(p, 1, n + 1)
      OBVIOUS
    <2> DEFINE above == SubSeq(p, 1, n)
    <2>1. n + 1 \in 1 .. Len(p) /\ (n + 1) - 1 = n /\ at[n] = ProjectRoot \o above
            /\ 1 \in 1 .. Len(p) /\ n \in 1 - 1 .. Len(p) - 1
      BY <1>1, <1>4
    <2>2. p[n + 1] \in STRING /\ p[n + 1] # "/" /\ p[n + 1] # ".."
      BY <1>1, <2>1, ElementOfSeq
    <2>3. above \in Seq(STRING) /\ SubSeq(p, 1, n + 1) = Append(above, p[n + 1])
      BY <2>1, OneMore
    <2> HIDE DEF above
    <2>4. at[n + 1] = Append(ProjectRoot \o above, p[n + 1])
      BY <1>2, <2>1, <2>2 DEF Walk
    <2>5. Append(ProjectRoot \o above, p[n + 1]) = ProjectRoot \o Append(above, p[n + 1])
      <3>1. <<p[n + 1]>> \in Seq(STRING) /\ ProjectRoot \o above \in Seq(STRING)
        BY <1>1, <2>2, <2>3, ConcatProperties
      <3>2. (ProjectRoot \o above) \o <<p[n + 1]>> = ProjectRoot \o (above \o <<p[n + 1]>>)
        BY <1>1, <2>3, <3>1, ConcatAssociative
      <3> QED
        BY <2>2, <2>3, <3>1, <3>2, AppendIsConcat
    <2> QED
      BY <2>3, <2>4, <2>5
  <1>5. Nat \subseteq S
    <2> HIDE DEF S
    <2> QED
      BY <1>3, <1>4, AllNumbers
  <1>6. at[Len(p)] = ProjectRoot \o SubSeq(p, 1, Len(p))
    BY <1>1, <1>5
  <1> QED
    BY <1>2, <1>6, SubSeqFull

\* An absolute path that only goes down resolves to itself.
LEMMA AbsolutePathsStandAlone ==
    ASSUME NEW p \in Seq(STRING), p # << >>, p[1] = "/",
           \A i \in 2 .. Len(p) : p[i] \notin {"/", ".."}
    PROVE  Candidate(p) = SubSeq(p, 2, Len(p))
  <1>1. Len(p) \in Nat \ {0}
    BY LenProperties, EmptySeq
  <1>2. PICK at : /\ at[0] = ProjectRoot
                  /\ \A n \in 1 .. Len(p) : at[n] = Walk(at[n - 1], p[n])
                  /\ Candidate(p) = at[Len(p)]
    BY CandidateWalks
  <1> DEFINE S == {n \in Nat : n + 1 <= Len(p) => at[n + 1] = SubSeq(p, 2, n + 1)}
  <1>3. 0 \in S
    <2>1. SubSeq(p, 2, 1) = << >>
      BY SubSeqEmpty
    <2>2. 1 \in 1 .. Len(p) /\ 0 + 1 = 1 /\ 1 - 1 = 0
      BY <1>1
    <2>3. at[1] = << >>
      BY <1>2, <2>2 DEF Walk
    <2> QED
      BY <2>1, <2>2, <2>3
  <1>4. ASSUME NEW n \in Nat, n \in S PROVE n + 1 \in S
    <2> SUFFICES ASSUME n + 2 <= Len(p) PROVE at[n + 2] = SubSeq(p, 2, n + 2)
      OBVIOUS
    <2>1. /\ n + 2 \in 1 .. Len(p) /\ n + 2 \in 2 .. Len(p) /\ (n + 2) - 1 = n + 1
          /\ at[n + 1] = SubSeq(p, 2, n + 1)
          /\ 2 \in 1 .. Len(p) /\ n + 1 \in 2 - 1 .. Len(p) - 1 /\ (n + 1) + 1 = n + 2
      BY <1>1, <1>4
    <2>2. p[n + 2] # "/" /\ p[n + 2] # ".."
      BY <2>1
    <2>3. at[n + 2] = Append(at[n + 1], p[n + 2])
      BY <1>2, <2>1, <2>2 DEF Walk
    <2>4. SubSeq(p, 2, n + 2) = Append(SubSeq(p, 2, n + 1), p[n + 2])
      BY <2>1, OneMore
    <2> QED
      BY <2>1, <2>3, <2>4
  <1>5. Nat \subseteq S
    <2> HIDE DEF S
    <2> QED
      BY <1>3, <1>4, AllNumbers
  <1>6. Len(p) - 1 \in Nat /\ (Len(p) - 1) + 1 = Len(p)
    BY <1>1
  <1> QED
    BY <1>2, <1>5, <1>6

\* Whoever is under the root and goes one step up or down is there still, unless
\* he was at the root.
LEMMA OneStepUnderTheRoot ==
    ASSUME NEW at \in Seq(STRING), IsPrefix(ProjectRoot, at),
           NEW component \in STRING, component # "/",
           component = ".." => Len(at) > Len(ProjectRoot)
    PROVE  /\ Walk(at, component) \in Seq(STRING)
           /\ IsPrefix(ProjectRoot, Walk(at, component))
           /\ Len(Walk(at, component)) = IF component = ".." THEN Len(at) - 1 ELSE Len(at) + 1
  <1> DEFINE next == Walk(at, component)
             top == Len(ProjectRoot)
  <1>1. /\ ProjectRoot \in Seq(STRING) /\ top \in Nat /\ Len(at) \in Nat /\ top <= Len(at)
        /\ \A i \in 1 .. Len(at) : at[i] \in STRING
    BY RootAssumption, LenProperties, ElementOfSeq DEF IsPrefix
  <1>2. SubSeq(ProjectRoot, 1, top) = SubSeq(at, 1, top)
    BY DEF IsPrefix
  <1>3. /\ next \in Seq(STRING)
        /\ Len(next) = IF component = ".." THEN Len(at) - 1 ELSE Len(at) + 1
        /\ top <= Len(next)
        /\ \A i \in 1 .. top : next[i] = at[i]
    <2>1. CASE component = ".."
      <3>1. at # << >> /\ Len(at) - 1 \in Nat
        BY <1>1, <2>1, EmptySeq
      <3>2. next = SubSeq(at, 1, Len(at) - 1)
        BY <2>1, <3>1 DEF Walk, Front
      <3> DEFINE last == Len(at) - 1
      <3>3. /\ last \in Nat /\ 1 <= last + 1 /\ last <= Len(at) /\ last + 1 - 1 = last
            /\ top <= last /\ \A i \in 1 .. top : i \in 1 .. last /\ 1 + i - 1 = i
        BY <1>1, <2>1, <3>1
      <3> HIDE DEF next, last
      <3>4. /\ next \in Seq(STRING) /\ Len(next) = last
            /\ \A i \in 1 .. last : next[i] = at[1 + i - 1]
        BY <3>2, <3>3, Stretch DEF last
      <3>5. \A i \in 1 .. top : next[i] = at[i]
        BY <3>3, <3>4
      <3> QED
        BY <2>1, <3>3, <3>4, <3>5 DEF last
    <2>2. CASE component # ".."
      <3>1. next = Append(at, component)
        BY <2>2 DEF Walk
      <3> HIDE DEF next
      <3> QED
        BY <1>1, <2>2, <3>1, AppendProperties
    <2> QED
      BY <2>1, <2>2
  <1> HIDE DEF next
  <1>4. SubSeq(next, 1, top) = SubSeq(at, 1, top)
    <2>1. \A i \in 1 .. top : next[i] \in STRING /\ at[i] \in STRING
      BY <1>1, <1>3
    <2>2. /\ SubSeq(at, 1, top) \in Seq(STRING) /\ SubSeq(next, 1, top) \in Seq(STRING)
          /\ Len(SubSeq(at, 1, top)) = (IF 1 <= top THEN top - 1 + 1 ELSE 0)
          /\ Len(SubSeq(next, 1, top)) = (IF 1 <= top THEN top - 1 + 1 ELSE 0)
          /\ \A i \in 1 .. top - 1 + 1 : SubSeq(at, 1, top)[i] = at[1 + i - 1]
          /\ \A i \in 1 .. top - 1 + 1 : SubSeq(next, 1, top)[i] = next[1 + i - 1]
      BY <1>1, <2>1, SubSeqProperties
    <2> DEFINE a == SubSeq(at, 1, top)
               b == SubSeq(next, 1, top)
    <2> HIDE DEF a, b
    <2>3. Len(a) = top /\ Len(b) = top /\ a \in Seq(STRING) /\ b \in Seq(STRING)
      BY <1>1, <2>2 DEF a, b
    <2>4. \A i \in 1 .. top : a[i] = b[i]
      <3>1. \A i \in 1 .. top : i \in 1 .. top - 1 + 1 /\ 1 + i - 1 = i
        BY <1>1
      <3> QED
        BY <1>3, <2>2, <3>1 DEF a, b
    <2>5. a = b
      BY <2>3, <2>4, SeqEqual
    <2> QED
      BY <2>5 DEF a, b
  <1>5. IsPrefix(ProjectRoot, next)
    BY <1>2, <1>3, <1>4 DEF IsPrefix
  <1> QED
    BY <1>3, <1>5 DEF next

\* A path that is never above the root on its way resolves to a place under it.
LEMMA PathsBelowDoNotEscape ==
    ASSUME path \in Seq(STRING), StaysBelow
    PROVE  ~Escapes(path)
  <1> DEFINE Ups(n) == {i \in 1 .. n : path[i] = ".."}
  <1>1. /\ Len(path) \in Nat /\ DOMAIN path = 1 .. Len(path) /\ Len(ProjectRoot) \in Nat
        /\ ProjectRoot \in Seq(STRING)
    BY LenProperties, RootAssumption
  <1>2. PICK at : /\ at[0] = ProjectRoot
                  /\ \A n \in 1 .. Len(path) : at[n] = Walk(at[n - 1], path[n])
                  /\ Candidate(path) = at[Len(path)]
    BY CandidateWalks
  <1>3. \A n \in 0 .. Len(path) : 2 * Cardinality(Ups(n)) <= n
    BY DEF StaysBelow
  <1>4. ASSUME NEW n \in Nat
        PROVE  /\ IsFiniteSet(Ups(n)) /\ Cardinality(Ups(n)) \in Nat
               /\ Cardinality(Ups(n + 1))
                     = IF path[n + 1] = ".." THEN Cardinality(Ups(n)) + 1 ELSE Cardinality(Ups(n))
    <2>1. IsFiniteSet(1 .. n)
      BY FS_Interval
    <2>2. IsFiniteSet(Ups(n)) /\ Cardinality(Ups(n)) \in Nat
      BY <2>1, FS_Subset, FS_CardinalityType
    <2>3. 1 .. n + 1 = (1 .. n) \union {n + 1} /\ n + 1 \notin 1 .. n
      OBVIOUS
    <2>4. CASE path[n + 1] = ".."
      <3>1. Ups(n + 1) = Ups(n) \union {n + 1} /\ n + 1 \notin Ups(n)
        BY <2>3, <2>4
      <3> HIDE DEF Ups
      <3> QED
        BY <2>2, <2>4, <3>1, FS_AddElement
    <2>5. CASE path[n + 1] # ".."
      <3>1. Ups(n + 1) = Ups(n)
        BY <2>3, <2>5
      <3> HIDE DEF Ups
      <3> QED
        BY <2>2, <2>5, <3>1
    <2> QED
      BY <2>2, <2>4, <2>5
  <1>5. Cardinality(Ups(0)) = 0
    <2>1. Ups(0) = {}
      OBVIOUS
    <2> QED
      BY <2>1, FS_EmptySet
  <1> HIDE DEF Ups
  <1> DEFINE Under(n) == /\ at[n] \in Seq(STRING) /\ IsPrefix(ProjectRoot, at[n])
                         /\ Len(at[n]) = Len(ProjectRoot) + n - 2 * Cardinality(Ups(n))
             S == {n \in Nat : n <= Len(path) => Under(n)}
  <1>6. 0 \in S
    <2>1. IsPrefix(ProjectRoot, ProjectRoot)
      BY <1>1 DEF IsPrefix
    <2> QED
      BY <1>1, <1>2, <1>5, <2>1
  <1>7. ASSUME NEW n \in Nat, n \in S PROVE n + 1 \in S
    <2> SUFFICES ASSUME n + 1 <= Len(path) PROVE Under(n + 1)
      OBVIOUS
    <2>1. n + 1 \in 1 .. Len(path) /\ (n + 1) - 1 = n /\ n + 1 \in 0 .. Len(path)
            /\ n <= Len(path)
      BY <1>1
    <2>2. Under(n) /\ at[n + 1] = Walk(at[n], path[n + 1])
      BY <1>2, <1>7, <2>1
    <2>3. path[n + 1] \in STRING /\ path[n + 1] # "/"
      BY <1>1, <2>1, ElementOfSeq DEF StaysBelow
    <2>4. 2 * Cardinality(Ups(n + 1)) <= n + 1
      BY <1>3, <2>1
    <2> DEFINE ups == Cardinality(Ups(n))
               more == Cardinality(Ups(n + 1))
               length == Len(at[n])
    <2>5. /\ ups \in Nat /\ more = IF path[n + 1] = ".." THEN ups + 1 ELSE ups
          /\ 2 * more <= n + 1 /\ length = Len(ProjectRoot) + n - 2 * ups
      BY <1>4, <2>2, <2>4
    <2>6. /\ at[n] \in Seq(STRING) /\ IsPrefix(ProjectRoot, at[n])
      BY <2>2
    <2> HIDE DEF ups, more, length, Under
    <2>7. path[n + 1] = ".." => length > Len(ProjectRoot)
      BY <1>1, <2>5
    <2>8. /\ at[n + 1] \in Seq(STRING) /\ IsPrefix(ProjectRoot, at[n + 1])
          /\ Len(at[n + 1]) = IF path[n + 1] = ".." THEN length - 1 ELSE length + 1
      BY <2>2, <2>3, <2>6, <2>7, OneStepUnderTheRoot DEF length
    <2>9. Len(at[n + 1]) = Len(ProjectRoot) + (n + 1) - 2 * more
      BY <1>1, <2>5, <2>8
    <2> QED
      BY <2>8, <2>9 DEF Under, more
  <1>8. Nat \subseteq S
    <2> HIDE DEF S
    <2> QED
      BY <1>6, <1>7, AllNumbers
  <1>9. IsPrefix(ProjectRoot, at[Len(path)])
    BY <1>1, <1>8
  <1> QED
    BY <1>2, <1>9 DEF Escapes

\* What is under the root is found under the root, by its own name.
LEMMA UnderTheRoot ==
    ASSUME NEW p \in Seq(STRING)
    PROVE  /\ IsPrefix(ProjectRoot, ProjectRoot \o p)
           /\ SubSeq(ProjectRoot \o p, Len(ProjectRoot) + 1, Len(ProjectRoot \o p)) = p
  <1> DEFINE place == ProjectRoot \o p
             own == SubSeq(place, Len(ProjectRoot) + 1, Len(place))
  <1>1. /\ ProjectRoot \in Seq(STRING) /\ Len(ProjectRoot) \in Nat /\ Len(p) \in Nat
        /\ place \in Seq(STRING) /\ Len(place) = Len(ProjectRoot) + Len(p)
        /\ \A i \in 1 .. Len(ProjectRoot) + Len(p) :
              place[i] = IF i <= Len(ProjectRoot) THEN ProjectRoot[i] ELSE p[i - Len(ProjectRoot)]
    BY RootAssumption, LenProperties, ConcatProperties
  <1> HIDE DEF place
  <1>2. \A i \in 1 .. Len(place) : place[i] \in STRING
    BY <1>1, ElementOfSeq
  <1>3. SubSeq(place, 1, Len(ProjectRoot)) = SubSeq(ProjectRoot, 1, Len(ProjectRoot))
    <2> DEFINE up == SubSeq(place, 1, Len(ProjectRoot))
    <2>0. \A i \in 1 .. Len(ProjectRoot) : place[i] \in STRING
      BY <1>1, <1>2
    <2>1. up \in Seq(STRING) /\ Len(up) = (IF 1 <= Len(ProjectRoot) THEN Len(ProjectRoot) - 1 + 1 ELSE 0)
            /\ \A i \in 1 .. Len(ProjectRoot) - 1 + 1 : up[i] = place[1 + i - 1]
      BY <1>1, <2>0, SubSeqProperties
    <2> HIDE DEF up
    <2>2. Len(up) = Len(ProjectRoot)
      BY <1>1, <2>1
    <2>3. \A i \in 1 .. Len(up) : up[i] = ProjectRoot[i]
      BY <1>1, <2>1, <2>2
    <2>4. up = ProjectRoot
      BY <1>1, <2>1, <2>2, <2>3, SeqEqual
    <2> QED
      BY <1>1, <2>4, SubSeqFull DEF up
  <1>4. own = p
    <2>0. \A i \in Len(ProjectRoot) + 1 .. Len(place) : place[i] \in STRING
      BY <1>1, <1>2
    <2> DEFINE m == Len(ProjectRoot) + 1
    <2>1. m \in Int /\ Len(place) \in Int
      BY <1>1
    <2>2. own \in Seq(STRING) /\ Len(own) = (IF m <= Len(place) THEN Len(place) - m + 1 ELSE 0)
            /\ \A i \in 1 .. Len(place) - m + 1 : own[i] = place[m + i - 1]
      BY <2>0, <2>1, SubSeqProperties
    <2> HIDE DEF own
    <2>3. Len(own) = Len(p)
      BY <1>1, <2>2
    <2>4. ASSUME NEW i \in 1 .. Len(p) PROVE own[i] = p[i]
      <3>1. i \in 1 .. Len(place) - m + 1 /\ m + i - 1 \in 1 .. Len(ProjectRoot) + Len(p)
               /\ ~(m + i - 1 <= Len(ProjectRoot)) /\ m + i - 1 - Len(ProjectRoot) = i
        BY <1>1
      <3> QED
        BY <1>1, <2>2, <3>1
    <2> QED
      BY <2>2, <2>3, <2>4, SeqEqual
  <1>5. Len(ProjectRoot) <= Len(place)
    BY <1>1
  <1> QED
    BY <1>3, <1>4, <1>5 DEF IsPrefix, place

\* A word of three at place k + 1 of a sequence.
LEMMA ThreeInARow ==
    ASSUME NEW S, NEW s \in Seq(S), NEW k \in Nat, k + 3 <= Len(s)
    PROVE  /\ SubSeq(s, 1, k) \o <<s[k + 1], s[k + 2], s[k + 3]>> = SubSeq(s, 1, k + 3)
           /\ Len(SubSeq(s, 1, k)) = k /\ SubSeq(s, 1, k) \in Seq(S)
           /\ Len(SubSeq(s, 1, k + 3)) = k + 3 /\ SubSeq(s, 1, k + 3) \in Seq(S)
           /\ \A i \in 1 .. k + 3 : SubSeq(s, 1, k + 3)[i] = s[i]
  <1>1. Len(s) \in Nat /\ \A i \in 1 .. Len(s) : s[i] \in S
    BY LenProperties, ElementOfSeq
  <1>2. Len(SubSeq(s, 1, k)) = k /\ SubSeq(s, 1, k) \in Seq(S)
    <2>1. \A i \in 1 .. k : s[i] \in S
      BY <1>1
    <2>2. SubSeq(s, 1, k) \in Seq(S)
             /\ Len(SubSeq(s, 1, k)) = IF 1 <= k THEN k - 1 + 1 ELSE 0
      BY <2>1, SubSeqProperties
    <2> QED
      BY <2>2
  <1>3. /\ Len(SubSeq(s, 1, k + 3)) = k + 3 /\ SubSeq(s, 1, k + 3) \in Seq(S)
        /\ \A i \in 1 .. k + 3 : SubSeq(s, 1, k + 3)[i] = s[i]
    <2>1. \A i \in 1 .. k + 3 : s[i] \in S
      BY <1>1
    <2>2. /\ SubSeq(s, 1, k + 3) \in Seq(S)
          /\ Len(SubSeq(s, 1, k + 3)) = IF 1 <= k + 3 THEN k + 3 - 1 + 1 ELSE 0
          /\ \A i \in 1 .. k + 3 - 1 + 1 : SubSeq(s, 1, k + 3)[i] = s[1 + i - 1]
      BY <2>1, SubSeqProperties
    <2> QED
      BY <2>2
  <1>4. SubSeq(s, k + 1, k + 3) = <<s[k + 1], s[k + 2], s[k + 3]>>
    <2>1. \A i \in k + 1 .. k + 3 : s[i] \in S
      BY <1>1
    <2>2. /\ SubSeq(s, k + 1, k + 3) \in Seq(S)
          /\ Len(SubSeq(s, k + 1, k + 3)) = IF k + 1 <= k + 3 THEN k + 3 - (k + 1) + 1 ELSE 0
          /\ \A i \in 1 .. k + 3 - (k + 1) + 1 : SubSeq(s, k + 1, k + 3)[i] = s[k + 1 + i - 1]
      BY <2>1, SubSeqProperties
    <2>3. /\ Len(SubSeq(s, k + 1, k + 3)) = 3
          /\ SubSeq(s, k + 1, k + 3)[1] = s[k + 1]
          /\ SubSeq(s, k + 1, k + 3)[2] = s[k + 2]
          /\ SubSeq(s, k + 1, k + 3)[3] = s[k + 3]
      <3>1. k + 3 - (k + 1) + 1 = 3 /\ k + 1 + 1 - 1 = k + 1 /\ k + 1 + 2 - 1 = k + 2
              /\ k + 1 + 3 - 1 = k + 3 /\ 1 \in 1 .. 3 /\ 2 \in 1 .. 3 /\ 3 \in 1 .. 3
              /\ k + 1 <= k + 3
        OBVIOUS
      <3> QED
        BY <2>2, <3>1
    <2>4. s[k + 1] \in S /\ s[k + 2] \in S /\ s[k + 3] \in S
      BY <1>1
    <2> DEFINE three == <<s[k + 1], s[k + 2], s[k + 3]>>
    <2>5. three \in Seq(S) /\ Len(three) = 3
             /\ three[1] = s[k + 1] /\ three[2] = s[k + 2] /\ three[3] = s[k + 3]
      BY <2>4
    <2> HIDE DEF three
    <2>6. \A i \in 1 .. 3 : i = 1 \/ i = 2 \/ i = 3
      OBVIOUS
    <2>7. SubSeq(s, k + 1, k + 3) = three
      BY <2>2, <2>3, <2>5, <2>6, SeqEqual
    <2> QED
      BY <2>7 DEF three
  <1>5. SubSeq(s, 1, k) \o SubSeq(s, k + 1, k + 3) = SubSeq(s, 1, k + 3)
    <2>1. 1 \in 1 .. Len(s) + 1 /\ k \in 1 - 1 .. Len(s) /\ k + 3 \in k .. Len(s)
      BY <1>1
    <2> QED
      BY <2>1, ConcatAdjacentSubSeq
  <1> QED
    BY <1>2, <1>3, <1>4, <1>5

\* The lab filter takes for an answer key what its docstring lists.
LEMMA FilterKnowsTheKeys ==
    ASSUME NEW p \in Seq(STRING)
    PROVE  IsLabArtifact(p) <=> InAnswerKey(p)
  <1> DEFINE Keys == AnswerKeyFiles \union AnswerKeyDirs
  <1>1. Len(p) \in Nat /\ DOMAIN p = 1 .. Len(p) /\ \A i \in 1 .. Len(p) : p[i] \in STRING
    BY LenProperties, ElementOfSeq
  <1>2. ASSUME IsLabArtifact(p) PROVE InAnswerKey(p)
    <2>1. PICK i \in DOMAIN p : p[i] = "scenarios" /\ i + 2 \in DOMAIN p /\ p[i + 2] \in Keys
      BY <1>2 DEF IsLabArtifact
    <2> DEFINE k == i - 1
    <2>2. k \in 0 .. Len(p) /\ k \in Nat /\ k + 1 = i /\ k + 2 = i + 1 /\ k + 3 = i + 2 /\ k + 3 <= Len(p)
            /\ i + 1 \in DOMAIN p
      BY <1>1, <2>1
    <2> HIDE DEF k
    <2>3. SubSeq(p, 1, k) \o <<"scenarios", p[i + 1], p[i + 2]>> = SubSeq(p, 1, k + 3)
      BY <2>1, <2>2, ThreeInARow
    <2>4. IsPrefix(SubSeq(p, 1, k + 3), p)
      <3>1. Len(SubSeq(p, 1, k + 3)) = k + 3 /\ SubSeq(p, 1, k + 3) \in Seq(STRING)
        BY <2>2, ThreeInARow
      <3> QED
        BY <2>2, <3>1, SubSeqFull DEF IsPrefix
    <2>5. p[i + 1] \in Range(p)
      BY <2>2 DEF Range
    <2> QED
      BY <2>1, <2>2, <2>3, <2>4, <2>5 DEF InAnswerKey
  <1>3. ASSUME InAnswerKey(p) PROVE IsLabArtifact(p)
    <2>1. PICK k \in 0 .. Len(p), name \in Range(p), key \in Keys :
             IsPrefix(SubSeq(p, 1, k) \o <<"scenarios", name, key>>, p)
      BY <1>3 DEF InAnswerKey
    <2> DEFINE S == STRING \union {"scenarios", name, key}
               word == SubSeq(p, 1, k) \o <<"scenarios", name, key>>
    <2>2. p \in Seq(S)
      <3>1. STRING \subseteq S
        OBVIOUS
      <3> HIDE DEF S
      <3> QED
        BY <3>1, SeqMonotonic
    <2>3. SubSeq(p, 1, k) \in Seq(S) /\ Len(SubSeq(p, 1, k)) = k
      <3>1. \A i \in 1 .. k : p[i] \in S
        BY <1>1
      <3> HIDE DEF S
      <3>2. SubSeq(p, 1, k) \in Seq(S)
               /\ Len(SubSeq(p, 1, k)) = IF 1 <= k THEN k - 1 + 1 ELSE 0
        BY <3>1, SubSeqProperties
      <3> QED
        BY <3>2
    <2> DEFINE three == <<"scenarios", name, key>>
    <2>4. three \in Seq(S) /\ Len(three) = 3 /\ three[1] = "scenarios" /\ three[3] = key
      OBVIOUS
    <2> HIDE DEF S, three
    <2>5. /\ word \in Seq(S) /\ Len(word) = k + 3
          /\ word[k + 1] = "scenarios" /\ word[k + 3] = key
      <3>1. /\ word \in Seq(S) /\ Len(word) = k + 3
            /\ \A i \in 1 .. k + 3 : word[i] = IF i <= k THEN SubSeq(p, 1, k)[i] ELSE three[i - k]
        BY <2>3, <2>4, ConcatProperties DEF three
      <3>2. k + 1 \in 1 .. k + 3 /\ k + 3 \in 1 .. k + 3 /\ ~(k + 1 <= k) /\ ~(k + 3 <= k)
               /\ (k + 1) - k = 1 /\ (k + 3) - k = 3
        OBVIOUS
      <3> HIDE DEF word
      <3> QED
        BY <2>4, <3>1, <3>2
    <2>6. IsPrefix(word, p)
      BY <2>1
    <2> HIDE DEF word
    <2>7. k + 3 <= Len(p) /\ word = SubSeq(p, 1, k + 3)
      BY <2>5, <2>6, SubSeqFull DEF IsPrefix
    <2>8. \A i \in 1 .. k + 3 : word[i] = p[i]
      BY <2>7, ThreeInARow
    <2>9. p[k + 1] = "scenarios" /\ p[k + 3] \in Keys
      <3>1. k + 1 \in 1 .. k + 3 /\ k + 3 \in 1 .. k + 3
        OBVIOUS
      <3> QED
        BY <2>1, <2>5, <2>8, <3>1
    <2>10. k + 1 \in DOMAIN p /\ (k + 1) + 2 = k + 3 /\ k + 3 \in DOMAIN p
      BY <1>1, <2>7
    <2> QED
      BY <2>9, <2>10 DEF IsLabArtifact
  <1> QED
    BY <1>2, <1>3

\* What is at a place under the root is what is at its own path in the project.
LEMMA FilesOfTheProject ==
    ASSUME DOMAIN staged \subseteq Seq(STRING), NEW p \in Seq(STRING)
    PROVE  /\ ProjectRoot \o p \in DOMAIN Tree.files <=> p \in DOMAIN staged
           /\ p \in DOMAIN staged => Tree.files[ProjectRoot \o p] = staged[p]
  <1> DEFINE Inside == {ProjectRoot \o q : q \in DOMAIN staged}
             place == ProjectRoot \o p
  <1>1. /\ DOMAIN Tree.files = Inside \union DOMAIN Elsewhere
        /\ \A at \in Inside : Tree.files[at] = staged[SubSeq(at, Len(ProjectRoot) + 1, Len(at))]
    BY DEF Tree, Over
  <1>2. place \notin DOMAIN Elsewhere
    BY UnderTheRoot, AccessAssumption
  <1>3. place \in Inside => p \in DOMAIN staged
    <2> SUFFICES ASSUME NEW q \in DOMAIN staged, place = ProjectRoot \o q PROVE p = q
      OBVIOUS
    <2>1. q \in Seq(STRING)
      OBVIOUS
    <2>2. SubSeq(ProjectRoot \o q, Len(ProjectRoot) + 1, Len(ProjectRoot \o q)) = q
      BY <2>1, UnderTheRoot
    <2>3. SubSeq(place, Len(ProjectRoot) + 1, Len(place)) = p
      BY UnderTheRoot
    <2> QED
      BY <2>2, <2>3
  <1>4. SubSeq(place, Len(ProjectRoot) + 1, Len(place)) = p
    BY UnderTheRoot
  <1>5. p \in DOMAIN staged => place \in Inside
    OBVIOUS
  <1> HIDE DEF place, Inside
  <1>6. /\ place \in DOMAIN Tree.files <=> p \in DOMAIN staged
        /\ p \in DOMAIN staged => Tree.files[place] = staged[p]
    BY <1>1, <1>2, <1>3, <1>4, <1>5
  <1> QED
    BY <1>6 DEF place

\* A path without ".." shows a key to nobody: wherever it is found, the filter
\* finds the key in the path itself.
LEMMA NoKeyWithoutClimbing ==
    ASSUME path \in Seq(STRING), \A i \in DOMAIN path : path[i] = "/" => i = 1,
           ".." \notin Range(path), ~IsLabArtifact(path),
           NEW p \in Seq(STRING), Candidate(path) = ProjectRoot \o p
    PROVE  ~InAnswerKey(p)
  <1> DEFINE Keys == AnswerKeyFiles \union AnswerKeyDirs
  <1>1. Len(path) \in Nat /\ DOMAIN path = 1 .. Len(path)
          /\ \A i \in 1 .. Len(path) : path[i] \in STRING /\ path[i] # ".."
    BY LenProperties, ElementOfSeq DEF Range
  <1>2. CASE path = << >> \/ path[1] # "/"
    <2>1. \A i \in DOMAIN path : path[i] \notin {"/", ".."}
      BY <1>1, <1>2, EmptySeq
    <2>2. ProjectRoot \o path = ProjectRoot \o p
      BY <2>1, PlainPathsGoDown
    <2>3. p = path
      <3>1. SubSeq(ProjectRoot \o p, Len(ProjectRoot) + 1, Len(ProjectRoot \o p)) = p
        BY UnderTheRoot
      <3>2. SubSeq(ProjectRoot \o path, Len(ProjectRoot) + 1, Len(ProjectRoot \o path)) = path
        BY UnderTheRoot
      <3> QED
        BY <2>2, <3>1, <3>2
    <2> QED
      BY <2>3, FilterKnowsTheKeys
  <1>3. CASE path # << >> /\ path[1] = "/"
    <2>1. \A i \in 2 .. Len(path) : path[i] \notin {"/", ".."}
      <3>1. \A i \in 2 .. Len(path) : i \in 1 .. Len(path) /\ i # 1
        BY <1>1
      <3> QED
        BY <1>1, <3>1
    <2>2. ProjectRoot \o p = SubSeq(path, 2, Len(path))
      BY <1>3, <2>1, AbsolutePathsStandAlone
    <2> DEFINE top == Len(ProjectRoot)
    <2>3. /\ top \in Nat /\ Len(p) \in Nat /\ DOMAIN p = 1 .. Len(p)
          /\ Len(ProjectRoot \o p) = top + Len(p)
          /\ \A i \in 1 .. Len(p) : (ProjectRoot \o p)[top + i] = p[i]
      <3>1. ProjectRoot \in Seq(STRING) /\ top \in Nat /\ Len(p) \in Nat /\ DOMAIN p = 1 .. Len(p)
        BY RootAssumption, LenProperties
      <3>2. /\ Len(ProjectRoot \o p) = top + Len(p)
            /\ \A i \in 1 .. top + Len(p) :
                  (ProjectRoot \o p)[i] = IF i <= top THEN ProjectRoot[i] ELSE p[i - top]
        BY <3>1, ConcatProperties
      <3> HIDE DEF top
      <3>3. ASSUME NEW i \in 1 .. Len(p) PROVE (ProjectRoot \o p)[top + i] = p[i]
        <4>1. top + i \in 1 .. top + Len(p) /\ ~(top + i <= top) /\ (top + i) - top = i
          BY <3>1
        <4> QED
          BY <3>2, <4>1
      <3> QED
        BY <3>1, <3>2, <3>3
    <2>4. /\ Len(SubSeq(path, 2, Len(path))) = Len(path) - 1
          /\ \A i \in 1 .. Len(path) - 1 : SubSeq(path, 2, Len(path))[i] = path[i + 1]
      <3>1. Len(path) \in Nat \ {0}
        BY <1>1, <1>3, EmptySeq
      <3>2. 2 <= Len(path) + 1 /\ Len(path) + 1 - 2 = Len(path) - 1
        BY <3>1
      <3>3. /\ Len(SubSeq(path, 2, Len(path))) = Len(path) + 1 - 2
            /\ \A i \in 1 .. Len(path) + 1 - 2 : SubSeq(path, 2, Len(path))[i] = path[2 + i - 1]
        BY <1>1, <3>2, Stretch
      <3>4. \A i \in 1 .. Len(path) - 1 : 2 + i - 1 = i + 1
        OBVIOUS
      <3> QED
        BY <3>2, <3>3, <3>4
    <2> DEFINE rest == SubSeq(path, 2, Len(path))
               place == ProjectRoot \o p
    <2> HIDE DEF rest, place, top
    <2>5. Len(path) = top + Len(p) + 1
      <3>1. Len(place) = top + Len(p) /\ Len(rest) = Len(path) - 1 /\ place = rest
        BY <2>2, <2>3, <2>4 DEF rest, place
      <3>2. Len(path) \in Nat /\ top \in Nat /\ Len(p) \in Nat
        BY <1>1, <2>3
      <3>3. Len(path) - 1 = top + Len(p)
        BY <3>1
      <3> QED
        BY <3>2, <3>3
    <2>6. ASSUME NEW i \in DOMAIN p
          PROVE  top + i + 1 \in DOMAIN path /\ path[top + i + 1] = p[i]
      <3>1. i \in 1 .. Len(p) /\ top + i \in 1 .. Len(path) - 1 /\ top + i + 1 \in 1 .. Len(path)
        BY <2>3, <2>5
      <3>2. place[top + i] = p[i] /\ rest[top + i] = path[(top + i) + 1] /\ place = rest
        BY <2>2, <2>3, <2>4, <3>1 DEF rest, place
      <3> QED
        BY <1>1, <3>1, <3>2
    <2>7. ~IsLabArtifact(p)
      <3> SUFFICES ASSUME NEW i \in DOMAIN p, p[i] = "scenarios", i + 2 \in DOMAIN p, p[i + 2] \in Keys
                   PROVE  FALSE
        BY DEF IsLabArtifact
      <3>1. /\ top + i + 1 \in DOMAIN path /\ path[top + i + 1] = "scenarios"
            /\ top + (i + 2) + 1 \in DOMAIN path /\ path[top + (i + 2) + 1] \in Keys
        BY <2>6
      <3>2. top + (i + 2) + 1 = (top + i + 1) + 2
        BY <2>3
      <3> QED
        BY <3>1, <3>2 DEF IsLabArtifact
    <2> QED
      BY <2>7, FilterKnowsTheKeys
  <1> QED
    BY <1>2, <1>3

\* What read_file shows, for any project and any path: for a plain path the file
\* if it is there and is no answer key, for any path nothing outside the project
\* and a key only by climbing, and it raises only for a path that is above the
\* root on its way, for a bad name, or where the system refuses to look.
THEOREM ReadCorrect == Spec => []ReadShowsExactlyTheProject
  <1>1. AInv => ReadShowsExactlyTheProject
    <2> SUFFICES ASSUME AInv, answer # "pending"
                 PROVE  /\ Plain => (answer = "content" <=> ~InAnswerKey(path) /\ Readable(path))
                        /\ answer = "content" => \E p \in DOMAIN staged :
                              /\ Candidate(path) = ProjectRoot \o p
                              /\ Readable(p)
                              /\ InAnswerKey(p) => ".." \in Range(path)
                        /\ answer = "raise" => \/ ~StaysBelow
                                               \/ BadName \in Range(path)
                                               \/ Candidate(path) \in Refused
      BY DEF ReadShowsExactlyTheProject
    <2>1. /\ answer = ReadFile(Tree, path) /\ path \in Seq(STRING) /\ DOMAIN staged \subseteq Seq(STRING)
          /\ \A i \in DOMAIN path : path[i] = "/" => i = 1
      BY DEF AInv, Answered, Places
    <2>2. answer = "content" <=>
             /\ ~IsLabArtifact(path) /\ ~Escapes(path)
             /\ BadName \notin Range(path) /\ Candidate(path) \notin Refused
             /\ Candidate(path) \in DOMAIN Tree.files
             /\ Tree.files[Candidate(path)] \notin {"dir", "error_text"}
      <3>1. Tree.refused = Refused
        BY DEF Tree
      <3> QED
        BY <2>1, <3>1 DEF ReadFile
    <2>3. answer = "raise" => \/ Escapes(path)
                             \/ BadName \in Range(path)
                             \/ Candidate(path) \in Refused
      <3>1. Tree.refused = Refused
        BY DEF Tree
      <3> QED
        BY <2>1, <3>1 DEF ReadFile
    <2>4. ASSUME Plain
          PROVE  answer = "content" <=> ~InAnswerKey(path) /\ Readable(path)
      <3>1. Candidate(path) = ProjectRoot \o path
        BY <2>1, <2>4, PlainPathsGoDown DEF Plain
      <3>2. ~Escapes(path)
        BY <2>1, <3>1, UnderTheRoot DEF Escapes
      <3>3. /\ Candidate(path) \in DOMAIN Tree.files <=> path \in DOMAIN staged
            /\ path \in DOMAIN staged => Tree.files[Candidate(path)] = staged[path]
        BY <2>1, <3>1, FilesOfTheProject
      <3>4. IsLabArtifact(path) <=> InAnswerKey(path)
        BY <2>1, FilterKnowsTheKeys
      <3>5. BadName \notin Range(path)
        BY <2>4 DEF Plain, Range
      <3> QED
        BY <2>2, <3>1, <3>2, <3>3, <3>4, <3>5 DEF Readable
    <2>5. ASSUME answer = "content"
          PROVE  \E p \in DOMAIN staged : /\ Candidate(path) = ProjectRoot \o p
                                          /\ Readable(p)
                                          /\ InAnswerKey(p) => ".." \in Range(path)
      <3> DEFINE at == Candidate(path)
      <3>1. /\ at \in DOMAIN Tree.files /\ IsPrefix(ProjectRoot, at) /\ at \notin Refused
            /\ Tree.files[at] \notin {"dir", "error_text"} /\ ~IsLabArtifact(path)
        BY <2>2, <2>5 DEF Escapes
      <3>2. DOMAIN Tree.files = {ProjectRoot \o q : q \in DOMAIN staged} \union DOMAIN Elsewhere
        BY DEF Tree, Over
      <3> HIDE DEF at
      <3>3. PICK p \in DOMAIN staged : at = ProjectRoot \o p
        BY <3>1, <3>2, AccessAssumption
      <3>4. Tree.files[at] = staged[p]
        BY <2>1, <3>3, FilesOfTheProject
      <3>5. InAnswerKey(p) => ".." \in Range(path)
        BY <2>1, <3>1, <3>3, NoKeyWithoutClimbing DEF at
      <3> QED
        BY <3>1, <3>3, <3>4, <3>5 DEF Readable, at
    <2>6. answer = "raise" => \/ ~StaysBelow
                             \/ BadName \in Range(path)
                             \/ Candidate(path) \in Refused
      BY <2>1, <2>3, PathsBelowDoNotEscape
    <2> QED
      BY <2>4, <2>5, <2>6
  <1> QED
    BY <1>1, StagingInvariant, PTL
=============================================================================
