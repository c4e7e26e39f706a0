------------------------- MODULE BenchRunnerProofs -------------------------
(***************************************************************************)
(* What BenchRunner guarantees for every set of scenario directories and   *)
(* every invocation: the selection is the kept directories in their order, *)
(* the suite is worked through in that order, no agent is run in vain, the *)
(* exit code is honest, and SuiteReport is implemented (its safety part).  *)
(***************************************************************************)
EXTENDS BenchRunner, SequenceTheorems, FiniteSetTheorems, WellFoundedInduction, TLAPS

BenchResult == [name : STRING, green : BOOLEAN]

-----------------------------------------------------------------------------
(* Lemmas on the selection of scenarios.                                   *)

\* f lists S without repetition, smallest member first.
Lists(f, S) ==
    /\ f \in [1 .. Cardinality(S) -> S]
    /\ \A i, j \in 1 .. Cardinality(S) : i < j => f[i] < f[j]

\* Every set of positive numbers up to a bound can be listed: else there is a
\* smallest bound for which some set cannot, and the set without its largest
\* member has a smaller one.
LEMMA BoundedSetsAreListed ==
    \A n \in Nat : \A S \in SUBSET (1 .. n) : \E f : Lists(f, S)
  <1> DEFINE Bad == {n \in Nat : \E S \in SUBSET (1 .. n) : ~ \E f : Lists(f, S)}
  <1> SUFFICES ASSUME Bad # {} PROVE FALSE
    OBVIOUS
  <1>1. Bad \subseteq Nat
    OBVIOUS
  <1>2. PICK n \in Bad : \A k \in Bad : ~(<<k, n>> \in OpToRel(<, Nat))
    <2> HIDE DEF Bad
    <2> QED
      BY <1>1, WFMin, NatLessThanWellFounded
  <1>3. n \in Nat
    BY <1>1
  <1>4. \A k \in Nat : k < n => k \notin Bad
    BY <1>2, <1>3 DEF OpToRel
  <1>5. PICK S \in SUBSET (1 .. n) : ~ \E f : Lists(f, S)
    OBVIOUS
  <1>6. IsFiniteSet(S) /\ Cardinality(S) \in Nat
    <2>1. IsFiniteSet(1 .. n)
      BY <1>3, FS_Interval
    <2> QED
      BY <2>1, FS_Subset, FS_CardinalityType
  <1>7. n # 0
    <2> SUFFICES ASSUME n = 0 PROVE FALSE
      OBVIOUS
    <2>1. S = {}
      OBVIOUS
    <2>2. Cardinality(S) = 0
      BY <2>1, FS_EmptySet
    <2>3. Lists([i \in 1 .. 0 |-> i], S)
      BY <2>1, <2>2 DEF Lists
    <2> QED
      BY <2>3, <1>5
  <1>8. n - 1 \in Nat /\ n - 1 \notin Bad
    BY <1>3, <1>4, <1>7
  <1>9. n \in S
    <2> SUFFICES ASSUME n \notin S PROVE FALSE
      OBVIOUS
    <2>1. S \subseteq 1 .. (n - 1)
      BY <1>3
    <2> QED
      BY <2>1, <1>5, <1>8
  <1> DEFINE U == S \ {n}
             c == Cardinality(S)
  <1>10. U \subseteq 1 .. (n - 1) /\ Cardinality(U) = c - 1 /\ c - 1 \in Nat
    <2>1. Cardinality(U) = c - 1
      BY <1>6, <1>9, FS_RemoveElement
    <2>2. IsFiniteSet(U)
      BY <1>6, FS_RemoveElement
    <2>3. Cardinality(U) \in Nat
      BY <2>2, FS_CardinalityType
    <2> QED
      BY <1>3, <2>1, <2>3
  <1>11. PICK g : Lists(g, U)
    BY <1>8, <1>10
  <1>12. /\ g \in [1 .. (c - 1) -> U]
         /\ \A i, j \in 1 .. (c - 1) : i < j => g[i] < g[j]
    BY <1>10, <1>11 DEF Lists
  <1> DEFINE h == [i \in 1 .. c |-> IF i = c THEN n ELSE g[i]]
  <1>13. \A i \in 1 .. c : i # c => i \in 1 .. (c - 1)
    BY <1>6
  <1>14. h \in [1 .. c -> S]
    BY <1>9, <1>12, <1>13
  <1>15. ASSUME NEW i \in 1 .. c, NEW j \in 1 .. c, i < j
         PROVE  h[i] < h[j]
    <2>1. i \in 1 .. (c - 1)
      BY <1>6, <1>15
    <2>2. h[i] = g[i] /\ g[i] \in 1 .. (n - 1)
      <3>1. i # c
        BY <1>6, <2>1
      <3>2. g[i] \in U
        BY <1>12, <2>1
      <3> HIDE DEF U
      <3> QED
        BY <1>10, <3>1, <3>2
    <2>3. CASE j = c
      <3>1. h[j] = n
        BY <2>3
      <3> QED
        BY <1>3, <2>2, <3>1
    <2>4. CASE j # c
      <3>1. h[j] = g[j] /\ j \in 1 .. (c - 1)
        BY <1>13, <2>4
      <3> QED
        BY <1>12, <1>15, <2>1, <2>2, <3>1
    <2> QED
      BY <2>3, <2>4
  <1>16. Lists(h, S)
    BY <1>14, <1>15 DEF Lists
  <1> QED
    BY <1>5, <1>16

\* InOrder lists the members of a bounded set of positive numbers, and all of
\* them: an increasing function is one-to-one, and there are as many.
LEMMA InOrderLists ==
    ASSUME NEW n \in Nat, NEW S \in SUBSET (1 .. n)
    PROVE  /\ Cardinality(S) \in Nat
           /\ Lists(InOrder(S), S)
           /\ \A s \in S : \E k \in 1 .. Cardinality(S) : InOrder(S)[k] = s
  <1> DEFINE c == Cardinality(S)
             f == InOrder(S)
  <1>1. IsFiniteSet(S) /\ c \in Nat
    <2>1. IsFiniteSet(1 .. n)
      BY FS_Interval
    <2> QED
      BY <2>1, FS_Subset, FS_CardinalityType
  <1>2. Lists(f, S)
    <2>1. PICK g : Lists(g, S)
      BY BoundedSetsAreListed
    <2>2. /\ g \in [1 .. c -> S]
          /\ \A i, j \in DOMAIN g : i < j => g[i] < g[j]
      BY <2>1 DEF Lists
    <2>3. /\ f \in [1 .. c -> S]
          /\ \A i, j \in DOMAIN f : i < j => f[i] < f[j]
      BY <2>2 DEF InOrder
    <2> QED
      BY <2>3 DEF Lists
  <1>3. f \in [1 .. c -> S]
    BY <1>2 DEF Lists
  <1>4. \A i, j \in 1 .. c : f[i] = f[j] => i = j
    <2> SUFFICES ASSUME NEW i \in 1 .. c, NEW j \in 1 .. c, f[i] = f[j], i # j
                 PROVE  FALSE
      OBVIOUS
    <2>1. f[i] \in S /\ i \in Nat /\ j \in Nat
      BY <1>1, <1>3
    <2>2. i < j \/ j < i
      BY <2>1
    <2>3. f[i] < f[j] \/ f[j] < f[i]
      BY <1>2, <2>2 DEF Lists
    <2>4. S \subseteq Nat
      OBVIOUS
    <2>5. f[i] \in Nat
      BY <2>1, <2>4
    <2> QED
      BY <2>3, <2>5
  <1>5. f \in Injection(1 .. c, S)
    BY <1>3, <1>4 DEF Injection, IsInjective
  <1>6. Cardinality(1 .. c) = c
    BY <1>1, FS_Interval
  <1>7. f \in Surjection(1 .. c, S)
    BY <1>1, <1>5, <1>6, FS_Injection
  <1> QED
    BY <1>1, <1>2, <1>7 DEF Surjection

\* The selection reads the directories at the kept places, each once, in order.
LEMMA SelectedReadsKept ==
    ASSUME NEW dirs \in Seq(Scenario), NEW only
    PROVE  LET kept == Kept(dirs, only)
               sel == Selected(dirs, only)
           IN  /\ sel \in Seq(Discoverable)
               /\ DOMAIN sel = 1 .. Cardinality(kept)
               /\ Len(sel) = Cardinality(kept)
               /\ Cardinality(kept) \in Nat
               /\ Lists(InOrder(kept), kept)
               /\ \A k \in DOMAIN sel : sel[k] = dirs[InOrder(kept)[k]]
               /\ \A i \in kept : \E k \in DOMAIN sel : InOrder(kept)[k] = i
  <1> DEFINE kept == Kept(dirs, only)
             sel == Selected(dirs, only)
             c == Cardinality(kept)
  <1>1. Len(dirs) \in Nat /\ DOMAIN dirs = 1 .. Len(dirs)
    BY LenProperties
  <1>2. kept \in SUBSET (1 .. Len(dirs))
    BY <1>1 DEF Kept
  <1>3. /\ c \in Nat
        /\ Lists(InOrder(kept), kept)
        /\ \A i \in kept : \E k \in 1 .. c : InOrder(kept)[k] = i
    BY <1>1, <1>2, InOrderLists
  <1>4. sel = [k \in 1 .. c |-> dirs[InOrder(kept)[k]]]
    BY DEF Selected
  <1> HIDE DEF kept, sel
  <1>5. \A k \in 1 .. c : dirs[InOrder(kept)[k]] \in Discoverable
    <2>1. \A i \in kept : i \in 1 .. Len(dirs) /\ dirs[i].contract # "absent"
      BY <1>1 DEF kept, Kept
    <2>2. \A k \in 1 .. c : InOrder(kept)[k] \in kept
      BY <1>3 DEF Lists
    <2>3. \A i \in 1 .. Len(dirs) : dirs[i] \in Scenario
      BY ElementOfSeq
    <2> QED
      BY <2>1, <2>2, <2>3 DEF Discoverable
  <1>6. sel \in Seq(Discoverable)
    BY <1>3, <1>4, <1>5
  <1>7. DOMAIN sel = 1 .. c /\ Len(sel) = c
    BY <1>3, <1>4
  <1> QED
    BY <1>3, <1>4, <1>6, <1>7 DEF kept, sel

\* What discover_scenarios and the --scenarios filter leave: every directory
\* that has a contract and was asked for is worked on, no other is, and the
\* directories keep their order.
THEOREM SelectionIsWhatWasAsked ==
    ASSUME NEW dirs \in Seq(Scenario), NEW only
    PROVE  \E place \in [DOMAIN Selected(dirs, only) -> DOMAIN dirs] :
              /\ \A k \in DOMAIN place : Selected(dirs, only)[k] = dirs[place[k]]
              /\ \A k, l \in DOMAIN place : k < l => place[k] < place[l]
              /\ \A i \in DOMAIN dirs :
                    (\E k \in DOMAIN place : place[k] = i)
                    <=> /\ dirs[i].contract # "absent"
                        /\ only # {} => dirs[i].name \in only
  <1> DEFINE kept == Kept(dirs, only)
             sel == Selected(dirs, only)
             place == InOrder(kept)
  <1>1. \A i \in DOMAIN dirs :
           i \in kept <=> /\ dirs[i].contract # "absent"
                          /\ only # {} => dirs[i].name \in only
    BY DEF Kept
  <1>2. kept \subseteq DOMAIN dirs
    BY DEF Kept
  <1>3. /\ DOMAIN sel = 1 .. Cardinality(kept)
        /\ Lists(place, kept)
        /\ \A k \in DOMAIN sel : sel[k] = dirs[place[k]]
        /\ \A i \in kept : \E k \in DOMAIN sel : place[k] = i
    BY SelectedReadsKept
  <1> HIDE DEF kept, sel, place
  <1>4. /\ place \in [DOMAIN sel -> kept]
        /\ \A k, l \in DOMAIN sel : k < l => place[k] < place[l]
    BY <1>3 DEF Lists
  <1>5. place \in [DOMAIN sel -> DOMAIN dirs]
    BY <1>2, <1>4
  <1>6. \A i \in DOMAIN dirs : (\E k \in DOMAIN place : place[k] = i) <=> i \in kept
    BY <1>3, <1>4
  <1> QED
    BY <1>1, <1>3, <1>4, <1>5, <1>6 DEF sel

-----------------------------------------------------------------------------
(* The inductive invariant.                                                *)

Graded == Len(results)

\* What is graded is a prefix of the suite.
GradedPrefix ==
    /\ Graded =< Len(Suite)
    /\ \A i \in 1 .. Graded : results[i].name = Suite[i].name

\* From when the suite is worked on, the rest of it is still to do.
RestToDo ==
    Working \/ pc = "next" \/ staged # {} =>
        /\ Len(todo) = Len(Suite) - Graded
        /\ \A i \in 1 .. Len(todo) : todo[i] = Suite[Graded + i]

\* The trees of the first n scenarios of the suite.
TreesOf(n) == {Suite[i].name : i \in 1 .. n}

\* One tree for each graded scenario, and one for the current.
Trees ==
    \E n \in {Graded, Graded + 1} :
        /\ n =< Len(Suite)
        /\ staged = TreesOf(n)
        /\ pc # "exited" => (n = Graded + 1 <=> Working)

\* The current scenario: there is one, and past _load its files were read.
Current ==
    /\ Working => todo # << >>
    /\ pc \in {"loaded", "ran"} => Loads(Head(todo))

\* The agent was run on a prefix of the suite, at most one longer than what is
\* graded, and all of it loads.
RanPrefix ==
    IF NeedsAgent
    THEN /\ Len(ran) =< Len(Suite)
         /\ \A i \in 1 .. Len(ran) : ran[i] = Suite[i].name /\ Loads(Suite[i])
         /\ Len(ran) = Graded \/ Len(ran) = Graded + 1
         /\ pc # "exited" => (Len(ran) = Graded + 1 <=> pc = "ran")
         /\ pc = "exited" /\ Len(ran) # Graded => exitCode = 1
    ELSE ran = << >>

\* Before run_all nothing has happened.
Untouched ==
    pc = "start" => staged = {} /\ ran = << >> /\ results = << >> /\ todo = << >>

\* The table and the exit code.
Settled ==
    /\ score.printed => /\ pc = "exited"
                        /\ Graded = Len(Suite)
                        /\ exitCode = IF invocation.strict /\ AnyRed THEN 1 ELSE 0
    /\ ~score.printed => exitCode # 0
    /\ exitCode = 2 => staged = {} /\ ran = << >>

IInv ==
    /\ TypeOK
    /\ GradedPrefix
    /\ RestToDo
    /\ Trees
    /\ Current
    /\ RanPrefix
    /\ Untouched
    /\ Settled

-----------------------------------------------------------------------------
(* Lemmas on the state.                                                    *)

LEMMA SuiteType ==
    ASSUME TypeOK
    PROVE  /\ Suite \in Seq(Discoverable)
           /\ Len(Suite) \in Nat
           /\ DOMAIN Suite = 1 .. Len(Suite)
           /\ \A i \in 1 .. Len(Suite) : Suite[i] \in Scenario /\ Suite[i].name \in STRING
  <1>1. site.dirs \in Seq(Scenario)
    BY BenchAssumption DEF TypeOK, Site
  <1>2. Suite \in Seq(Discoverable)
    BY <1>1, SelectedReadsKept DEF Suite
  <1> HIDE DEF Suite
  <1>3. Len(Suite) \in Nat /\ DOMAIN Suite = 1 .. Len(Suite)
    BY <1>2, LenProperties
  <1>4. \A i \in 1 .. Len(Suite) : Suite[i] \in Scenario
    BY <1>2, ElementOfSeq DEF Discoverable
  <1> QED
    BY <1>2, <1>3, <1>4 DEF Scenario

\* The same for the sequences of the state.
LEMMA StateTypes ==
    ASSUME TypeOK
    PROVE  /\ Len(todo) \in Nat /\ Len(ran) \in Nat /\ Graded \in Nat
           /\ DOMAIN todo = 1 .. Len(todo)
           /\ DOMAIN ran = 1 .. Len(ran)
           /\ DOMAIN results = 1 .. Graded
           /\ \A i \in 1 .. Len(todo) : todo[i].name \in STRING
           /\ \A i \in 1 .. Graded : results[i].name \in STRING /\ results[i].green \in BOOLEAN
  <1>1. /\ todo \in Seq(Discoverable)
        /\ ran \in Seq(STRING)
        /\ results \in Seq(BenchResult)
    BY DEF TypeOK, BenchResult
  <1>2. \A i \in 1 .. Len(todo) : todo[i] \in Scenario
    BY <1>1, ElementOfSeq DEF Discoverable
  <1>3. \A i \in 1 .. Graded : results[i] \in BenchResult
    BY <1>1, ElementOfSeq DEF Graded
  <1> QED
    BY <1>1, <1>2, <1>3, LenProperties DEF Scenario, BenchResult, Graded

\* The current scenario is the first of the suite without a grade.
LEMMA CurrentIsNext ==
    ASSUME IInv, Working \/ pc = "next", todo # << >>
    PROVE  /\ Graded + 1 \in 1 .. Len(Suite)
           /\ Len(todo) > 0
           /\ Head(todo) = todo[1]
           /\ Head(todo) = Suite[Graded + 1]
           /\ Head(todo).name \in STRING
  <1>1. TypeOK /\ RestToDo
    BY DEF IInv
  <1>2. todo \in Seq(Discoverable)
    BY <1>1 DEF TypeOK
  <1>3. Len(todo) \in Nat \ {0}
    BY <1>2, EmptySeq
  <1>4. Head(todo) = todo[1]
    BY <1>2
  <1>5. /\ Len(todo) = Len(Suite) - Graded
        /\ todo[1] = Suite[Graded + 1]
    BY <1>1, <1>3 DEF RestToDo
  <1>6. Graded \in Nat /\ Len(Suite) \in Nat
    BY <1>1, StateTypes, SuiteType
  <1>7. todo[1].name \in STRING
    BY <1>1, <1>3, StateTypes
  <1> QED
    BY <1>3, <1>4, <1>5, <1>6, <1>7

\* The trees of a scenario more.
LEMMA OneTreeMore ==
    ASSUME NEW n \in Nat
    PROVE  TreesOf(n + 1) = TreesOf(n) \union {Suite[n + 1].name}
  <1>1. 1 .. (n + 1) = (1 .. n) \union {n + 1}
    OBVIOUS
  <1> QED
    BY <1>1 DEF TreesOf

\* One more agent run, on the current scenario.
LEMMA RanOneMore ==
    ASSUME IInv, pc = "loaded", NeedsAgent
    PROVE  LET more == Append(ran, Head(todo).name)
           IN  /\ more \in Seq(STRING)
               /\ Len(more) = Graded + 1
               /\ Len(more) =< Len(Suite)
               /\ \A i \in 1 .. Len(more) : more[i] = Suite[i].name /\ Loads(Suite[i])
  <1> DEFINE more == Append(ran, Head(todo).name)
  <1>1. TypeOK /\ RanPrefix /\ Current
    BY DEF IInv
  <1>2. todo # << >> /\ Loads(Head(todo))
    BY <1>1 DEF Current, Working
  <1>3. /\ Graded + 1 \in 1 .. Len(Suite)
        /\ Head(todo) = Suite[Graded + 1]
        /\ Head(todo).name \in STRING
    BY <1>2, CurrentIsNext DEF Working
  <1>4. ran \in Seq(STRING)
    BY <1>1 DEF TypeOK
  <1>5. /\ Len(ran) = Graded
        /\ \A i \in 1 .. Len(ran) : ran[i] = Suite[i].name /\ Loads(Suite[i])
    BY <1>1 DEF RanPrefix
  <1>6. /\ more \in Seq(STRING)
        /\ Len(more) = Len(ran) + 1
        /\ \A i \in 1 .. Len(ran) : more[i] = ran[i]
        /\ more[Len(ran) + 1] = Head(todo).name
    BY <1>3, <1>4, AppendProperties
  <1>7. Graded \in Nat /\ Len(Suite) \in Nat
    BY <1>1, StateTypes, SuiteType
  <1> HIDE DEF more
  <1>8. ASSUME NEW i \in 1 .. Len(more)
        PROVE  more[i] = Suite[i].name /\ Loads(Suite[i])
    <2>1. CASE i = Graded + 1
      BY <1>2, <1>3, <1>5, <1>6, <2>1
    <2>2. CASE i # Graded + 1
      <3>1. i \in 1 .. Len(ran)
        BY <1>5, <1>6, <1>7, <2>2
      <3> QED
        BY <1>5, <1>6, <3>1
    <2> QED
      BY <2>1, <2>2
  <1> QED
    BY <1>3, <1>5, <1>6, <1>7, <1>8 DEF more

-----------------------------------------------------------------------------
(* The inductive invariant holds initially and is kept by every step.      *)

LEMMA InitIInv == Init => IInv
  <1> SUFFICES ASSUME Init PROVE IInv
    OBVIOUS
  <1>1. TypeOK
    BY DEF Init, TypeOK, NoScore, NotExited
  <1>2. Len(Suite) \in Nat
    BY <1>1, SuiteType
  <1>3. Graded = 0 /\ Len(ran) = 0
    BY DEF Init, Graded
  <1>4. GradedPrefix
    BY <1>2, <1>3 DEF GradedPrefix
  <1>5. RestToDo /\ Current /\ Untouched
    BY DEF Init, RestToDo, Current, Untouched, Working
  <1>6. RanPrefix
    BY <1>2, <1>3 DEF RanPrefix, Init
  <1>7. Settled
    BY DEF Init, Settled, NoScore, NotExited
  <1>8. Trees
    <2>1. TreesOf(Graded) = {}
      BY <1>3 DEF TreesOf
    <2> QED
      BY <1>2, <1>3, <2>1 DEF Init, Trees, Working
  <1> QED
    BY <1>1, <1>4, <1>5, <1>6, <1>7, <1>8 DEF IInv

\* The inputs stay, so the suite does.
LEMMA SuiteStays ==
    ASSUME UNCHANGED inputs
    PROVE  Suite' = Suite /\ NeedsAgent' = NeedsAgent
  BY DEF inputs, Suite, NeedsAgent

\* An exception, wherever it comes from, leaves what was done as it was.
LEMMA CrashKeepsIInv ==
    ASSUME IInv, Crash, pc # "exited",
           \/ staged' = staged
           \/ /\ pc = "next" /\ todo # << >>
              /\ staged' = staged \union {Head(todo).name},
           \/ ran' = ran
           \/ pc = "loaded" /\ NeedsAgent /\ ran' = Append(ran, Head(todo).name)
    PROVE  IInv'
  <1>1. /\ pc' = "exited" /\ exitCode' = 1
        /\ UNCHANGED <<inputs, site, invocation, todo, results, score>>
    BY DEF Crash, Exit, inputs
  <1>2. Suite' = Suite /\ NeedsAgent' = NeedsAgent
    BY <1>1, SuiteStays
  <1>3. TypeOK /\ GradedPrefix /\ RanPrefix /\ Settled
    BY DEF IInv
  <1>4. ran' \in Seq(STRING)
    BY <1>3, RanOneMore DEF TypeOK
  <1>5. TypeOK'
    <2>1. staged' \subseteq STRING
      BY <1>3, CurrentIsNext DEF TypeOK
    <2> QED
      BY <1>1, <1>3, <1>4, <2>1 DEF TypeOK
  <1>6. GradedPrefix'
    BY <1>1, <1>2, <1>3 DEF GradedPrefix, Graded
  <1>7. (RestToDo /\ Trees /\ Current /\ Untouched)'
    <2>1. RestToDo /\ Trees
      BY DEF IInv
    <2>2. RestToDo'
      BY <1>1, <1>2, <2>1 DEF RestToDo, Working, Graded
    <2>3. Trees'
      <3>1. CASE staged' = staged
        BY <1>1, <1>2, <2>1, <3>1 DEF Trees, TreesOf, Graded
      <3>2. CASE /\ pc = "next" /\ todo # << >>
                 /\ staged' = staged \union {Head(todo).name}
        <4>1. staged = TreesOf(Graded) /\ Graded \in Nat
          BY <1>3, <2>1, <3>2, StateTypes DEF Trees, Working
        <4>2. Graded + 1 \in 1 .. Len(Suite) /\ Head(todo) = Suite[Graded + 1]
          BY <3>2, CurrentIsNext
        <4>3. staged' = TreesOf(Graded + 1)
          BY <3>2, <4>1, <4>2, OneTreeMore
        <4>4. Len(Suite) \in Nat
          BY <1>3, SuiteType
        <4> QED
          BY <1>1, <1>2, <4>1, <4>2, <4>3, <4>4 DEF Trees, TreesOf, Graded
      <3> QED
        BY <3>1, <3>2
    <2>4. (Current /\ Untouched)'
      BY <1>1 DEF Current, Untouched, Working
    <2> QED
      BY <2>2, <2>3, <2>4
  <1>8. RanPrefix'
    <2>1. CASE ran' = ran
      BY <1>1, <1>2, <1>3, <2>1 DEF RanPrefix, Graded
    <2>2. CASE /\ pc = "loaded" /\ NeedsAgent
               /\ ran' = Append(ran, Head(todo).name)
      <3>1. /\ Len(ran') = Graded + 1
            /\ Len(ran') =< Len(Suite)
            /\ \A i \in 1 .. Len(ran') : ran'[i] = Suite[i].name /\ Loads(Suite[i])
        BY <2>2, RanOneMore
      <3> QED
        BY <1>1, <1>2, <2>2, <3>1 DEF RanPrefix, Graded
    <2> QED
      BY <2>1, <2>2
  <1>9. Settled'
    BY <1>1, <1>3 DEF Settled
  <1> QED
    BY <1>5, <1>6, <1>7, <1>8, <1>9 DEF IInv

\* A refusal before run_all.
LEMMA RefusalKeepsIInv ==
    ASSUME IInv, pc = "start", Exit(2),
           UNCHANGED <<inputs, todo, staged, ran, results, score>>
    PROVE  IInv'
  <1>1. /\ pc' = "exited" /\ exitCode' = 2
        /\ UNCHANGED <<inputs, site, invocation, todo, staged, ran, results, score>>
    BY DEF Exit, inputs
  <1>2. Suite' = Suite /\ NeedsAgent' = NeedsAgent
    BY <1>1, SuiteStays
  <1>3. TypeOK /\ GradedPrefix /\ RanPrefix /\ Settled /\ Untouched
    BY DEF IInv
  <1>4. TypeOK'
    BY <1>1, <1>3 DEF TypeOK
  <1>5. GradedPrefix'
    BY <1>1, <1>2, <1>3 DEF GradedPrefix, Graded
  <1>6. (RestToDo /\ Trees /\ Current /\ Untouched)'
    <2>1. Trees /\ staged = {}
      BY <1>3 DEF IInv, Untouched
    <2> QED
      BY <1>1, <1>2, <2>1 DEF RestToDo, Trees, TreesOf, Current, Untouched, Working, Graded
  <1>7. RanPrefix'
    BY <1>1, <1>2, <1>3, StateTypes DEF RanPrefix, Graded, Untouched
  <1>8. Settled'
    BY <1>1, <1>3 DEF Settled, Untouched
  <1> QED
    BY <1>4, <1>5, <1>6, <1>7, <1>8 DEF IInv

\* The steps of run_all and run_scenario that do not leave them.
LEMMA DiscoverKeepsIInv == IInv /\ Discover => IInv'
  <1> SUFFICES ASSUME IInv, Discover PROVE IInv'
    OBVIOUS
  <1>1. /\ pc = "start" /\ pc' = "next"
        /\ todo' = Suite
        /\ UNCHANGED <<inputs, site, invocation, staged, ran, results, score, exitCode>>
    BY DEF Discover, Accepted, FlagsAccepted, inputs, Suite
  <1>2. Suite' = Suite /\ NeedsAgent' = NeedsAgent
    BY <1>1, SuiteStays
  <1>3. TypeOK /\ GradedPrefix /\ RanPrefix /\ Settled /\ Untouched
    BY DEF IInv
  <1>4. Suite \in Seq(Discoverable) /\ Len(Suite) \in Nat /\ Graded = 0
    BY <1>1, <1>3, SuiteType DEF Untouched, Graded
  <1>5. TypeOK'
    BY <1>1, <1>3, <1>4 DEF TypeOK
  <1>6. GradedPrefix'
    BY <1>1, <1>2, <1>3 DEF GradedPrefix, Graded
  <1>7. RestToDo'
    BY <1>1, <1>2, <1>4 DEF RestToDo, Graded
  <1>8. Trees'
    BY <1>1, <1>2 DEF IInv, Trees, TreesOf, Working, Graded
  <1>9. Current' /\ Untouched'
    BY <1>1 DEF Current, Untouched, Working
  <1>10. RanPrefix'
    BY <1>1, <1>2, <1>3 DEF RanPrefix, Graded
  <1>11. Settled'
    BY <1>1, <1>3 DEF Settled
  <1> QED
    BY <1>5, <1>6, <1>7, <1>8, <1>9, <1>10, <1>11 DEF IInv

LEMMA StageKeepsIInv == IInv /\ Stage => IInv'
  <1> SUFFICES ASSUME IInv, Stage PROVE IInv'
    OBVIOUS
  <1>1. /\ pc = "next" /\ pc' = "staged" /\ todo # << >>
        /\ staged' = staged \union {Head(todo).name}
        /\ UNCHANGED <<inputs, site, invocation, todo, ran, results, score, exitCode>>
    BY DEF Stage, inputs
  <1>2. Suite' = Suite /\ NeedsAgent' = NeedsAgent
    BY <1>1, SuiteStays
  <1>3. /\ TypeOK /\ GradedPrefix /\ RestToDo /\ Trees
        /\ RanPrefix /\ Settled
    BY DEF IInv
  <1>4. Head(todo).name \in STRING
    BY <1>1, CurrentIsNext
  <1>5. TypeOK'
    BY <1>1, <1>3, <1>4 DEF TypeOK
  <1>6. GradedPrefix' /\ RestToDo'
    BY <1>1, <1>2, <1>3 DEF GradedPrefix, RestToDo, Graded
  <1>7. Trees'
    <2>1. staged = TreesOf(Graded) /\ Graded \in Nat
      BY <1>1, <1>3, StateTypes DEF Trees, Working
    <2>2. Graded + 1 \in 1 .. Len(Suite) /\ Head(todo) = Suite[Graded + 1]
      BY <1>1, CurrentIsNext
    <2>3. staged' = TreesOf(Graded + 1)
      BY <1>1, <2>1, <2>2, OneTreeMore
    <2>4. Len(Suite) \in Nat
      BY <1>3, SuiteType
    <2> QED
      BY <1>1, <1>2, <2>1, <2>2, <2>3, <2>4 DEF Trees, TreesOf, Working, Graded
  <1>8. Current' /\ Untouched'
    BY <1>1 DEF Current, Untouched, Working
  <1>9. RanPrefix'
    BY <1>1, <1>2, <1>3 DEF RanPrefix, Graded
  <1>10. Settled'
    BY <1>1, <1>3 DEF Settled, TypeOK, NotExited
  <1> QED
    BY <1>5, <1>6, <1>7, <1>8, <1>9, <1>10 DEF IInv

LEMMA LoadKeepsIInv == IInv /\ Load => IInv'
  <1> SUFFICES ASSUME IInv, Load PROVE IInv'
    OBVIOUS
  <1>1. /\ pc = "staged" /\ pc' = "loaded" /\ Loads(Head(todo))
        /\ UNCHANGED <<inputs, site, invocation, todo, staged, ran, results, score, exitCode>>
    BY DEF Load, inputs
  <1>2. Suite' = Suite /\ NeedsAgent' = NeedsAgent
    BY <1>1, SuiteStays
  <1>3. /\ TypeOK /\ GradedPrefix /\ RestToDo /\ Trees
        /\ Current /\ RanPrefix /\ Settled
    BY DEF IInv
  <1>4. TypeOK'
    BY <1>1, <1>3 DEF TypeOK
  <1>5. GradedPrefix' /\ RestToDo' /\ Trees'
    BY <1>1, <1>2, <1>3 DEF GradedPrefix, RestToDo, Trees, TreesOf, Working, Graded
  <1>6. Current' /\ Untouched'
    BY <1>1, <1>3 DEF Current, Untouched, Working, Loads
  <1>7. RanPrefix'
    BY <1>1, <1>2, <1>3 DEF RanPrefix, Graded
  <1>8. Settled'
    BY <1>1, <1>3 DEF Settled
  <1> QED
    BY <1>4, <1>5, <1>6, <1>7, <1>8 DEF IInv

LEMMA RunAgentKeepsIInv == IInv /\ RunAgent => IInv'
  <1> SUFFICES ASSUME IInv, RunAgent PROVE IInv'
    OBVIOUS
  <1>1. /\ pc = "loaded" /\ pc' = "ran"
        /\ ran' = IF NeedsAgent THEN Append(ran, Head(todo).name) ELSE ran
        /\ UNCHANGED <<inputs, site, invocation, todo, staged, results, score, exitCode>>
    BY DEF RunAgent, inputs
  <1>2. Suite' = Suite /\ NeedsAgent' = NeedsAgent
    BY <1>1, SuiteStays
  <1>3. /\ TypeOK /\ GradedPrefix /\ RestToDo /\ Trees
        /\ Current /\ RanPrefix /\ Settled
    BY DEF IInv
  <1>4. TypeOK'
    <2>1. ran' \in Seq(STRING)
      BY <1>1, <1>3, RanOneMore DEF TypeOK
    <2> QED
      BY <1>1, <1>3, <2>1 DEF TypeOK
  <1>5. GradedPrefix' /\ RestToDo' /\ Trees'
    BY <1>1, <1>2, <1>3 DEF GradedPrefix, RestToDo, Trees, TreesOf, Working, Graded
  <1>6. Current' /\ Untouched'
    BY <1>1, <1>3 DEF Current, Untouched, Working, Loads
  <1>7. RanPrefix'
    <2>1. CASE NeedsAgent
      <3>1. /\ Len(ran') = Graded + 1
            /\ Len(ran') =< Len(Suite)
            /\ \A i \in 1 .. Len(ran') : ran'[i] = Suite[i].name /\ Loads(Suite[i])
        BY <1>1, <2>1, RanOneMore
      <3> QED
        BY <1>1, <1>2, <2>1, <3>1 DEF RanPrefix, Graded
    <2>2. CASE ~NeedsAgent
      BY <1>1, <1>2, <1>3, <2>2 DEF RanPrefix
    <2> QED
      BY <2>1, <2>2
  <1>8. Settled'
    BY <1>1, <1>3 DEF Settled, TypeOK, NotExited
  <1> QED
    BY <1>4, <1>5, <1>6, <1>7, <1>8 DEF IInv

LEMMA GradeKeepsIInv ==
    ASSUME IInv, NEW green \in BOOLEAN, Grade(green)
    PROVE  IInv'
  <1> DEFINE r == [name |-> Head(todo).name, green |-> green]
  <1>1. /\ pc = "ran" /\ pc' = "next"
        /\ results' = Append(results, r)
        /\ todo' = Tail(todo)
        /\ UNCHANGED <<inputs, site, invocation, staged, ran, score, exitCode>>
    BY DEF Grade, inputs
  <1>2. Suite' = Suite /\ NeedsAgent' = NeedsAgent
    BY <1>1, SuiteStays
  <1>3. /\ TypeOK /\ GradedPrefix /\ RestToDo /\ Trees
        /\ Current /\ RanPrefix /\ Settled
    BY DEF IInv
  <1>4. /\ todo # << >>
        /\ Graded + 1 \in 1 .. Len(Suite)
        /\ Head(todo) = Suite[Graded + 1]
        /\ Head(todo).name \in STRING
    BY <1>1, <1>3, CurrentIsNext DEF Current, Working
  <1>5. /\ results \in Seq(BenchResult) /\ todo \in Seq(Discoverable)
        /\ r \in BenchResult
    BY <1>3, <1>4 DEF TypeOK, BenchResult
  <1>6. /\ results' \in Seq(BenchResult)
        /\ Len(results') = Graded + 1
        /\ DOMAIN results' = 1 .. (Graded + 1)
        /\ \A i \in 1 .. Graded : results'[i] = results[i]
        /\ results'[Graded + 1] = r
    <2> HIDE DEF r
    <2>1. /\ results' \in Seq(BenchResult)
          /\ Len(results') = Graded + 1
          /\ \A i \in 1 .. Graded : results'[i] = results[i]
          /\ results'[Graded + 1] = r
      BY <1>1, <1>5, AppendProperties DEF Graded
    <2> QED
      BY <2>1, LenProperties
  <1>7. /\ todo' \in Seq(Discoverable)
        /\ Len(todo') = Len(todo) - 1
        /\ \A i \in 1 .. Len(todo') : todo'[i] = todo[i + 1]
    BY <1>1, <1>4, <1>5, HeadTailProperties
  <1>8. /\ Graded \in Nat /\ Len(Suite) \in Nat /\ Len(todo) \in Nat
        /\ DOMAIN results = 1 .. Graded
    BY <1>3, StateTypes, SuiteType
  <1>9. TypeOK'
    BY <1>1, <1>3, <1>6, <1>7 DEF TypeOK, BenchResult
  <1>10. GradedPrefix'
    <2>1. ASSUME NEW i \in 1 .. (Graded + 1)
          PROVE  results'[i].name = Suite[i].name
      <3>1. CASE i = Graded + 1
        BY <1>4, <1>6, <3>1
      <3>2. CASE i # Graded + 1
        <4>1. i \in 1 .. Graded
          BY <1>8, <3>2
        <4> QED
          BY <1>3, <1>6, <4>1 DEF GradedPrefix
      <3> QED
        BY <3>1, <3>2
    <2> QED
      BY <1>2, <1>4, <1>6, <2>1 DEF GradedPrefix, Graded
  <1>11. RestToDo'
    <2>1. /\ Len(todo) = Len(Suite) - Graded
          /\ \A i \in 1 .. Len(todo) : todo[i] = Suite[Graded + i]
      BY <1>1, <1>3 DEF RestToDo, Working
    <2>2. ASSUME NEW i \in 1 .. Len(todo')
          PROVE  todo'[i] = Suite[Graded + 1 + i]
      <3>1. i + 1 \in 1 .. Len(todo) /\ Graded + (i + 1) = Graded + 1 + i
        BY <1>7, <1>8
      <3> QED
        BY <1>7, <2>1, <3>1
    <2>3. Len(todo') = Len(Suite) - (Graded + 1)
      BY <1>7, <1>8, <2>1
    <2>4. Graded' = Graded + 1
      BY <1>6 DEF Graded
    <2> QED
      BY <1>2, <2>2, <2>3, <2>4 DEF RestToDo
  <1>12. Trees'
    <2>1. staged = TreesOf(Graded + 1)
      BY <1>1, <1>3 DEF Trees, Working
    <2>2. Graded' = Graded + 1
      BY <1>6 DEF Graded
    <2>3. Graded' # Graded' + 1 /\ Graded' =< Len(Suite)
      BY <1>4, <1>8, <2>2
    <2> QED
      BY <1>1, <1>2, <2>1, <2>2, <2>3 DEF Trees, TreesOf, Working
  <1>13. Current' /\ Untouched'
    BY <1>1 DEF Current, Untouched, Working
  <1>14. RanPrefix'
    BY <1>1, <1>2, <1>3, <1>6, <1>8 DEF RanPrefix, Graded
  <1>15. Settled'
    BY <1>1, <1>3 DEF Settled, TypeOK, NotExited
  <1> QED
    BY <1>9, <1>10, <1>11, <1>12, <1>13, <1>14, <1>15 DEF IInv

LEMMA ReportKeepsIInv == IInv /\ Report => IInv'
  <1> SUFFICES ASSUME IInv, Report PROVE IInv'
    OBVIOUS
  <1>1. /\ pc = "next" /\ pc' = "exited" /\ todo = << >>
        /\ score' = TotalRow
        /\ exitCode' = IF invocation.strict /\ AnyRed THEN 1 ELSE 0
        /\ UNCHANGED <<inputs, site, invocation, todo, staged, ran, results>>
    BY DEF Report, Exit, inputs
  <1>2. Suite' = Suite /\ NeedsAgent' = NeedsAgent /\ AnyRed' = AnyRed
    BY <1>1, SuiteStays DEF AnyRed, Greens
  <1>3. TypeOK /\ GradedPrefix /\ RestToDo /\ RanPrefix
    BY DEF IInv
  <1>4. Graded \in Nat /\ Len(Suite) \in Nat /\ DOMAIN results = 1 .. Graded
    BY <1>3, StateTypes, SuiteType
  <1>5. TotalRow \in [passed : Nat, of : Nat, printed : BOOLEAN]
    <2>1. Greens \in SUBSET (1 .. Graded)
      BY <1>4 DEF Greens
    <2>2. Cardinality(Greens) \in Nat
      BY <1>4, <2>1, InOrderLists
    <2> QED
      BY <1>4, <2>2 DEF TotalRow, Graded
  <1>6. TypeOK'
    BY <1>1, <1>3, <1>5 DEF TypeOK
  <1>7. GradedPrefix'
    BY <1>1, <1>2, <1>3 DEF GradedPrefix, Graded
  <1>8. (RestToDo /\ Trees /\ Current /\ Untouched)'
    <2>1. Trees
      BY DEF IInv
    <2> QED
      BY <1>1, <1>2, <1>3, <2>1
         DEF RestToDo, Trees, TreesOf, Current, Untouched, Working, Graded
  <1>9. RanPrefix'
    BY <1>1, <1>2, <1>3, <1>4 DEF RanPrefix, Graded
  <1>10. Graded = Len(Suite)
    <2>1. Len(todo) = 0 /\ Len(todo) = Len(Suite) - Graded
      BY <1>1, <1>3 DEF RestToDo
    <2> QED
      BY <1>4, <2>1
  <1>11. Settled'
    BY <1>1, <1>2, <1>10 DEF Settled, TotalRow, Graded
  <1> QED
    BY <1>6, <1>7, <1>8, <1>9, <1>11 DEF IInv

LEMMA NextIInv == IInv /\ [Next]_benchVars => IInv'
  <1> SUFFICES ASSUME IInv, [Next]_benchVars PROVE IInv'
    OBVIOUS
  <1>1. CASE RefuseFlags
    BY <1>1, RefusalKeepsIInv DEF RefuseFlags
  <1>2. CASE AgentUnresolved
    BY <1>2, CrashKeepsIInv DEF AgentUnresolved, FlagsAccepted
  <1>3. CASE RefuseLive
    BY <1>3, RefusalKeepsIInv DEF RefuseLive, FlagsAccepted
  <1>4. CASE DiscoverRaises
    BY <1>4, CrashKeepsIInv DEF DiscoverRaises, Accepted, FlagsAccepted
  <1>5. CASE Discover
    BY <1>5, DiscoverKeepsIInv
  <1>6. CASE Stage
    BY <1>6, StageKeepsIInv
  <1>7. CASE StageRaises
    <2>1. pc = "next" /\ todo # << >> /\ Crash /\ ran' = ran
      BY <1>7 DEF StageRaises
    <2>2. staged' = staged \/ staged' = staged \union {Head(todo).name}
      BY <1>7 DEF StageRaises
    <2> QED
      BY <2>1, <2>2, CrashKeepsIInv
  <1>8. CASE Load
    BY <1>8, LoadKeepsIInv
  <1>9. CASE LoadRaises
    BY <1>9, CrashKeepsIInv DEF LoadRaises
  <1>10. CASE RunAgent
    BY <1>10, RunAgentKeepsIInv
  <1>11. CASE AgentRaises
    BY <1>11, CrashKeepsIInv DEF AgentRaises
  <1>12. CASE \E green \in BOOLEAN : Grade(green)
    BY <1>12, GradeKeepsIInv
  <1>13. CASE GradeRaises
    BY <1>13, CrashKeepsIInv DEF GradeRaises
  <1>14. CASE Report
    BY <1>14, ReportKeepsIInv
  <1>15. CASE ClientRaises
    BY <1>15, CrashKeepsIInv DEF ClientRaises, Accepted, FlagsAccepted
  <1>16. CASE UNCHANGED benchVars
    <2>1. UNCHANGED <<inputs, site, invocation, pc, todo, staged, ran, results, score, exitCode>>
      BY <1>16 DEF benchVars, inputs
    <2>2. Suite' = Suite /\ NeedsAgent' = NeedsAgent
      BY <2>1, SuiteStays
    <2>3. TypeOK' /\ GradedPrefix' /\ RestToDo'
      BY <2>1, <2>2 DEF IInv, TypeOK, GradedPrefix, RestToDo, Working, Graded
    <2>4. Trees'
      BY <2>1, <2>2 DEF IInv, Trees, TreesOf, Working, Graded
    <2>5. Current' /\ RanPrefix' /\ Untouched'
      BY <2>1, <2>2 DEF IInv, Current, RanPrefix, Untouched, Working, Graded, Loads
    <2>6. Settled'
      BY <2>1, <2>2 DEF IInv, Settled, Graded, AnyRed, Greens
    <2> QED
      BY <2>3, <2>4, <2>5, <2>6 DEF IInv
  <1> QED
    BY <1>1, <1>2, <1>3, <1>4, <1>5, <1>6, <1>7, <1>8, <1>9, <1>10, <1>11, <1>12,
       <1>13, <1>14, <1>15, <1>16 DEF Next, Step, Exited

LEMMA Invariance == Spec => []IInv
  <1>1. Init => IInv
    BY InitIInv
  <1>2. IInv /\ [Next]_benchVars => IInv'
    BY NextIInv
  <1> QED
    BY <1>1, <1>2, PTL DEF Spec

-----------------------------------------------------------------------------
(* What follows from it.                                                   *)

LEMMA NamesTypes ==
    ASSUME TypeOK
    PROVE  /\ Names(results) \in Seq(STRING) /\ Len(Names(results)) = Graded
           /\ \A i \in 1 .. Graded : Names(results)[i] = results[i].name
           /\ Names(todo) \in Seq(STRING) /\ Len(Names(todo)) = Len(todo)
           /\ \A i \in 1 .. Len(todo) : Names(todo)[i] = todo[i].name
           /\ Names(Suite) \in Seq(STRING) /\ Len(Names(Suite)) = Len(Suite)
           /\ \A i \in 1 .. Len(Suite) : Names(Suite)[i] = Suite[i].name
  <1>1. /\ Names(results) \in Seq(STRING) /\ Len(Names(results)) = Graded
        /\ \A i \in 1 .. Graded : Names(results)[i] = results[i].name
    BY StateTypes DEF Names
  <1>2. /\ Names(todo) \in Seq(STRING) /\ Len(Names(todo)) = Len(todo)
        /\ \A i \in 1 .. Len(todo) : Names(todo)[i] = todo[i].name
    BY StateTypes DEF Names
  <1>3. /\ Names(Suite) \in Seq(STRING) /\ Len(Names(Suite)) = Len(Suite)
        /\ \A i \in 1 .. Len(Suite) : Names(Suite)[i] = Suite[i].name
    BY SuiteType DEF Names
  <1> QED
    BY <1>1, <1>2, <1>3

\* When as many are graded as were selected, it is those.
LEMMA AllGraded ==
    ASSUME TypeOK, GradedPrefix, Graded = Len(Suite)
    PROVE  Names(results) = Names(Suite)
  <1>1. \A i \in 1 .. Len(Names(results)) : Names(results)[i] = Names(Suite)[i]
    BY NamesTypes DEF GradedPrefix
  <1> QED
    BY <1>1, NamesTypes, SeqEqual

\* What is graded and what is still to do make up the suite.
LEMMA TodoCompletesGraded ==
    ASSUME TypeOK, GradedPrefix, RestToDo, Working \/ pc = "next" \/ staged # {}
    PROVE  Names(results) \o Names(todo) = Names(Suite)
  <1>1. /\ Len(todo) = Len(Suite) - Graded
        /\ \A i \in 1 .. Len(todo) : todo[i] = Suite[Graded + i]
    BY DEF RestToDo
  <1>2. Graded \in Nat /\ Len(Suite) \in Nat /\ Len(todo) \in Nat
    BY StateTypes, SuiteType
  <1> DEFINE both == Names(results) \o Names(todo)
  <1>3. /\ both \in Seq(STRING)
        /\ Len(both) = Graded + Len(todo)
        /\ \A i \in 1 .. Graded + Len(todo) :
              both[i] = IF i <= Graded THEN Names(results)[i] ELSE Names(todo)[i - Graded]
    <2>1. /\ Names(results) \in Seq(STRING) /\ Len(Names(results)) = Graded
          /\ Names(todo) \in Seq(STRING) /\ Len(Names(todo)) = Len(todo)
      BY NamesTypes
    <2>2. /\ both \in Seq(STRING)
          /\ Len(both) = Len(Names(results)) + Len(Names(todo))
          /\ \A i \in 1 .. Len(Names(results)) + Len(Names(todo)) :
                both[i] = IF i <= Len(Names(results)) THEN Names(results)[i]
                          ELSE Names(todo)[i - Len(Names(results))]
      BY <2>1, ConcatProperties
    <2> HIDE DEF both
    <2> QED
      BY <2>1, <2>2
  <1> HIDE DEF both
  <1>4. ASSUME NEW i \in 1 .. Len(Suite)
        PROVE  both[i] = Names(Suite)[i]
    <2>1. i \in 1 .. Graded + Len(todo)
      BY <1>1, <1>2
    <2>2. CASE i <= Graded
      <3>1. i \in 1 .. Graded
        BY <1>2, <2>2
      <3> QED
        BY <1>3, <2>1, <2>2, <3>1, NamesTypes DEF GradedPrefix
    <2>3. CASE ~(i <= Graded)
      <3>1. i - Graded \in 1 .. Len(todo) /\ Graded + (i - Graded) = i
        BY <1>2, <2>1, <2>3
      <3>2. todo[i - Graded] = Suite[i]
        BY <1>1, <3>1
      <3> QED
        BY <1>3, <2>1, <2>3, <3>1, <3>2, NamesTypes
    <2> QED
      BY <2>2, <2>3
  <1>5. both = Names(Suite)
    BY <1>1, <1>2, <1>3, <1>4, NamesTypes, SeqEqual
  <1> QED
    BY <1>5 DEF both

\* The values of the state: no step leaves them.
THEOREM TypeCorrect == Spec => []TypeOK
  BY Invariance, PTL DEF IInv

\* The suite is worked through in order and nothing is lost on the way: what
\* run_all has graded and has still to do make up the selection, and there is
\* a temporary tree for each graded scenario and for at most one more, the one
\* worked on or the one that raised.
THEOREM SuiteInOrder == Spec => []WorkedInOrder
  <1>1. IInv => WorkedInOrder
    <2> SUFFICES ASSUME IInv PROVE WorkedInOrder
      OBVIOUS
    <2>1. TypeOK /\ GradedPrefix /\ RestToDo /\ Trees
      BY DEF IInv
    <2>2. PICK n \in {Graded, Graded + 1} :
             /\ n =< Len(Suite)
             /\ staged = TreesOf(n)
             /\ pc # "exited" => (n = Graded + 1 <=> Working)
      BY <2>1 DEF Trees
    <2>3. n > 0 => staged # {}
      <3>1. ASSUME n > 0 PROVE 1 \in 1 .. n
        BY <2>1, <2>2, <3>1, StateTypes
      <3> QED
        BY <2>2, <3>1 DEF TreesOf
    <2>4. ASSUME Working \/ pc = "next" \/ staged # {}
          PROVE  Names(results) \o Names(todo) = Names(Suite)
      BY <2>1, <2>4, TodoCompletesGraded
    <2> QED
      BY <2>2, <2>3, <2>4 DEF WorkedInOrder, TreesOf, Graded
  <1> QED
    BY <1>1, Invariance, PTL

\* What the agent's calls were paid for: the agent was run once on each graded
\* scenario and on at most one that is not, which then ended the suite, and
\* only where contract and recording load.
THEOREM AgentRunsCount == Spec => []NoAgentRunInVain
  <1>1. IInv => NoAgentRunInVain
    <2> SUFFICES ASSUME IInv PROVE NoAgentRunInVain
      OBVIOUS
    <2>1. TypeOK /\ RanPrefix /\ Current
      BY DEF IInv
    <2>2. Graded \in Nat /\ Len(ran) \in Nat /\ Len(Suite) \in Nat
      BY <2>1, StateTypes, SuiteType
    <2>3. /\ DOMAIN ran = 1 .. Len(ran)
          /\ DOMAIN Suite = 1 .. Len(Suite)
          /\ ran \in Seq(STRING)
      BY <2>1, StateTypes, SuiteType DEF TypeOK
    <2>4. CASE ~NeedsAgent
      <3>1. ran = << >>
        BY <2>1, <2>4 DEF RanPrefix
      <3> QED
        BY <2>4, <3>1 DEF NoAgentRunInVain
    <2>5. CASE NeedsAgent
      <3>1. \A i \in 1 .. Len(ran) : ran[i] = Suite[i].name /\ Loads(Suite[i])
        BY <2>1, <2>5 DEF RanPrefix
      <3>2. /\ Len(ran) =< Len(Suite)
            /\ Len(ran) = Graded \/ Len(ran) = Graded + 1
        BY <2>1, <2>5 DEF RanPrefix
      <3>3. /\ pc # "exited" => (Len(ran) = Graded + 1 <=> pc = "ran")
            /\ pc = "exited" /\ Len(ran) # Graded => exitCode = 1
        BY <2>1, <2>5 DEF RanPrefix
      <3>4. \A i \in 1 .. Len(ran) : i \in 1 .. Len(Suite)
        BY <2>2, <3>2
      <3>5. \A i \in DOMAIN ran : \E s \in Range(Suite) : s.name = ran[i] /\ Loads(s)
        <4>1. TAKE i \in DOMAIN ran
        <4>2. i \in DOMAIN Suite
          BY <2>3, <3>4
        <4>3. Suite[i] \in Range(Suite)
          BY <4>2 DEF Range
        <4> QED
          BY <2>3, <3>1, <4>3
      <3>6. ran = SubSeq(Names(Suite), 1, Len(ran))
        <4> DEFINE sub == SubSeq(Names(Suite), 1, Len(ran))
        <4>1. \A i \in 1 .. Len(ran) : Names(Suite)[i] = ran[i] /\ ran[i] \in STRING
          BY <2>1, <2>2, <3>1, <3>4, NamesTypes, SuiteType
        <4>2. /\ sub \in Seq(STRING)
              /\ Len(sub) = Len(ran)
              /\ \A i \in 1 .. Len(ran) : sub[i] = Names(Suite)[i]
          <5>1. /\ sub \in Seq(STRING)
                /\ Len(sub) = IF 1 <= Len(ran) THEN Len(ran) - 1 + 1 ELSE 0
                /\ \A i \in 1 .. Len(ran) - 1 + 1 : sub[i] = Names(Suite)[1 + i - 1]
            BY <2>2, <4>1, SubSeqProperties
          <5> HIDE DEF sub
          <5> QED
            BY <2>2, <5>1
        <4> QED
          BY <2>3, <4>1, <4>2, SeqEqual
      <3>7. Len(ran) - Len(results) \in {0, 1}
        <4>1. Len(ran) - Graded \in {0, 1}
          BY <2>2, <3>2
        <4> QED
          BY <4>1 DEF Graded
      <3>8. Len(ran) # Len(results) => pc = "ran" \/ exitCode = 1
        BY <2>2, <3>2, <3>3 DEF Graded
      <3> QED
        BY <2>5, <3>5, <3>6, <3>7, <3>8 DEF NoAgentRunInVain
    <2> QED
      BY <2>4, <2>5
  <1> QED
    BY <1>1, Invariance, PTL

\* What the table and the exit code tell a CI job is true: a printed table is
\* the whole selection's, 0 means that under --strict all of it is green, 1 a
\* red scenario under --strict or a crash, 2 a refusal before any work.
THEOREM ExitCodeCorrect == Spec => []ExitCodeHonest
  <1>1. IInv => ExitCodeHonest
    <2> SUFFICES ASSUME IInv PROVE ExitCodeHonest
      OBVIOUS
    <2>1. TypeOK /\ GradedPrefix /\ Settled
      BY DEF IInv
    <2>2. AnyRed <=> ~ \A i \in DOMAIN results : results[i].green
      BY DEF AnyRed, Greens
    <2>3. score.printed => Names(results) = Names(Suite)
      BY <2>1, AllGraded DEF Settled
    <2>4. score.printed \in BOOLEAN
      BY <2>1 DEF TypeOK
    <2> QED
      BY <2>1, <2>2, <2>3, <2>4 DEF ExitCodeHonest, Settled
  <1> QED
    BY <1>1, Invariance, PTL

-----------------------------------------------------------------------------
(* BenchRunner implements SuiteReport.                                     *)

Red == \E i \in DOMAIN results : ~results[i].green

\* Steps that grade and publish nothing leave the report as it was.
LEMMA ReportStays ==
    ASSUME UNCHANGED <<inputs, results, score>>
    PROVE  /\ Names(Suite)' = Names(Suite) /\ Names(results)' = Names(results)
           /\ invocation.strict' = invocation.strict
           /\ Red' = Red
           /\ score.printed' = score.printed
  BY DEF inputs, Suite, Names, Red

LEMMA CrashAborts ==
    ASSUME TypeOK, Crash, pc # "exited"
    PROVE  Promise!Next
  <1>1. exitCode = NotExited /\ exitCode' = 1
    BY DEF TypeOK, Crash, Exit
  <1>2. UNCHANGED <<inputs, results, score>>
    BY DEF Crash
  <1>3. Promise!Abort
    BY <1>1, <1>2, ReportStays DEF Promise!Abort, Red
  <1> QED
    BY <1>3 DEF Promise!Next

LEMMA RefusalRefuses ==
    ASSUME IInv, pc = "start", Exit(2),
           UNCHANGED <<inputs, todo, staged, ran, results, score>>
    PROVE  Promise!Next
  <1>1. exitCode = NotExited /\ exitCode' = 2
    BY DEF IInv, TypeOK, Exit
  <1>2. Names(results) = << >>
    BY DEF IInv, Untouched, Names
  <1>3. Promise!Refuse
    BY <1>1, <1>2, ReportStays DEF Promise!Refuse, Red
  <1> QED
    BY <1>3 DEF Promise!Next

LEMMA GradeGradesNext ==
    ASSUME IInv, NEW green \in BOOLEAN, Grade(green)
    PROVE  Promise!Next
  <1> DEFINE r == [name |-> Head(todo).name, green |-> green]
  <1>1. /\ pc = "ran"
        /\ results' = Append(results, r)
        /\ UNCHANGED <<inputs, score, exitCode, invocation>>
    BY DEF Grade, inputs
  <1>2. Names(Suite)' = Names(Suite)
    BY <1>1, SuiteStays DEF Names
  <1>3. TypeOK /\ Current /\ TypeOK'
    BY GradeKeepsIInv DEF IInv
  <1>4. exitCode = NotExited
    BY <1>1, <1>3 DEF TypeOK
  <1>5. /\ Graded + 1 \in 1 .. Len(Suite)
        /\ Head(todo) = Suite[Graded + 1]
        /\ Head(todo).name \in STRING
    BY <1>1, <1>3, CurrentIsNext DEF Current, Working
  <1>6. /\ results' \in Seq(BenchResult)
        /\ Len(results') = Graded + 1
        /\ DOMAIN results' = 1 .. (Graded + 1)
        /\ \A i \in 1 .. Graded : results'[i] = results[i]
        /\ results'[Graded + 1] = r
    <2>1. results \in Seq(BenchResult) /\ r \in BenchResult
      BY <1>3, <1>5 DEF TypeOK, BenchResult
    <2> HIDE DEF r
    <2>2. /\ results' \in Seq(BenchResult)
          /\ Len(results') = Graded + 1
          /\ \A i \in 1 .. Graded : results'[i] = results[i]
          /\ results'[Graded + 1] = r
      BY <1>1, <2>1, AppendProperties DEF Graded
    <2> QED
      BY <2>2, LenProperties
  <1>7. /\ Graded \in Nat /\ Len(Suite) \in Nat
        /\ DOMAIN results = 1 .. Graded
    BY <1>3, StateTypes, SuiteType
  <1>8. /\ Names(results) \in Seq(STRING) /\ Len(Names(results)) = Graded
        /\ Len(Names(Suite)) = Len(Suite)
        /\ Names(Suite)[Graded + 1] = Head(todo).name
    BY <1>3, <1>5, NamesTypes
  <1>9. Names(results)' = Append(Names(results), Names(Suite)[Graded + 1])
    <2> DEFINE more == Append(Names(results), Names(Suite)[Graded + 1])
    <2>1. /\ more \in Seq(STRING)
          /\ Len(more) = Graded + 1
          /\ \A i \in 1 .. Graded : more[i] = Names(results)[i]
          /\ more[Graded + 1] = Head(todo).name
      BY <1>5, <1>8, AppendProperties
    <2> HIDE DEF more
    <2>2. /\ Names(results)' \in Seq(STRING)
          /\ Len(Names(results)') = Graded + 1
          /\ \A i \in 1 .. (Graded + 1) : Names(results)'[i] = results'[i].name
      <3>1. Names(results)' = [i \in 1 .. (Graded + 1) |-> results'[i].name]
        BY <1>6 DEF Names
      <3>2. \A i \in 1 .. (Graded + 1) : results'[i].name \in STRING
        <4>1. \A i \in 1 .. (Graded + 1) : results'[i] \in BenchResult
          BY <1>6, ElementOfSeq
        <4> QED
          BY <4>1 DEF BenchResult
      <3> QED
        BY <1>7, <3>1, <3>2
    <2>3. ASSUME NEW i \in 1 .. (Graded + 1)
          PROVE  Names(results)'[i] = more[i]
      <3>1. CASE i = Graded + 1
        BY <1>6, <2>1, <2>2, <3>1
      <3>2. CASE i # Graded + 1
        <4>1. i \in 1 .. Graded
          BY <1>7, <3>2
        <4>2. Names(results)[i] = results[i].name
          BY <1>3, <4>1, NamesTypes
        <4> QED
          BY <1>6, <2>1, <2>2, <4>1, <4>2
      <3> QED
        BY <3>1, <3>2
    <2>4. Names(results)' = more
      BY <2>1, <2>2, <2>3, SeqEqual
    <2> QED
      BY <2>4 DEF more
  <1>10. Red' \in {Red, TRUE}
    <2>1. Red => Red'
      BY <1>6, <1>7 DEF Red
    <2> QED
      BY <2>1 DEF Red
  <1>11. Promise!GradeNext
    <2>1. Len(Names(results)) < Len(Names(Suite))
      BY <1>5, <1>7, <1>8
    <2> QED
      BY <1>1, <1>2, <1>4, <1>8, <1>9, <1>10, <2>1 DEF Promise!GradeNext, Red
  <1> QED
    BY <1>11 DEF Promise!Next

LEMMA ReportPublishes == IInv /\ Report => Promise!Next
  <1> SUFFICES ASSUME IInv, Report PROVE Promise!Next
    OBVIOUS
  <1>1. /\ pc = "next" /\ todo = << >>
        /\ score'.printed = TRUE
        /\ exitCode' = IF invocation.strict /\ AnyRed THEN 1 ELSE 0
        /\ UNCHANGED <<inputs, results, invocation>>
    BY DEF Report, Exit, inputs, TotalRow
  <1>2. TypeOK /\ GradedPrefix /\ RestToDo
    BY DEF IInv
  <1>3. exitCode = NotExited
    BY <1>1, <1>2 DEF TypeOK
  <1>4. Graded = Len(Suite)
    <2>1. Len(todo) = 0 /\ Len(todo) = Len(Suite) - Graded
      BY <1>1, <1>2 DEF RestToDo
    <2>2. Graded \in Nat /\ Len(Suite) \in Nat
      BY <1>2, StateTypes, SuiteType
    <2> QED
      BY <2>1, <2>2
  <1>5. Names(results) = Names(Suite)
    BY <1>2, <1>4, AllGraded
  <1>6. AnyRed <=> Red
    BY DEF AnyRed, Greens, Red
  <1>7. Names(Suite)' = Names(Suite) /\ Names(results)' = Names(results) /\ Red' = Red
    BY <1>1 DEF inputs, Suite, Names, Red
  <1>8. Promise!Publish
    BY <1>1, <1>3, <1>5, <1>6, <1>7 DEF Promise!Publish, Red
  <1> QED
    BY <1>8 DEF Promise!Next

\* The invocation implements the all-or-nothing report (safety part): the
\* suite is graded in its order, and either all of it is published under an
\* exit code that tells whether the gate holds, or nothing is.
THEOREM BenchImplementsSuiteReport ==
    Spec => Promise!Init /\ [][Promise!Next]_(Promise!reportVars)
  <1>1. Init => Promise!Init
    BY DEF Init, Promise!Init, Names, NoScore
  <1>2. IInv /\ [Next]_benchVars => [Promise!Next]_(Promise!reportVars)
    <2> SUFFICES ASSUME IInv, [Next]_benchVars
                 PROVE  [Promise!Next]_(Promise!reportVars)
      OBVIOUS
    <2>0. TypeOK
      BY DEF IInv
    <2>1. CASE RefuseFlags \/ RefuseLive
      BY <2>1, RefusalRefuses DEF RefuseFlags, RefuseLive, FlagsAccepted
    <2>2. CASE AgentUnresolved \/ ClientRaises \/ DiscoverRaises \/ StageRaises \/ LoadRaises
                  \/ AgentRaises \/ GradeRaises
      BY <2>0, <2>2, CrashAborts
         DEF AgentUnresolved, ClientRaises, DiscoverRaises, StageRaises, LoadRaises, AgentRaises,
             GradeRaises, FlagsAccepted, Accepted
    <2>3. CASE Discover \/ Stage \/ Load \/ RunAgent \/ UNCHANGED benchVars
      <3>1. UNCHANGED <<inputs, results, score, exitCode>>
        BY <2>3 DEF Discover, Stage, Load, RunAgent, benchVars
      <3> QED
        BY <3>1, ReportStays DEF Promise!reportVars, Red
    <2>4. CASE \E green \in BOOLEAN : Grade(green)
      BY <2>4, GradeGradesNext
    <2>5. CASE Report
      BY <2>5, ReportPublishes
    <2> QED
      BY <2>1, <2>2, <2>3, <2>4, <2>5 DEF Next, Step, Exited
  <1> QED
    BY <1>1, <1>2, Invariance, PTL DEF Spec
=============================================================================
