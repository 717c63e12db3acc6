--------------------------- MODULE TestLoopProofs ---------------------------
(***************************************************************************)
(* Every test is accounted for, and none runs without consent, for every   *)
(* set of configurations, however long its lists of tests, and every input *)
(* of the user.                                                            *)
(***************************************************************************)
EXTENDS TestLoop, FiniteSetTheorems, TLAPS

Stages == {"prepare", "execute", "check", "cleanup"}

(***************************************************************************)
(* The list of tests keeps its length when the defaults are set, and n     *)
(* never goes beyond its end by more than one.                             *)
(***************************************************************************)
Shape ==
  /\ config = [runner |-> config.runner, tests |-> config.tests]
  /\ Len(config.tests) \in Nat
  /\ DOMAIN config.tests = 1 .. Len(config.tests)
  /\ n \in 1 .. Len(config.tests) + 1
  /\ done \in [1 .. Len(config.tests) -> SUBSET Marks]
  /\ pc \in Exits \union Stages \union
              {"start", "load", "runner", "test", "hosts", "plan", "ask", "hung"}
  /\ pc \in Stages \union {"hosts", "plan", "ask"} => n <= Len(config.tests)

(***************************************************************************)
(* What is done of the test at hand, stage by stage.                       *)
(***************************************************************************)
AtHand ==
  /\ pc \in {"start", "load", "runner"} => \A t \in DOMAIN done : done[t] = {}
  /\ pc \in {"start", "load", "runner"} => n = 1
  /\ pc \in {"test", "hosts", "plan", "ask"} /\ n <= Len(config.tests) => done[n] = {}
  /\ pc = "prepare" => done[n] \subseteq {"confirmed"}
  /\ pc = "execute" => done[n] \in {{"prepared"}, {"prepared", "confirmed"}}
  /\ pc = "check" => done[n] \in {{"prepared", "executed"}, {"prepared", "executed", "confirmed"}}
  /\ pc = "cleanup" =>
       /\ {"prepared", "executed"} \subseteq done[n]
       /\ "skipped" \notin done[n] /\ "cleaned" \notin done[n]
       /\ "failed" \in done[n] => config.tests[n].continueOnError

\* A plan that is only printed is never carried out.
OnlyPrinted ==
  flags.onlyPrintPlan =>
    pc \notin Stages \union {"ask"} /\ \A t \in DOMAIN done : done[t] \subseteq {"skipped"}

IInv == Shape /\ AtHand /\ OnlyPrinted /\ TestsAccountedFor

(* A list made from another element by element has its length.             *)
LEMMA SameLength ==
  ASSUME NEW m \in Nat, NEW e, e = [k \in 1 .. m |-> e[k]]
  PROVE  Len(e) = m
<1>1. e \in [1 .. m -> {e[k] : k \in 1 .. m}]
  OBVIOUS
<1>2. e \in Seq({e[k] : k \in 1 .. m})
  BY <1>1
<1>3. QED
  BY <1>1, <1>2

(* Setting the defaults changes no test's place in the list.               *)
LEMMA DefaultsKeepShape ==
  ASSUME Shape, config' = SetDefaults(config)
  PROVE  /\ config' = [runner |-> config'.runner, tests |-> config'.tests]
         /\ Len(config'.tests) = Len(config.tests)
         /\ DOMAIN config'.tests = 1 .. Len(config.tests)
<1> DEFINE runner == [config.runner EXCEPT !.ptrs = SetPointers(@)]
           tests  == [k \in DOMAIN config.tests |-> SetTest(config.tests[k])]
<1>1. config' = [runner |-> runner, tests |-> tests]
  BY DEF SetDefaults, Shape
<1>2. tests = [k \in 1 .. Len(config.tests) |-> tests[k]]
  BY DEF Shape
<1> HIDE DEF runner, tests
<1>3. Len(tests) = Len(config.tests)
  BY <1>2, SameLength DEF Shape
<1>4. QED
  BY <1>1, <1>2, <1>3

LEMMA Starts == Init => IInv
<1> SUFFICES ASSUME Init PROVE IInv
  OBVIOUS
<1>1. PICK r \in Runners, ts \in TestLists : config = [runner |-> r, tests |-> ts]
  BY DEF Init
<1>2. ts \in Seq(TestSections)
  BY TestLoopAssumption
<1>3. Len(config.tests) \in Nat /\ DOMAIN config.tests = 1 .. Len(config.tests)
  BY <1>1, <1>2
<1>4. Shape
  BY <1>1, <1>3 DEF Init, Shape, Exits, Stages
<1>5. AtHand /\ OnlyPrinted /\ TestsAccountedFor
  BY <1>3 DEF Init, AtHand, OnlyPrinted, TestsAccountedFor, Stages
<1>6. QED
  BY <1>4, <1>5 DEF IInv

LEMMA Step == IInv /\ [Next]_vars => IInv'
<1> SUFFICES ASSUME IInv, [Next]_vars PROVE IInv'
  OBVIOUS
<1> USE DEF IInv, Shape, Stages, Exits, userVars
<1>1. CASE Start
  <2>1. Shape' /\ AtHand'
    BY <1>1 DEF Start, AtHand
  <2>2. OnlyPrinted' /\ TestsAccountedFor'
    BY <1>1 DEF Start, AtHand, OnlyPrinted, TestsAccountedFor, Skipped, Completed
  <2>3. QED
    BY <2>1, <2>2
<1>2. CASE NewRunner
  <2>1. Shape' /\ AtHand'
    BY <1>2 DEF NewRunner, Follows, AtHand, Marks
  <2>2. OnlyPrinted' /\ TestsAccountedFor'
    BY <1>2 DEF NewRunner, Follows, AtHand, OnlyPrinted, TestsAccountedFor, Skipped, Completed
  <2>3. QED
    BY <2>1, <2>2
<1>3. CASE AllTestsDone
  <2>1. Shape' /\ AtHand'
    BY <1>3 DEF AllTestsDone, AtHand, Marks
  <2>2. OnlyPrinted' /\ TestsAccountedFor'
    BY <1>3 DEF AllTestsDone, AtHand, OnlyPrinted, TestsAccountedFor, Skipped, Completed
  <2>3. QED
    BY <2>1, <2>2
<1>4. CASE Prepare
  <2>1. Shape' /\ AtHand'
    BY <1>4 DEF Prepare, AtHand, Marks
  <2>2. OnlyPrinted' /\ TestsAccountedFor'
    BY <1>4 DEF Prepare, AtHand, OnlyPrinted, TestsAccountedFor, Skipped, Completed
  <2>3. QED
    BY <2>1, <2>2
<1>5. CASE PrepareFails
  <2>1. Shape' /\ AtHand'
    BY <1>5 DEF PrepareFails, Mark, AtHand, TestsAccountedFor, Marks
  <2>2. pc = "test" /\ n \in DOMAIN done /\ done[n] = {} /\ flags' = flags /\ config' = config
    BY <1>5 DEF PrepareFails, AtHand
  <2>3. CASE Test.continueOnError
    <3>1. pc' = "test" /\ n' = n + 1 /\ done' = [done EXCEPT ![n] = {"skipped"}]
      BY <1>5, <2>2, <2>3 DEF PrepareFails, Mark
    <3>2. done'[n] = {"skipped"} /\ config'.tests[n].continueOnError
      BY <2>2, <2>3, <3>1 DEF Test
    <3>3. QED
      BY <2>1, <2>2, <3>1, <3>2 DEF OnlyPrinted, TestsAccountedFor, Skipped, Completed
  <2>4. CASE ~Test.continueOnError
    <3>1. pc' = "error" /\ UNCHANGED <<n, done>>
      BY <1>5, <2>4 DEF PrepareFails
    <3>2. QED
      BY <2>1, <2>2, <3>1 DEF OnlyPrinted, TestsAccountedFor, Skipped, Completed
  <2>5. QED
    BY <2>1, <2>3, <2>4
<1>6. CASE GetHosts
  <2>1. Shape' /\ AtHand'
    BY <1>6 DEF GetHosts, Follows, AtHand, Marks
  <2>2. OnlyPrinted' /\ TestsAccountedFor'
    BY <1>6 DEF GetHosts, Follows, AtHand, OnlyPrinted, TestsAccountedFor, Skipped, Completed
  <2>3. QED
    BY <2>1, <2>2
<1>7. CASE Plan
  <2>1. Shape' /\ AtHand'
    BY <1>7 DEF Plan, Follows, AtHand, Marks
  <2>2. OnlyPrinted' /\ TestsAccountedFor'
    BY <1>7 DEF Plan, Follows, AtHand, OnlyPrinted, TestsAccountedFor, Skipped, Completed
  <2>3. QED
    BY <2>1, <2>2
<1>8. CASE AnswerYes
  <2>1. Shape' /\ AtHand'
    BY <1>8 DEF AnswerYes, Mark, AtHand, Marks
  <2>2. OnlyPrinted' /\ TestsAccountedFor'
    BY <1>8 DEF AnswerYes, Mark, AtHand, OnlyPrinted, TestsAccountedFor, Skipped, Completed
  <2>3. QED
    BY <2>1, <2>2
<1>9. CASE AnswerNo
  <2>1. Shape' /\ AtHand'
    BY <1>9 DEF AnswerNo, AtHand, Marks
  <2>2. OnlyPrinted' /\ TestsAccountedFor'
    BY <1>9 DEF AnswerNo, AtHand, OnlyPrinted, TestsAccountedFor, Skipped, Completed
  <2>3. QED
    BY <2>1, <2>2
<1>10. CASE AskAgain
  <2>1. Shape' /\ AtHand'
    BY <1>10 DEF AskAgain, AtHand, Marks
  <2>2. OnlyPrinted' /\ TestsAccountedFor'
    BY <1>10 DEF AskAgain, AtHand, OnlyPrinted, TestsAccountedFor, Skipped, Completed
  <2>3. QED
    BY <2>1, <2>2
<1>11. CASE EndOfInput
  <2>1. Shape' /\ AtHand'
    BY <1>11 DEF EndOfInput, AtHand, Marks
  <2>2. OnlyPrinted' /\ TestsAccountedFor'
    BY <1>11 DEF EndOfInput, AtHand, OnlyPrinted, TestsAccountedFor, Skipped, Completed
  <2>3. QED
    BY <2>1, <2>2
<1>12. CASE PrepareRunner
  <2>1. Shape' /\ AtHand'
    BY <1>12 DEF PrepareRunner, Follows, Mark, AtHand, Marks
  <2>2. OnlyPrinted' /\ TestsAccountedFor'
    BY <1>12 DEF PrepareRunner, Follows, Mark, AtHand, OnlyPrinted, TestsAccountedFor, Skipped, Completed
  <2>3. QED
    BY <2>1, <2>2
<1>13. CASE ExecuteTest
  <2>1. Shape' /\ AtHand'
    BY <1>13 DEF ExecuteTest, Mark, AtHand, Marks
  <2>2. OnlyPrinted' /\ TestsAccountedFor'
    BY <1>13 DEF ExecuteTest, Mark, AtHand, OnlyPrinted, TestsAccountedFor, Skipped, Completed
  <2>3. QED
    BY <2>1, <2>2
<1>14. CASE CheckForErrors
  <2>1. Shape' /\ AtHand'
    BY <1>14 DEF CheckForErrors, Test, Mark, AtHand, Marks
  <2>2. OnlyPrinted' /\ TestsAccountedFor'
    BY <1>14 DEF CheckForErrors, Mark, AtHand, OnlyPrinted, TestsAccountedFor, Skipped, Completed
  <2>3. QED
    BY <2>1, <2>2
<1>15. CASE Cleanup
  <2>1. Shape' /\ AtHand'
    BY <1>15 DEF Cleanup, Mark, AtHand, TestsAccountedFor, Marks
  <2>2. OnlyPrinted' /\ TestsAccountedFor'
    BY <1>15 DEF Cleanup, Mark, AtHand, OnlyPrinted, TestsAccountedFor, Skipped, Completed
  <2>3. QED
    BY <2>1, <2>2
<1>16. CASE NoCleanup
  <2>1. Shape' /\ AtHand'
    BY <1>16 DEF NoCleanup, AtHand, TestsAccountedFor, Marks
  <2>2. OnlyPrinted' /\ TestsAccountedFor'
    BY <1>16 DEF NoCleanup, AtHand, OnlyPrinted, TestsAccountedFor, Skipped, Completed
  <2>3. QED
    BY <2>1, <2>2
<1>17. CASE Load
  <2>1. CASE UNCHANGED config
    <3>1. Shape' /\ AtHand'
      BY <1>17, <2>1 DEF Load, AtHand
    <3>2. OnlyPrinted' /\ TestsAccountedFor'
      BY <1>17, <2>1 DEF Load, AtHand, OnlyPrinted, TestsAccountedFor, Skipped, Completed
    <3>3. QED
      BY <3>1, <3>2
  <2>2. CASE config' = SetDefaults(config)
    <3>1. /\ config' = [runner |-> config'.runner, tests |-> config'.tests]
          /\ Len(config'.tests) = Len(config.tests)
          /\ DOMAIN config'.tests = 1 .. Len(config.tests)
      BY <2>2, DefaultsKeepShape
    <3>2. pc' \in {"error", "runner"} /\ n' = n /\ done' = done /\ flags' = flags /\ pc = "load"
      BY <1>17 DEF Load
    <3>3. Shape' /\ AtHand'
      BY <3>1, <3>2 DEF AtHand
    <3>4. OnlyPrinted' /\ TestsAccountedFor'
      BY <3>1, <3>2 DEF AtHand, OnlyPrinted, TestsAccountedFor, Skipped, Completed
    <3>5. QED
      BY <3>3, <3>4
  <2>3. QED
    BY <1>17, <2>1, <2>2 DEF Load
<1>18. CASE UNCHANGED vars
  BY <1>18 DEF vars, AtHand, OnlyPrinted, TestsAccountedFor, Skipped, Completed
<1>19. QED
  BY <1>1, <1>2, <1>3, <1>4, <1>5, <1>6, <1>7, <1>8, <1>9, <1>10, <1>11, <1>12, <1>13,
     <1>14, <1>15, <1>16, <1>17, <1>18 DEF Next, Program, Terminated

LEMMA AlwaysIInv == Spec => []IInv
BY Starts, Step, PTL DEF Spec

(***************************************************************************)
(* No test is lost between two others: each was skipped or went through    *)
(* all its stages, whatever the tests before it did, and success is only   *)
(* reported at the end of the list.                                        *)
(***************************************************************************)
THEOREM AccountsForTests == Spec => []TestsAccountedFor
BY AlwaysIInv, PTL DEF IInv

-----------------------------------------------------------------------------
(* Consent                                                                 *)

YesRead   == {k \in 1 .. read : stdin.lines[k] = "yes"}
Confirmed == {t \in DOMAIN done : "confirmed" \in done[t]}

WithinInput == stdin.lines \in Seq({"yes", "no", "other"}) /\ read \in 0 .. Len(stdin.lines)

\* --version ends the program before anything is done.
OnlyVersion == flags.version => pc \in {"start", "ok"} /\ \A t \in DOMAIN done : done[t] = {}

\* Without --yes whatever is prepared or executed was confirmed before.
ConfirmedFirst ==
  ~flags.yes =>
    /\ pc \in Stages => "confirmed" \in done[n]
    /\ \A t \in DOMAIN done :
         done[t] \intersect {"prepared", "executed"} # {} => "confirmed" \in done[t]

\* Every confirmation was a line of its own.
OneYesEach == Cardinality(Confirmed) <= Cardinality(YesRead)

NoEnds == ~stdin.pipe => \A k \in 1 .. read : stdin.lines[k] = "no" => pc = "error"

Consent == WithinInput /\ OnlyVersion /\ ConfirmedFirst /\ OneYesEach /\ NoEnds

LEMMA StartsWithConsent == Init => Consent
<1> SUFFICES ASSUME Init PROVE Consent
  OBVIOUS
<1>1. WithinInput /\ read = 0
  BY TestLoopAssumption DEF Init, WithinInput
<1>2. Confirmed = {}
  BY DEF Init, Confirmed
<1>3. YesRead = {}
  BY <1>1 DEF YesRead
<1>4. OneYesEach
  BY <1>2, <1>3, FS_EmptySet DEF OneYesEach
<1>5. QED
  BY <1>1, <1>4 DEF Init, Consent, OnlyVersion, ConfirmedFirst, NoEnds, Stages

(* Only the question reads from stdin and confirms tests.                  *)
LEMMA NothingRead ==
  ASSUME Consent, pc # "error", UNCHANGED <<read, stdin>>, Confirmed' = Confirmed
  PROVE  (WithinInput /\ OneYesEach /\ NoEnds)'
BY DEF Consent, WithinInput, OneYesEach, NoEnds, YesRead

LEMMA FiniteSets ==
  ASSUME Shape, WithinInput, WithinInput'
  PROVE  IsFiniteSet(Confirmed) /\ IsFiniteSet(YesRead) /\ IsFiniteSet(YesRead')
<1>0. read \in Int /\ read' \in Int
  BY DEF WithinInput
<1>1. /\ IsFiniteSet(DOMAIN done)
      /\ IsFiniteSet(1 .. read) /\ IsFiniteSet(1 .. read')
  BY <1>0, FS_Interval DEF Shape
<1>2. /\ Confirmed \in SUBSET DOMAIN done
      /\ YesRead \in SUBSET (1 .. read) /\ YesRead' \in SUBSET (1 .. read')
  BY DEF Confirmed, YesRead
<1>3. QED
  BY <1>1, <1>2, FS_Subset

(* Each question takes at least the line it answers to from the input.     *)
LEMMA FetchReads ==
  ASSUME WithinInput, Fetch, UNCHANGED stdin
  PROVE  /\ WithinInput' /\ read' > read
         /\ ~stdin.pipe => read' = read + 1
         /\ YesRead \subseteq YesRead'
         /\ Line = "yes" => read + 1 \in YesRead' /\ read + 1 \notin YesRead
BY DEF WithinInput, Fetch, Line, YesRead

(* A confirmation is paid for with a "yes" that was not read before.       *)
LEMMA YesConfirms ==
  ASSUME IInv, Consent, AnswerYes, IInv'
  PROVE  Consent'
<1>1. WithinInput /\ Fetch /\ Line = "yes" /\ UNCHANGED <<stdin, flags, config, n>>
  BY DEF AnswerYes, Consent, userVars
<1>2. /\ WithinInput' /\ read' > read
      /\ ~stdin.pipe => read' = read + 1
      /\ YesRead \subseteq YesRead' /\ read + 1 \in YesRead' /\ read + 1 \notin YesRead
  BY <1>1, FetchReads
<1>3. n \in DOMAIN done /\ done[n] = {} /\ done' = [done EXCEPT ![n] = {"confirmed"}]
  <2>1. n \in DOMAIN done /\ done[n] = {}
    BY DEF AnswerYes, IInv, Shape, AtHand
  <2>2. QED
    BY <2>1 DEF AnswerYes, Mark
<1>4. Confirmed' = Confirmed \union {n} /\ n \notin Confirmed
  BY <1>3 DEF Confirmed
<1>5. OneYesEach'
  <2>1. IsFiniteSet(Confirmed) /\ IsFiniteSet(YesRead) /\ IsFiniteSet(YesRead')
    BY <1>1, <1>2, FiniteSets DEF IInv
  <2>2. Cardinality(Confirmed') = Cardinality(Confirmed) + 1
    BY <1>4, <2>1, FS_AddElement
  <2>3. Cardinality(YesRead) + 1 <= Cardinality(YesRead')
    <3>1. YesRead \union {read + 1} \subseteq YesRead'
      BY <1>2
    <3>2. Cardinality(YesRead \union {read + 1}) = Cardinality(YesRead) + 1
      BY <1>2, <2>1, FS_AddElement
    <3>3. QED
      BY <2>1, <3>1, <3>2, FS_Subset
  <2>4. /\ Cardinality(Confirmed) \in Nat /\ Cardinality(YesRead) \in Nat
        /\ Cardinality(YesRead') \in Nat
    BY <2>1, FS_CardinalityType
  <2>5. Cardinality(Confirmed) <= Cardinality(YesRead)
    BY DEF Consent, OneYesEach
  <2>6. Cardinality(Confirmed') <= Cardinality(YesRead')
    BY <2>2, <2>3, <2>4, <2>5
  <2>7. QED
    BY <2>6 DEF OneYesEach
<1>6. NoEnds'
  BY <1>1, <1>2 DEF AnswerYes, Consent, WithinInput, NoEnds, Line
<1>7. (OnlyVersion /\ ConfirmedFirst)'
  BY <1>1, <1>3 DEF AnswerYes, Consent, OnlyVersion, ConfirmedFirst, Stages, IInv, Shape
<1>8. QED
  BY <1>2, <1>5, <1>6, <1>7 DEF Consent

(* The other answers read on and confirm nothing.                          *)
LEMMA OthersRead ==
  ASSUME IInv, Consent, AnswerNo \/ AskAgain
  PROVE  Consent'
<1>1. WithinInput /\ Fetch /\ Line # "yes" /\ UNCHANGED <<stdin, flags, config, n, done>>
  BY DEF AnswerNo, AskAgain, Consent, userVars
<1>2. /\ WithinInput' /\ read' > read
      /\ ~stdin.pipe => read' = read + 1
      /\ YesRead \subseteq YesRead'
  BY <1>1, FetchReads
<1>3. OneYesEach'
  <2>1. IsFiniteSet(Confirmed) /\ IsFiniteSet(YesRead) /\ IsFiniteSet(YesRead')
    BY <1>1, <1>2, FiniteSets DEF IInv
  <2>2. Cardinality(YesRead) <= Cardinality(YesRead')
    BY <1>2, <2>1, FS_Subset
  <2>3. /\ Cardinality(Confirmed) \in Nat /\ Cardinality(YesRead) \in Nat
        /\ Cardinality(YesRead') \in Nat
    BY <2>1, FS_CardinalityType
  <2>4. Cardinality(Confirmed) <= Cardinality(YesRead')
    BY <2>2, <2>3 DEF Consent, OneYesEach
  <2>5. Confirmed' = Confirmed
    BY <1>1 DEF Confirmed
  <2>6. QED
    BY <2>4, <2>5 DEF OneYesEach
<1>4. NoEnds'
  BY <1>1, <1>2 DEF AnswerNo, AskAgain, Consent, WithinInput, NoEnds, Line
<1>5. (OnlyVersion /\ ConfirmedFirst)'
  BY <1>1 DEF AnswerNo, AskAgain, Consent, OnlyVersion, ConfirmedFirst, Stages
<1>6. QED
  BY <1>2, <1>3, <1>4, <1>5 DEF Consent

(* Whatever else is done of a test, nobody is asked again.                 *)
LEMMA OtherMarks ==
  ASSUME Shape, n \in DOMAIN done, NEW m \in Marks \ {"confirmed"}, Mark(m)
  PROVE  /\ DOMAIN done' = DOMAIN done /\ Confirmed' = Confirmed
         /\ \A t \in DOMAIN done : done'[t] = IF t = n THEN done[t] \union {m} ELSE done[t]
<1>1. /\ DOMAIN done' = DOMAIN done
      /\ \A t \in DOMAIN done : done'[t] = IF t = n THEN done[t] \union {m} ELSE done[t]
  BY DEF Shape, Mark
<1>2. QED
  BY <1>1 DEF Confirmed

LEMMA ConsentStep == IInv /\ IInv' /\ Consent /\ [Next]_vars => Consent'
<1> SUFFICES ASSUME IInv, IInv', Consent, [Next]_vars PROVE Consent'
  OBVIOUS
<1> DEFINE Kept == /\ pc # "error" /\ UNCHANGED <<read, stdin>> /\ Confirmed' = Confirmed
                   /\ (OnlyVersion /\ ConfirmedFirst)'
<1>1. Kept => Consent'
  BY NothingRead DEF Consent
<1> USE DEF IInv, Shape, Stages, Exits, userVars, Consent, OnlyVersion, ConfirmedFirst, Confirmed
<1>2. CASE Start
  BY <1>1, <1>2 DEF Start, AtHand
<1>3. CASE Load
  BY <1>1, <1>3 DEF Load, AtHand
<1>4. CASE NewRunner
  BY <1>1, <1>4 DEF NewRunner, Follows, AtHand
<1>5. CASE AllTestsDone
  BY <1>1, <1>5 DEF AllTestsDone, AtHand
<1>6. CASE Prepare
  BY <1>1, <1>6 DEF Prepare, AtHand
<1>7. CASE PrepareFails
  <2>1. pc = "test" /\ n \in DOMAIN done /\ UNCHANGED <<read, stdin, flags>>
    BY <1>7 DEF PrepareFails
  <2>2. CASE Mark("skipped") /\ pc' = "test"
    BY <1>1, <2>1, <2>2, OtherMarks DEF Marks
  <2>3. CASE pc' = "error" /\ UNCHANGED done
    BY <1>1, <2>1, <2>3
  <2>4. QED
    BY <1>7, <2>1, <2>2, <2>3 DEF PrepareFails
<1>8. CASE GetHosts
  BY <1>1, <1>8 DEF GetHosts, Follows, AtHand
<1>9. CASE Plan
  BY <1>1, <1>9 DEF Plan, Follows, AtHand
<1>10. CASE EndOfInput
  BY <1>1, <1>10 DEF EndOfInput, AtHand
<1>11. CASE PrepareRunner
  BY <1>1, <1>11 DEF PrepareRunner, Mark, Follows, AtHand
<1>12. CASE ExecuteTest
  BY <1>1, <1>12 DEF ExecuteTest, Mark, AtHand
<1>13. CASE CheckForErrors
  <2>1. /\ pc = "check" /\ pc' \in {"cleanup", "error"} /\ n' = n /\ n \in DOMAIN done
        /\ UNCHANGED <<read, stdin, flags>>
    BY <1>13 DEF CheckForErrors
  <2>2. CASE Mark("failed")
    BY <1>1, <2>1, <2>2, OtherMarks DEF Marks
  <2>3. CASE UNCHANGED done
    BY <1>1, <2>1, <2>3
  <2>4. QED
    BY <1>13, <2>2, <2>3 DEF CheckForErrors
<1>14. CASE Cleanup
  <2>1. pc = "cleanup" /\ n \in DOMAIN done /\ UNCHANGED <<read, stdin, flags>>
    BY <1>14 DEF Cleanup
  <2>2. CASE Mark("cleaned") /\ pc' = "test"
    BY <1>1, <2>1, <2>2, OtherMarks DEF Marks
  <2>3. CASE pc' = "error" /\ UNCHANGED <<n, done>>
    BY <1>1, <2>1, <2>3
  <2>4. QED
    BY <1>14, <2>2, <2>3 DEF Cleanup
<1>15. CASE NoCleanup
  BY <1>1, <1>15 DEF NoCleanup, AtHand
<1>16. CASE AnswerYes
  BY <1>16, YesConfirms
<1>17. CASE AnswerNo \/ AskAgain
  BY <1>17, OthersRead
<1>18. CASE UNCHANGED vars
  BY <1>18 DEF vars, WithinInput, OneYesEach, NoEnds, YesRead
<1>19. QED
  BY <1>2, <1>3, <1>4, <1>5, <1>6, <1>7, <1>8, <1>9, <1>10, <1>11, <1>12, <1>13, <1>14, <1>15, <1>16, <1>17, <1>18 DEF Next, Program, Terminated

LEMMA ConsentAsked == IInv /\ Consent => NothingUnasked
<1> SUFFICES ASSUME IInv, Consent PROVE NothingUnasked
  OBVIOUS
<1> DEFINE acted == {t \in DOMAIN done : done[t] \intersect {"prepared", "executed"} # {}}
           lines == SubSeq(stdin.lines, 1, read)
           said(l) == {k \in DOMAIN lines : lines[k] = l}
<1>1. acted # {} => ~flags.onlyPrintPlan /\ ~flags.version
  BY DEF IInv, OnlyPrinted, Consent, OnlyVersion
<1>2. DOMAIN lines = 1 .. read /\ \A k \in 1 .. read : lines[k] = stdin.lines[k]
  BY DEF Consent, WithinInput
<1>3. said("yes") = YesRead
  BY <1>2 DEF YesRead
<1>4. flags.yes \/ Cardinality(acted) <= Cardinality(said("yes"))
  <2>1. SUFFICES ASSUME ~flags.yes PROVE Cardinality(acted) <= Cardinality(YesRead)
    BY <1>3
  <2>2. acted \in SUBSET Confirmed
    BY <2>1 DEF Consent, ConfirmedFirst, Confirmed
  <2>3. IsFiniteSet(DOMAIN done)
    BY FS_Interval DEF IInv, Shape
  <2>4. read \in Int
    BY DEF Consent, WithinInput
  <2>5. IsFiniteSet(1 .. read)
    BY <2>4, FS_Interval
  <2>6. Confirmed \in SUBSET DOMAIN done /\ YesRead \in SUBSET (1 .. read)
    BY DEF Confirmed, YesRead
  <2>7. IsFiniteSet(Confirmed) /\ IsFiniteSet(YesRead)
    BY <2>3, <2>5, <2>6, FS_Subset
  <2>8. IsFiniteSet(acted) /\ Cardinality(acted) <= Cardinality(Confirmed)
    BY <2>2, <2>7, FS_Subset
  <2>9. QED
    BY <2>7, <2>8, FS_CardinalityType DEF Consent, OneYesEach
<1>5. ~stdin.pipe /\ said("no") # {} => pc = "error"
  BY <1>2 DEF Consent, NoEnds
<1>6. QED
  BY <1>1, <1>4, <1>5 DEF NothingUnasked

LEMMA AlwaysConsent == Spec => []Consent
<1>1. Init => Consent
  BY StartsWithConsent
<1>2. IInv /\ IInv' /\ Consent /\ [Next]_vars => Consent'
  BY ConsentStep
<1>3. QED
  BY <1>1, <1>2, AlwaysIInv, PTL DEF Spec

(***************************************************************************)
(* Whatever the user types, through a pipe or not, no more tests touch     *)
(* hosts than the user agreed to, and none does when the version or a plan *)
(* was asked for.                                                          *)
(***************************************************************************)
THEOREM AsksFirst == Spec => []NothingUnasked
  BY AlwaysConsent, AlwaysIInv, ConsentAsked, PTL

-----------------------------------------------------------------------------
(* Nil pointers                                                            *)

\* The structures that are there have all the fields that the defaults set.
Closed(ptrs) ==
  \A e \in ptrs : e[2] \in DOMAIN Defaults => \A f \in Defaults[e[2]] : <<e[2], f>> \in ptrs

ClosedOutputs(t) == \A k \in DOMAIN t.outputs : Closed(t.outputs[k].ptrs)

ClosedTest(t) == Closed(t.ptrs) /\ ClosedOutputs(t) /\ t.rounds \in Int

Sections == config.runner \in RunnerSections /\ config.tests \in Seq(TestSections)

InLoop == Stages \union {"test", "hosts", "plan", "ask"}

(***************************************************************************)
(* From Load on the defaults are set everywhere; the runner is known in    *)
(* the loop, and the type of a test once it is prepared.                   *)
(***************************************************************************)
Filled ==
  /\ pc \in {"start", "load"} => Sections
  /\ pc \in InLoop \union {"runner"} =>
       /\ Closed(config.runner.ptrs)
       /\ \A t \in DOMAIN config.tests : ClosedTest(config.tests[t])
  /\ pc \in InLoop => config.runner.name \in RunnerNames
  /\ pc \in InLoop \ {"test"} => Test.type \in TesterNames

Safe == Filled /\ PanicsExplained

(* What the defaults add has no defaults of its own: one pass is enough.   *)
LEMMA OnePassCloses ==
  ASSUME NEW ptrs
  PROVE  Closed(SetPointers(ptrs))
<1> SUFFICES ASSUME NEW e \in SetPointers(ptrs), e[2] \in DOMAIN Defaults, NEW f \in Defaults[e[2]]
             PROVE  <<e[2], f>> \in SetPointers(ptrs)
  BY DEF Closed
<1>1. CASE e \in ptrs
  <2>1. e[2] \in Structures(ptrs) \intersect DOMAIN Defaults
    BY <1>1 DEF Structures
  <2>2. <<e[2], f>> \in {<<e[2], g>> : g \in Defaults[e[2]]}
    OBVIOUS
  <2>3. QED
    BY <2>1, <2>2 DEF SetPointers
<1>2. CASE e \notin ptrs
  <2>1. PICK s \in Structures(ptrs) \intersect DOMAIN Defaults : \E g \in Defaults[s] : e = <<s, g>>
    BY <1>2 DEF SetPointers
  <2>2. e[2] \in Defaults[s]
    BY <2>1
  <2>3. Defaults[s] \intersect DOMAIN Defaults = {}
    BY <2>1 DEF Defaults
  <2>4. QED
    BY <2>2, <2>3
<1>3. QED
  BY <1>1, <1>2

(* Setting the defaults of a test closes the test and its outputs.         *)
LEMMA TestCloses ==
  ASSUME NEW t \in TestSections
  PROVE  ClosedTest(SetTest(t))
<1>1. SetTest(t).ptrs = SetPointers(t.ptrs)
  BY DEF SetTest, TestSections
<1>2. SetTest(t).outputs = [k \in DOMAIN t.outputs |-> SetOutput(t.outputs[k])]
  BY DEF SetTest, TestSections
<1>3. \A k \in DOMAIN t.outputs : t.outputs[k] \in OutputSections
  BY DEF TestSections
<1>4. \A k \in DOMAIN t.outputs : SetOutput(t.outputs[k]).ptrs = SetPointers(t.outputs[k].ptrs)
  BY <1>3 DEF SetOutput, OutputSections
<1>5. \A k \in DOMAIN t.outputs : SetTest(t).outputs[k].ptrs = SetPointers(t.outputs[k].ptrs)
  BY <1>2, <1>4
<1>6. SetTest(t).rounds \in Int
  BY DEF SetTest, TestSections
<1>7. QED
  BY <1>1, <1>2, <1>5, <1>6, OnePassCloses DEF ClosedOutputs, ClosedTest

LEMMA LoadCloses ==
  ASSUME Sections, Shape, config' = SetDefaults(config)
  PROVE  /\ Closed(config'.runner.ptrs)
         /\ \A t \in DOMAIN config'.tests : ClosedTest(config'.tests[t])
<1>1. config' = [runner |-> [config.runner EXCEPT !.ptrs = SetPointers(@)],
                 tests  |-> [k \in DOMAIN config.tests |-> SetTest(config.tests[k])]]
  BY DEF SetDefaults, Shape
<1>2. config'.runner.ptrs = SetPointers(config.runner.ptrs)
  BY <1>1 DEF Sections, RunnerSections
<1>3. config'.tests = [k \in DOMAIN config.tests |-> SetTest(config.tests[k])]
  BY <1>1
<1>4. \A t \in DOMAIN config.tests : config.tests[t] \in TestSections
  BY DEF Sections
<1>5. QED
  BY <1>2, <1>3, <1>4, OnePassCloses, TestCloses

(* The test at hand is one of those that CompleteConfig looks at.          *)
LEMMA CompleteParts ==
  ASSUME Shape, CompleteConfig
  PROVE  /\ CompleteRunner(config.runner)
         /\ n <= Len(config.tests) => CompleteTest(Test)
BY DEF Shape, CompleteConfig, Test, ToSet

(* No runner of a complete configuration follows a nil pointer.            *)
LEMMA RunnerIsSafe ==
  ASSUME CompleteRunner(config.runner), Closed(config.runner.ptrs),
         config.runner.name \in RunnerNames
  PROVE  /\ NewRunnerFollows[config.runner.name] \subseteq config.runner.ptrs
         /\ GetHostsFollows(config.runner) \subseteq config.runner.ptrs
         /\ PrepareFollows[config.runner.name] \subseteq config.runner.ptrs
         /\ ExecuteFollows[config.runner.name] \subseteq config.runner.ptrs
<1>1. CASE config.runner.name = "kubernetes"
  <2>1. /\ <<"Runner", "Kubernetes">> \in config.runner.ptrs
        /\ <<"Kubernetes", "Timeouts">> \in config.runner.ptrs
        /\ <<"Kubernetes", "Hosts">> \in config.runner.ptrs
    BY <1>1 DEF CompleteRunner, Given
  <2>2. <<"Hosts", "IgnoreSchedulingDisabled">> \in config.runner.ptrs
    BY <2>1 DEF Closed, Defaults
  <2>3. QED
    BY <1>1, <2>1, <2>2 DEF NewRunnerFollows, GetHostsFollows, PrepareFollows, ExecuteFollows
<1>2. CASE config.runner.name = "ansible"
  <2>1. <<"Runner", "Ansible">> \in config.runner.ptrs
    BY <1>2 DEF CompleteRunner, Given
  <2>2. \A f \in {"Timeouts", "CommandRetries", "ParallelHostFactCalls", "Groups"} :
          <<"Ansible", f>> \in config.runner.ptrs
    BY <2>1 DEF Closed, Defaults
  <2>3. QED
    BY <1>2, <2>1, <2>2 DEF NewRunnerFollows, GetHostsFollows, PrepareFollows, ExecuteFollows
<1>3. CASE config.runner.name = "mock"
  BY <1>3 DEF NewRunnerFollows, GetHostsFollows, PrepareFollows, ExecuteFollows
<1>4. QED
  BY <1>1, <1>2, <1>3 DEF RunnerNames

(* Nor do the tester and the outputs of a complete test.                   *)
LEMMA TestIsSafe ==
  ASSUME NEW t, CompleteTest(t), Closed(t.ptrs), t.type \in TesterNames, NEW h
  PROVE  PlanFollows(t, h) \subseteq t.ptrs
<1>1. CASE t.type = "iperf3"
  <2>1. <<"Test", "IPerf3">> \in t.ptrs
    BY <1>1 DEF CompleteTest, Given, Section, TesterNames
  <2>2. \A f \in {"Duration", "Interval"} : <<"IPerf3", f>> \in t.ptrs
    BY <2>1 DEF Closed, Defaults
  <2>3. {"IPerf3"} \X {"Duration", "Interval"} \subseteq t.ptrs
    BY <2>2
  <2>4. {<<"Test", "IPerf3">>} \subseteq t.ptrs
    BY <2>1
  <2>5. PlanFollows(t, h) \subseteq {<<"Test", "IPerf3">>} \union ({"IPerf3"} \X {"Duration", "Interval"})
    BY <1>1 DEF PlanFollows
  <2>6. QED
    BY <2>3, <2>4, <2>5
<1>2. CASE t.type = "pingparsing"
  <2>1. <<"Test", "PingParsing">> \in t.ptrs
    BY <1>2 DEF CompleteTest, Given, Section, TesterNames
  <2>2. \A f \in {"Count", "Deadline", "Timeout"} : <<"PingParsing", f>> \in t.ptrs
    BY <2>1 DEF Closed, Defaults
  <2>3. {"PingParsing"} \X {"Count", "Deadline", "Timeout"} \subseteq t.ptrs
    BY <2>2
  <2>4. {<<"Test", "PingParsing">>} \subseteq t.ptrs
    BY <2>1
  <2>5. PlanFollows(t, h) \subseteq
          {<<"Test", "PingParsing">>} \union ({"PingParsing"} \X {"Count", "Deadline", "Timeout"})
    BY <1>2 DEF PlanFollows
  <2>6. QED
    BY <2>3, <2>4, <2>5
<1>3. QED
  BY <1>1, <1>2 DEF TesterNames

LEMMA OutputsAreSafe ==
  ASSUME NEW t, CompleteTest(t), ClosedOutputs(t), NEW k \in DOMAIN t.outputs
  PROVE  DoFollows(t.outputs[k]) \subseteq t.outputs[k].ptrs
<1>1. CASE t.outputs[k].name = "csv"
  <2>1. "csv" \in OutputNames /\ Section["csv"] = "CSV"
    BY DEF OutputNames, Section, TesterNames
  <2>2. <<"Output", "CSV">> \in t.outputs[k].ptrs
    BY <1>1, <2>1 DEF CompleteTest, Given
  <2>3. <<"CSV", "Separator">> \in t.outputs[k].ptrs
    BY <2>2 DEF ClosedOutputs, Closed, Defaults
  <2>4. QED
    BY <1>1, <2>3 DEF DoFollows
<1>2. CASE t.outputs[k].name = "gochart"
  BY <1>2 DEF DoFollows, CompleteTest, Given
<1>3. CASE t.outputs[k].name \notin {"csv", "gochart"}
  BY <1>3 DEF DoFollows
<1>4. QED
  BY <1>1, <1>2, <1>3

(* A test of a complete configuration is prepared or skipped.              *)
LEMMA PrepareIsSafe ==
  ASSUME CompleteTest(Test)
  PROVE  PrepareResult \in {"fine", "error"}
<1>1. <<"Tests", "Test">> \in Test.ptrs
  BY DEF CompleteTest, Given
<1>2. ASSUME NEW k \in DOMAIN Test.outputs PROVE Wrong(Test.outputs[k]) # "panic"
  BY DEF CompleteTest, Given, Wrong
<1>3. ~FirstWrong("panic")
  BY <1>2 DEF FirstWrong
<1>4. OutputsResult \in {"fine", "error"}
  BY <1>3 DEF OutputsResult
<1>5. QED
  BY <1>1, <1>4 DEF PrepareResult

LEMMA StartsSafe == Init => Safe
<1> SUFFICES ASSUME Init PROVE Safe
  OBVIOUS
<1>1. PICK r \in Runners, ts \in TestLists : config = [runner |-> r, tests |-> ts]
  BY DEF Init
<1>2. Sections
  BY <1>1, TestLoopAssumption DEF Sections
<1>3. QED
  BY <1>2 DEF Init, Safe, Filled, PanicsExplained, InLoop, Stages

LEMMA SafeStep == IInv /\ Safe /\ [Next]_vars => Safe'
<1> SUFFICES ASSUME IInv, Safe, [Next]_vars PROVE Safe'
  OBVIOUS
<1>0. Shape
  BY DEF IInv
<1> USE DEF Safe, Filled, InLoop, Stages, userVars
<1>1. CASE Load
  <2>1. CASE config' = SetDefaults(config) /\ pc' \in {"runner", "error"}
    <3>1. Sections
      BY <1>1 DEF Load
    <3>2. /\ Closed(config'.runner.ptrs)
          /\ \A t \in DOMAIN config'.tests : ClosedTest(config'.tests[t])
      BY <1>0, <2>1, <3>1, LoadCloses
    <3>3. QED
      BY <2>1, <3>2 DEF PanicsExplained
  <2>2. CASE pc' = "error"
    BY <2>2 DEF PanicsExplained
  <2>3. QED
    BY <1>1, <2>1, <2>2 DEF Load
<1>2. CASE ~Load
  <2> DEFINE Fits == /\ pc' \in InLoop => config.runner.name \in RunnerNames
                     /\ pc' \in InLoop \ {"test"} => Test'.type \in TesterNames
                     /\ pc' \in {"start", "load"} => pc \in {"start", "load"}
                     /\ pc' \in InLoop \union {"runner"} => pc \in InLoop \union {"runner"}
  <2>1. config' = config
    BY <1>2 DEF Next, Program, Terminated, vars, Start, Load, NewRunner, AllTestsDone, Prepare,
       PrepareFails, GetHosts, Plan, AnswerYes, AnswerNo, AskAgain, EndOfInput, PrepareRunner,
       ExecuteTest, CheckForErrors, Cleanup, NoCleanup
  <2>2. Fits /\ PanicsExplained' => Safe'
    BY <2>1 DEF Sections
  <2>3. pc # "panic" /\ CompleteConfig =>
          /\ CompleteRunner(config.runner)
          /\ n <= Len(config.tests) => CompleteTest(Test)
    BY <1>0, CompleteParts
  <2>4. CASE NewRunner
    <3>1. Fits
      BY <2>4 DEF NewRunner, Follows
    <3>2. PanicsExplained'
      BY <2>1, <2>3, <2>4, RunnerIsSafe DEF NewRunner, Follows, PanicsExplained, CompleteConfig
    <3>3. QED
      BY <2>2, <3>1, <3>2
  <2>5. CASE Prepare
    <3>1. Fits
      BY <2>1, <2>5 DEF Prepare, PrepareResult, Test
    <3>2. PanicsExplained'
      BY <2>1, <2>3, <2>5, PrepareIsSafe DEF Prepare, PanicsExplained, CompleteConfig
    <3>3. QED
      BY <2>2, <3>1, <3>2
  <2>6. CASE GetHosts
    <3>1. Fits
      BY <2>1, <2>6 DEF GetHosts, Follows, Test
    <3>2. PanicsExplained'
      BY <2>1, <2>3, <2>6, RunnerIsSafe DEF GetHosts, Follows, PanicsExplained, CompleteConfig
    <3>3. QED
      BY <2>2, <3>1, <3>2
  <2>7. CASE Plan
    <3>1. Fits
      BY <2>1, <2>7 DEF Plan, Follows, Test
    <3>2. /\ n <= Len(config.tests) /\ Test.type \in TesterNames
          /\ Closed(Test.ptrs) /\ Test.rounds \in Int
      BY <1>0, <2>7 DEF Plan, Shape, Test, ClosedTest
    <3>3. CompleteConfig => Test.rounds >= 0 /\ PlanFollows(Test, hosts) \subseteq Test.ptrs
      <4>1. CompleteConfig => CompleteTest(Test)
        BY <2>3, <2>7, <3>2 DEF Plan
      <4>2. QED
        BY <3>2, <4>1, TestIsSafe DEF CompleteTest
    <3>4. PanicsExplained'
      BY <2>1, <2>7, <3>2, <3>3 DEF Plan, Follows, PanicsExplained, CompleteConfig
    <3>5. QED
      BY <2>2, <3>1, <3>4
  <2>8. CASE PrepareRunner
    <3>1. Fits
      BY <2>1, <2>8 DEF PrepareRunner, Follows, Test
    <3>2. PanicsExplained'
      BY <2>1, <2>3, <2>8, RunnerIsSafe DEF PrepareRunner, Follows, PanicsExplained, CompleteConfig
    <3>3. QED
      BY <2>2, <3>1, <3>2
  <2>9. CASE ExecuteTest
    <3>1. Fits
      BY <2>1, <2>9 DEF ExecuteTest, Test
    <3>2. CompleteConfig => CanExecute
      <4>1. n <= Len(config.tests) /\ ClosedOutputs(Test)
        BY <1>0, <2>9 DEF ExecuteTest, Shape, Test, ClosedTest
      <4>2. SUFFICES ASSUME CompleteConfig PROVE CanExecute
        OBVIOUS
      <4>3. CompleteTest(Test) /\ CompleteRunner(config.runner)
        BY <2>3, <2>9, <4>1, <4>2 DEF ExecuteTest
      <4>4. QED
        BY <2>9, <4>1, <4>3, OutputsAreSafe, RunnerIsSafe DEF ExecuteTest, CanExecute
    <3>3. PanicsExplained'
      BY <2>1, <2>9, <3>2 DEF ExecuteTest, PanicsExplained, CompleteConfig
    <3>4. QED
      BY <2>2, <3>1, <3>3
  <2>10. CASE \/ Start \/ AllTestsDone \/ PrepareFails \/ AnswerYes \/ AnswerNo
              \/ AskAgain \/ EndOfInput \/ CheckForErrors \/ Cleanup \/ NoCleanup
    <3>1. Fits /\ pc' # "panic"
      BY <2>1, <2>10 DEF Start, AllTestsDone, PrepareFails, AnswerYes, AnswerNo, AskAgain,
         EndOfInput, CheckForErrors, Cleanup, NoCleanup, Test
    <3>2. QED
      BY <2>2, <3>1 DEF PanicsExplained
  <2>11. CASE UNCHANGED vars
    BY <2>11 DEF vars, Sections, PanicsExplained, CompleteConfig, Test
  <2>12. QED
    BY <1>2, <2>4, <2>5, <2>6, <2>7, <2>8, <2>9, <2>10, <2>11 DEF Next, Program, Terminated
<1>3. QED
  BY <1>1, <1>2

(***************************************************************************)
(* For every set of configurations: what makes the program follow a nil    *)
(* pointer is something that the user left out and no default replaces.    *)
(***************************************************************************)
THEOREM ExplainsPanics == Spec => []PanicsExplained
<1>1. Spec => []Safe
  BY StartsSafe, SafeStep, AlwaysIInv, PTL DEF Spec
<1>2. QED
  BY <1>1, PTL DEF Safe

-----------------------------------------------------------------------------
(***************************************************************************)
(* Why the program ends.  What is left to do is kept in finite sets: no    *)
(* step adds to one of them, and every step strikes something off.         *)
(***************************************************************************)

\* How far the test at hand is.
PlaceInTest ==
  CASE pc = "test" -> 1 [] pc = "hosts" -> 2 [] pc = "plan" -> 3 [] pc = "ask" -> 4
    [] pc = "prepare" -> 5 [] pc = "execute" -> 6 [] pc = "check" -> 7
    [] pc = "cleanup" -> 8 [] OTHER -> 9

Beginning == pc \in {"start", "load", "runner"}

BeginBefore(p) ==
  \/ pc = "start"
  \/ pc = "load" /\ p # "start"
  \/ pc = "runner" /\ p = "runner"

StageBefore(t, k) == Beginning \/ t > n \/ (t = n /\ PlaceInTest <= k)

BeginLeft  == {p \in {"start", "load", "runner"} : BeginBefore(p)}
StagesLeft == {x \in (DOMAIN done) \X (1..8) : StageBefore(x[1], x[2])}
LinesLeft  == {k \in 1..Len(stdin.lines) : k > read}
EndLeft    == {e \in {"end"} : pc \notin Exits \union {"hung"}}

AllLeft == <<BeginLeft, StagesLeft, LinesLeft, EndLeft>>

FinitelyMuchLeft ==
  IsFiniteSet(BeginLeft) /\ IsFiniteSet(StagesLeft) /\ IsFiniteSet(LinesLeft) /\ IsFiniteSet(EndLeft)

OnlyStrikesOff ==
  /\ BeginLeft' \subseteq BeginLeft /\ StagesLeft' \subseteq StagesLeft
  /\ LinesLeft' \subseteq LinesLeft /\ EndLeft' \subseteq EndLeft
  /\ AllLeft' # AllLeft

LEMMA AlwaysFinite ==
  ASSUME Shape, WithinInput
  PROVE  FinitelyMuchLeft
<1>1. \A a, b \in Int : IsFiniteSet(a .. b)
  BY FS_Interval
<1>2. IsFiniteSet(DOMAIN done) /\ IsFiniteSet(1..Len(stdin.lines))
  <2>1. DOMAIN done = 1 .. Len(config.tests) /\ Len(config.tests) \in Int /\ Len(stdin.lines) \in Int
    BY DEF Shape, WithinInput
  <2>2. QED
    BY <1>1, <2>1
<1>3. IsFiniteSet(1..8)
  <2>1. ASSUME NEW m \in Nat PROVE IsFiniteSet(1..m)
    BY <1>1
  <2>2. 8 \in Nat
    OBVIOUS
  <2>3. QED
    BY <2>1, <2>2, Zenon
<1>4. IsFiniteSet({"start", "load", "runner"}) /\ IsFiniteSet({"end"})
  <2>1. IsFiniteSet({"start"} \union {"load"})
    BY FS_Singleton, FS_AddElement
  <2>2. IsFiniteSet(({"start"} \union {"load"}) \union {"runner"})
    BY <2>1, FS_AddElement
  <2>3. ({"start"} \union {"load"}) \union {"runner"} = {"start", "load", "runner"}
    OBVIOUS
  <2>4. QED
    BY <2>2, <2>3, FS_Singleton
<1>5. IsFiniteSet((DOMAIN done) \X (1..8))
  BY <1>2, <1>3, FS_Product
<1>6. QED
  BY <1>2, <1>4, <1>5, FS_Subset DEF FinitelyMuchLeft, BeginLeft, StagesLeft, LinesLeft, EndLeft

(* It is enough that nothing is added and that one thing goes.             *)
LEMMA StrikesOff ==
  ASSUME DOMAIN done' = DOMAIN done,
         \A p \in {"start", "load", "runner"} : BeginBefore(p)' => BeginBefore(p),
         \A t \in DOMAIN done, k \in 1..8 : StageBefore(t, k)' => StageBefore(t, k),
         LinesLeft' \subseteq LinesLeft,
         EndLeft' \subseteq EndLeft,
         \/ \E p \in {"start", "load", "runner"} : BeginBefore(p) /\ ~BeginBefore(p)'
         \/ \E t \in DOMAIN done, k \in 1..8 : StageBefore(t, k) /\ ~StageBefore(t, k)'
         \/ LinesLeft' # LinesLeft
         \/ EndLeft' # EndLeft
  PROVE  OnlyStrikesOff
<1>1. BeginLeft' \subseteq BeginLeft /\ StagesLeft' \subseteq StagesLeft
  BY DEF BeginLeft, StagesLeft
<1>2. ASSUME NEW p \in {"start", "load", "runner"}, BeginBefore(p), ~BeginBefore(p)'
      PROVE  BeginLeft' # BeginLeft
  BY <1>2 DEF BeginLeft
<1>3. ASSUME NEW t \in DOMAIN done, NEW k \in 1..8, StageBefore(t, k), ~StageBefore(t, k)'
      PROVE  StagesLeft' # StagesLeft
  <2>1. <<t, k>> \in StagesLeft /\ <<t, k>> \notin StagesLeft'
    BY <1>3 DEF StagesLeft
  <2>2. QED
    BY <2>1
<1>4. QED
  BY <1>1, <1>2, <1>3 DEF OnlyStrikesOff, AllLeft

(* What a step does to the place of the program, to the number of the test *)
(* and to the input.                                                       *)
LEMMA StepsOn ==
  ASSUME IInv, WithinInput, Program
  PROVE  /\ stdin' = stdin /\ DOMAIN done' = DOMAIN done
         /\ read' \in Int /\ read' >= read
         /\ \/ pc = "start" /\ pc' \in {"ok", "load"} /\ n' = n
            \/ pc = "load" /\ pc' \in {"error", "runner"} /\ n' = n
            \/ pc = "runner" /\ pc' \in {"error", "panic", "test"} /\ n' = n
            \/ pc = "test" /\ pc' = "ok" /\ n' = n
            \/ n \in DOMAIN done /\ PlaceInTest \in 1..8 /\ PlaceInTest' > PlaceInTest /\ n' = n
                 /\ ~Beginning'
            \/ n \in DOMAIN done /\ PlaceInTest \in 1..8 /\ n' = n + 1 /\ pc' = "test"
            \/ pc = "ask" /\ pc' = "ask" /\ n' = n /\ read < Len(stdin.lines) /\ read' > read
<1>0. read \in Int /\ DOMAIN done = 1 .. Len(config.tests) /\ \A m, v : DOMAIN [done EXCEPT ![m] = v] = DOMAIN done
  BY DEF WithinInput, IInv, Shape
<1> USE <1>0
<1>1. CASE Start \/ Load \/ NewRunner \/ AllTestsDone
  BY <1>1 DEF Start, Load, NewRunner, Follows, AllTestsDone, userVars
<1>2. CASE Prepare \/ GetHosts \/ Plan \/ PrepareRunner \/ ExecuteTest \/ CheckForErrors
  <2>1. /\ n' = n /\ read' = read /\ stdin' = stdin /\ DOMAIN done' = DOMAIN done
        /\ \/ pc = "test" /\ pc' \in {"hosts", "panic"}
           \/ pc = "hosts" /\ pc' \in {"plan", "panic", "error", "hung"}
           \/ pc = "plan" /\ pc' \in {"ok", "prepare", "ask", "panic"}
           \/ pc = "prepare" /\ pc' \in {"execute", "panic", "error"}
           \/ pc = "execute" /\ pc' \in {"check", "panic", "hung"}
           \/ pc = "check" /\ pc' \in {"error", "cleanup"}
        /\ pc = "test" => n <= Len(config.tests)
    BY <1>2 DEF Prepare, GetHosts, Plan, PrepareRunner, ExecuteTest, CheckForErrors, Follows, Mark,
           userVars
  <2>2. n \in DOMAIN done
    BY <2>1 DEF IInv, Shape, Stages
  <2>3. PlaceInTest \in 1..8 /\ PlaceInTest' > PlaceInTest /\ ~Beginning'
    BY <2>1 DEF PlaceInTest, Beginning
  <2>4. QED
    BY <2>1, <2>2, <2>3
<1>3. CASE AnswerYes \/ AnswerNo \/ AskAgain \/ EndOfInput
  <2>1. /\ n' = n /\ read' \in Int /\ read' >= read /\ stdin' = stdin /\ DOMAIN done' = DOMAIN done
        /\ pc = "ask"
        /\ \/ pc' \in {"prepare", "error"}
           \/ pc' = "ask" /\ read < Len(stdin.lines) /\ read' > read
    BY <1>3 DEF AnswerYes, AnswerNo, AskAgain, EndOfInput, Fetch, Mark, userVars
  <2>2. n \in DOMAIN done
    BY <2>1 DEF IInv, Shape
  <2>3. pc' # "ask" => PlaceInTest \in 1..8 /\ PlaceInTest' > PlaceInTest /\ ~Beginning'
    BY <2>1 DEF PlaceInTest, Beginning
  <2>4. QED
    BY <2>1, <2>2, <2>3
<1>4. CASE PrepareFails \/ Cleanup \/ NoCleanup
  <2>1. /\ read' = read /\ stdin' = stdin /\ DOMAIN done' = DOMAIN done
        /\ \/ pc = "test" /\ n <= Len(config.tests)
           \/ pc = "cleanup"
        /\ \/ n' = n /\ pc' = "error"
           \/ n' = n + 1 /\ pc' = "test"
    BY <1>4 DEF PrepareFails, Cleanup, NoCleanup, Mark, userVars
  <2>2. n \in DOMAIN done
    BY <2>1 DEF IInv, Shape, Stages
  <2>3. PlaceInTest \in 1..8 /\ (pc' = "error" => PlaceInTest' > PlaceInTest /\ ~Beginning')
    BY <2>1 DEF PlaceInTest, Beginning
  <2>4. QED
    BY <2>1, <2>2, <2>3
<1>5. QED
  BY <1>1, <1>2, <1>3, <1>4 DEF Program

LEMMA ProgramStrikesOff ==
  ASSUME IInv, WithinInput, Program
  PROVE  OnlyStrikesOff
<1>0. /\ stdin' = stdin /\ DOMAIN done' = DOMAIN done
      /\ read \in Nat /\ Len(stdin.lines) \in Nat /\ read' \in Int /\ read' >= read
      /\ n \in Nat /\ \A t \in DOMAIN done : t \in Nat
  BY StepsOn DEF WithinInput, IInv, Shape
<1>1. LinesLeft' \subseteq LinesLeft
  BY <1>0 DEF LinesLeft
<1>2. CASE \/ pc = "start" /\ pc' \in {"ok", "load"} /\ n' = n
           \/ pc = "load" /\ pc' \in {"error", "runner"} /\ n' = n
           \/ pc = "runner" /\ pc' \in {"error", "panic", "test"} /\ n' = n
  <2>1. \A p \in {"start", "load", "runner"} : BeginBefore(p)' => BeginBefore(p)
    BY <1>2 DEF BeginBefore
  <2>2. \E p \in {"start", "load", "runner"} : BeginBefore(p) /\ ~BeginBefore(p)'
    <3>1. CASE pc = "start"
      BY <1>2, <3>1 DEF BeginBefore
    <3>2. CASE pc = "load"
      BY <1>2, <3>2 DEF BeginBefore
    <3>3. CASE pc = "runner"
      BY <1>2, <3>3 DEF BeginBefore
    <3>4. QED
      BY <1>2, <3>1, <3>2, <3>3
  <2>3. /\ \A t \in DOMAIN done, k \in 1..8 : StageBefore(t, k)' => StageBefore(t, k)
        /\ EndLeft' \subseteq EndLeft
    BY <1>2 DEF StageBefore, Beginning, EndLeft, Exits
  <2>4. QED
    BY <1>0, <1>1, <2>1, <2>2, <2>3, StrikesOff
<1>3. CASE pc = "test" /\ pc' = "ok" /\ n' = n
  <2>1. PlaceInTest = 1 /\ PlaceInTest' = 9
    BY <1>3 DEF PlaceInTest
  <2>2. /\ \A p \in {"start", "load", "runner"} : BeginBefore(p)' => BeginBefore(p)
        /\ \A t \in DOMAIN done, k \in 1..8 : StageBefore(t, k)' => StageBefore(t, k)
    BY <1>3, <2>1 DEF BeginBefore, StageBefore, Beginning
  <2>3. EndLeft = {"end"} /\ EndLeft' = {}
    BY <1>3 DEF EndLeft, Exits
  <2>4. QED
    BY <1>0, <1>1, <2>2, <2>3, StrikesOff
<1>4. CASE /\ n \in DOMAIN done /\ PlaceInTest \in 1..8
           /\ \/ PlaceInTest' > PlaceInTest /\ n' = n /\ ~Beginning'
              \/ n' = n + 1 /\ pc' = "test"
  <2>1. PlaceInTest' \in 1..9 /\ ~Beginning' /\ (pc' = "test" => PlaceInTest' = 1)
    BY <1>4 DEF PlaceInTest, Beginning
  <2>2. ~Beginning /\ pc \notin Exits \union {"hung"}
    BY <1>4 DEF PlaceInTest, Beginning, Exits
  <2>3. \A t \in DOMAIN done, k \in 1..8 : StageBefore(t, k)' => StageBefore(t, k)
    BY <1>0, <1>4, <2>1 DEF StageBefore
  <2>4. /\ \A p \in {"start", "load", "runner"} : BeginBefore(p)' => BeginBefore(p)
        /\ EndLeft' \subseteq EndLeft
    BY <2>1, <2>2 DEF BeginBefore, Beginning, EndLeft
  <2>5. \E t \in DOMAIN done, k \in 1..8 : StageBefore(t, k) /\ ~StageBefore(t, k)'
    <3>1. PICK t \in DOMAIN done : t = n
      BY <1>4
    <3>2. PICK k \in 1..8 : k = PlaceInTest
      BY <1>4
    <3>3. StageBefore(t, k) /\ ~StageBefore(t, k)'
      BY <1>0, <1>4, <2>1, <3>1, <3>2 DEF StageBefore
    <3>4. QED
      BY <3>3
  <2>6. QED
    BY <1>0, <1>1, <2>3, <2>4, <2>5, StrikesOff
<1>5. CASE pc = "ask" /\ pc' = "ask" /\ n' = n /\ read < Len(stdin.lines) /\ read' > read
  <2>1. /\ \A p \in {"start", "load", "runner"} : BeginBefore(p)' => BeginBefore(p)
        /\ \A t \in DOMAIN done, k \in 1..8 : StageBefore(t, k)' => StageBefore(t, k)
        /\ EndLeft' \subseteq EndLeft
    BY <1>5 DEF BeginBefore, StageBefore, PlaceInTest, Beginning, EndLeft
  <2>2. PICK k \in 1..Len(stdin.lines) : k = read + 1
    BY <1>0, <1>5
  <2>3. k \in LinesLeft /\ k \notin LinesLeft'
    BY <1>0, <1>5, <2>2 DEF LinesLeft
  <2>4. QED
    BY <1>0, <1>1, <2>1, <2>3, StrikesOff
<1>6. QED
  BY <1>2, <1>3, <1>4, <1>5, StepsOn

(***************************************************************************)
(* Finitely much is left to do, every step of the program adds to none of  *)
(* it and strikes something off: however long the list of tests, whatever  *)
(* is skipped, and whatever the user types, run() is no endless loop.      *)
(***************************************************************************)
THEOREM TakesFinitelyManySteps == Spec => []FinitelyMuchLeft /\ [][OnlyStrikesOff]_vars
<1>1. Consent => WithinInput
  BY DEF Consent
<1>2. IInv /\ WithinInput => FinitelyMuchLeft
  BY AlwaysFinite DEF IInv
<1>3. IInv /\ WithinInput /\ [Next]_vars => [OnlyStrikesOff]_vars
  BY ProgramStrikesOff DEF Next, Terminated
<1>4. QED
  BY <1>1, <1>2, <1>3, AlwaysConsent, AlwaysIInv, PTL DEF Spec
=============================================================================
