--------------------------- MODULE ProjectCtlProofs ---------------------------
(***************************************************************************)
(* Proofs about ProjectCtl for any machines and any command lines.         *)
(***************************************************************************)
EXTENDS ProjectCtl, WellFoundedInduction, TLAPS

-----------------------------------------------------------------------------
(* The operators: what is found, what is set, what is started.             *)

Found(root) == {i \in 1..4 : Stat(Candidates(root)[i]) \in world.files}

\* The first of the candidates that exist is one of them.
LEMMA FirstIsFound == ASSUME NEW root, Found(root) # {} PROVE Min(Found(root)) \in Found(root)
<1>1. \E i \in Found(root) : \A j \in Found(root) : i <= j
  BY DEF Found
<1> QED
  BY <1>1 DEF Min

\* What is found without the variable is a full path, so a child runs the file
\* that was looked at, whatever its directory.
LEMMA CandidateIsAbsolute ==
  ASSUME NEW root, NEW dir, FirstCandidate(root) # NoPython
  PROVE  Executed(FirstCandidate(root), dir) = Stat(FirstCandidate(root))
<1>1. Found(root) # {} /\ FirstCandidate(root) = Candidates(root)[Min(Found(root))]
  BY DEF FirstCandidate, Found
<1>2. Min(Found(root)) \in 1..4
  BY <1>1, FirstIsFound DEF Found
<1>3. \A i \in 1..4 : Candidates(root)[i].form = "absolute"
  BY DEF Candidates, Absolute
<1> QED
  BY <1>1, <1>2, <1>3 DEF Executed, Stat

\* setEnvironment leaves exactly one spelling of the key, with the value.
LEMMA SetIsTheOnly ==
  ASSUME NEW environ, NEW key, NEW value
  PROVE  LET new == SetEnvironment(environ, key, value)
         IN  /\ key \in DOMAIN new /\ new[key] = value
             /\ \A other \in DOMAIN new : Upper(other) = Upper(key) => other = key
BY DEF SetEnvironment

\* ... and the other keys keep their values.
LEMMA SetKeepsOthers ==
  ASSUME NEW environ, NEW key, NEW value, NEW other \in DOMAIN environ,
         Upper(other) # Upper(key)
  PROVE  LET new == SetEnvironment(environ, key, value)
         IN  other \in DOMAIN new /\ new[other] = environ[other]
BY DEF SetEnvironment

\* The suite runs the interpreter the tool selected.
LEMMA SuiteTakesSelected == SuitePython(IntegrationEnvironment) = SelectPython(Root)
<1> DEFINE first == SetEnvironment(world.environ, "GROUNDEDSEARCH_PYTHON", SelectPython(Root))
<1>1. /\ "GROUNDEDSEARCH_PYTHON" \in DOMAIN first
      /\ first["GROUNDEDSEARCH_PYTHON"] = SelectPython(Root)
  BY SetIsTheOnly
<1>2. Upper("GROUNDEDSEARCH_PYTHON") # Upper("PYTHONPATH")
  BY DEF Upper
<1>3. IntegrationEnvironment = SetEnvironment(first, "PYTHONPATH", Source(Root))
  BY DEF IntegrationEnvironment
<1> HIDE DEF first
<1>4. /\ "GROUNDEDSEARCH_PYTHON" \in DOMAIN IntegrationEnvironment
      /\ IntegrationEnvironment["GROUNDEDSEARCH_PYTHON"] = first["GROUNDEDSEARCH_PYTHON"]
  BY <1>1, <1>2, <1>3, SetKeepsOthers
<1> QED
  BY <1>1, <1>4 DEF SuitePython

\* The nearest checkout upwards is one: some prefix of a path is the longest.
LEMMA RootIsFound ==
  ASSUME world \in Worlds, Roots # {}
  PROVE  Root \in Roots /\ Root \in Seq(STRING)
<1> DEFINE end == Len(world.cwd)
           above == {k \in 0..end : SubSeq(world.cwd, 1, end - k) \in Roots}
<1>1. world.cwd \in Seq(STRING) /\ end \in Nat
  BY SuiteHoldsNoCheckout
<1>2. \A dir \in Roots : \E n \in 0..end : dir = SubSeq(world.cwd, 1, n)
  BY DEF Roots, Prefixes
<1>3. \A n \in 0..end : /\ Len(SubSeq(world.cwd, 1, n)) = n
                        /\ SubSeq(world.cwd, 1, n) \in Seq(STRING)
  BY <1>1
<1>4. PICK least \in above : \A k \in above : ~(k < least)
  <2>1. \A n \in 0..end : end - n \in 0..end /\ end - (end - n) = n
    BY <1>1
  <2>2. above # {} /\ above \subseteq Nat
    <3>1. PICK n \in 0..end : SubSeq(world.cwd, 1, n) \in Roots
      BY <1>2
    <3>2. end - n \in above
      BY <2>1, <3>1
    <3>3. \A k \in above : k \in Nat
      BY <1>1
    <3> HIDE DEF above
    <3> QED
      BY <3>2, <3>3
  <2>3. \E least \in above : \A k \in above : ~(<<k, least>> \in OpToRel(<, Nat))
    <3> HIDE DEF above
    <3> QED
      BY <2>2, NatLessThanWellFounded, WFMin
  <2>4. PICK least \in above : \A k \in above : ~(<<k, least>> \in OpToRel(<, Nat))
    BY <2>3
  <2>5. \A k \in above : ~(k < least)
    BY <2>2, <2>4 DEF OpToRel
  <2> QED
    BY <2>5
<1>5. \A n \in 0..end : SubSeq(world.cwd, 1, n) \in Roots => n <= end - least
  <2> SUFFICES ASSUME NEW n \in 0..end, SubSeq(world.cwd, 1, n) \in Roots
               PROVE  n <= end - least
    OBVIOUS
  <2>1. end - n \in 0..end /\ end - (end - n) = n
    BY <1>1
  <2>2. end - n \in above
    BY <2>1
  <2>3. ~(end - n < least) /\ least \in 0..end
    BY <1>4, <2>2
  <2> HIDE DEF above
  <2> QED
    BY <1>1, <2>3
<1>6. \A other \in Roots : Len(other) <= end - least
  BY <1>2, <1>3, <1>5
<1>7. SubSeq(world.cwd, 1, end - least) \in Roots /\ end - least \in 0..end
  BY <1>1, <1>4
<1>8. \E dir \in Roots : \A other \in Roots : Len(other) <= Len(dir)
  BY <1>3, <1>6, <1>7
<1> QED
  BY <1>2, <1>3, <1>8 DEF Root

\* From its own directory the suite finds the checkout that started it.
LEMMA SuiteFindsRoot == ASSUME world \in Worlds, Roots # {} PROVE SuiteRoot = Root
<1> DEFINE n == Len(Root)
           names == STRING \cup {"tests", "integration"}
<1>1. Root \in Seq(STRING) /\ <<Root, "go.mod">> \in world.files
  BY RootIsFound DEF Roots, IsRepositoryRoot, Required
<1>2. SuiteDirectory \in Seq(names) /\ Len(SuiteDirectory) = n + 2
  <2>1. Root \in Seq(names) /\ <<"tests", "integration">> \in Seq(names)
    BY <1>1
  <2> HIDE DEF names
  <2> QED
    BY <2>1 DEF SuiteDirectory
<1>3. Prefixes(SuiteDirectory) = {SubSeq(SuiteDirectory, 1, l) : l \in 0..(n + 2)}
  BY <1>2 DEF Prefixes
<1>4. /\ SubSeq(SuiteDirectory, 1, n) = Root
      /\ SubSeq(SuiteDirectory, 1, n + 1) = Root \o <<"tests">>
      /\ SubSeq(SuiteDirectory, 1, n + 2) = Root \o <<"tests", "integration">>
  BY <1>1 DEF SuiteDirectory
<1>5. /\ <<Root \o <<"tests">>, "go.mod">> \notin world.files
      /\ <<Root \o <<"tests", "integration">>, "go.mod">> \notin world.files
  BY <1>1, SuiteHoldsNoCheckout
<1>6. Root \in SuiteRoots
  <2>1. n \in 0..(n + 2)
    BY <1>1
  <2>2. Root \in Prefixes(SuiteDirectory)
    BY <1>3, <1>4, <2>1
  <2> QED
    BY <1>1, <2>2 DEF SuiteRoots
<1>7. \A dir \in SuiteRoots : dir = Root \/ Len(dir) < n
  <2> SUFFICES ASSUME NEW l \in 0..(n + 2),
                      <<SubSeq(SuiteDirectory, 1, l), "go.mod">> \in world.files
               PROVE  l <= n /\ Len(SubSeq(SuiteDirectory, 1, l)) = l
    BY <1>1, <1>3, <1>4 DEF SuiteRoots
  <2>1. l # n + 1 /\ l # n + 2
    BY <1>4, <1>5
  <2> QED
    BY <1>1, <1>2, <2>1
<1> QED
  BY <1>1, <1>6, <1>7 DEF SuiteRoot

\* A child has the step and the environment it was started with, to the end.
PythonSteps == {"contracts", "test-python", "integration"}

LEMMA ChildFields ==
  ASSUME NEW step \in Single
  PROVE  /\ Child(step).step = step
         /\ step \notin PythonSteps => Child(step).interpreter = NoInterpreter
         /\ step \in {"contracts", "test-python"} => Child(step).environ = PythonEnvironment
         /\ step = "integration" => Child(step).environ = SuiteEnvironment(IntegrationEnvironment)
         /\ step \in PythonSteps => \E dir : Child(step).interpreter = Executed(SelectPython(Root), dir)
<1>1. Child(step).step = step
  BY DEF Child
<1>2. CASE step \notin PythonSteps
  BY <1>1, <1>2 DEF Child, PythonSteps
<1>3. CASE step = "contracts"
  BY <1>1, <1>3 DEF Child, PythonSteps
<1>4. CASE step = "test-python"
  BY <1>1, <1>4 DEF Child, PythonSteps
<1>5. CASE step = "integration"
  BY <1>1, <1>5, SuiteTakesSelected DEF Child, PythonSteps
<1> QED
  BY <1>2, <1>3, <1>4, <1>5 DEF PythonSteps

-----------------------------------------------------------------------------
(* The inductive invariant.                                                *)

Results == {"running", "passed", "failed"}
Children == {[Child(step) EXCEPT !.result = result] : step \in Single, result \in Results}

\* The steps ran so far, and those still planned, are the command's, in order.
\* The step of a child that runs is the head of plan until it has ended.
Underway == IF phase = "child" THEN Len(ran) - 1 ELSE Len(ran)
OnPlan ==
  /\ \A i \in DOMAIN ran : i \in DOMAIN Plan(Command) /\ ran[i].step = Plan(Command)[i]
  /\ phase \in {"run", "child"} =>
       /\ Len(Plan(Command)) = Underway + Len(plan)
       /\ \A i \in DOMAIN plan : plan[i] = Plan(Command)[Underway + i]

CtlInv ==
  /\ world \in Worlds
  /\ phase \in {"start", "run", "child", "exit"}
  /\ plan \in Seq(Single) /\ ran \in Seq(Children)
  /\ phase = "start" => ran = <<>>
  /\ phase = "child" => ran # <<>> /\ plan # <<>>
  /\ phase # "exit" => outcome = "none"
  /\ ran # <<>> \/ phase \in {"run", "child"} =>
       Roots # {} /\ SelectPython(Root) # NoPython
  /\ \A i \in 1..(Len(ran) - 1) : ran[i].result = "passed"
  /\ phase = "run" \/ outcome = "passed" => \A i \in DOMAIN ran : ran[i].result = "passed"
  /\ outcome = "passed" => Len(ran) = Len(Plan(Command))
  /\ OnPlan

LEMMA PlanIsSteps == ASSUME NEW command PROVE Plan(command) \in Seq(Single)
<1>1. <<>> \in Seq(Single)
  OBVIOUS
<1>2. command \in Single => <<command>> \in Seq(Single)
  OBVIOUS
<1>3. <<"contracts", "test-go", "test-python", "build-go", "integration">> \in Seq(Single)
  BY DEF Single
<1> QED
  BY <1>1, <1>2, <1>3 DEF Plan

LEMMA ChildrenFields ==
  ASSUME NEW child \in Children
  PROVE  /\ child.step \in Single
         /\ child.environ = Child(child.step).environ
         /\ child.interpreter = Child(child.step).interpreter
<1>1. PICK step \in Single, result \in Results : child = [Child(step) EXCEPT !.result = result]
  BY DEF Children
<1>2. Child(step).step = step
  BY ChildFields
<1> QED
  BY <1>1, <1>2 DEF Child

\* The child that runs is one of Children, and stays one when it ends.
LEMMA ChildrenKept ==
  ASSUME NEW step \in Single PROVE Child(step) \in Children
<1>1. Child(step) = [Child(step) EXCEPT !.result = "running"]
  BY DEF Child
<1> QED
  BY <1>1 DEF Children, Results

LEMMA ChildrenEnd ==
  ASSUME NEW child \in Children, NEW result \in Results
  PROVE  /\ [child EXCEPT !.result = result] \in Children
         /\ [child EXCEPT !.result = result].result = result
         /\ [child EXCEPT !.result = result].step = child.step
<1>1. PICK step \in Single, before \in Results : child = [Child(step) EXCEPT !.result = before]
  BY DEF Children
<1>2. [child EXCEPT !.result = result] = [Child(step) EXCEPT !.result = result]
  BY <1>1 DEF Child
<1> QED
  BY <1>1, <1>2 DEF Children, Child

LEMMA ReplacedOne ==
  ASSUME NEW S, NEW s \in Seq(S), NEW n \in 1..Len(s), NEW e \in S
  PROVE  [s EXCEPT ![n] = e] \in Seq(S) /\ Len([s EXCEPT ![n] = e]) = Len(s)
OBVIOUS

LEMMA InitInv == Init => CtlInv
BY DEF Init, CtlInv, OnPlan

LEMMA StepInv == CtlInv /\ [Next]_vars => CtlInv'
<1> SUFFICES ASSUME CtlInv, [Next]_vars PROVE CtlInv'
  OBVIOUS
<1>1. world' = world /\ arguments' = arguments
  BY DEF Next, vars, Begin, Launch, ChildEnds, Finish, Interrupt
<1>2. /\ Children' = Children /\ Plan(Command)' = Plan(Command)
      /\ SelectPython(Root)' = SelectPython(Root) /\ Roots' = Roots /\ world' \in Worlds
  <2>1. Root' = Root
    BY <1>1 DEF Root, Roots, IsRepositoryRoot
  <2>2. Roots' = Roots /\ world' \in Worlds
    BY <1>1 DEF Roots, IsRepositoryRoot, CtlInv
  <2>3. SelectPython(Root)' = SelectPython(Root)
    BY <1>1, <2>1 DEF SelectPython, FirstCandidate, Candidates, Stat
  <2>4. \A step \in Single : Child(step)' = Child(step)
    BY <1>1, <2>1, <2>3 DEF Child, PythonEnvironment, IntegrationEnvironment, SetEnvironment,
       SuitePython, SuiteEnvironment, SuiteRoot, SuiteRoots, SuiteDirectory,
       FirstCandidate, Candidates, Stat, Executed
  <2>5. Children' = Children
    BY <2>4 DEF Children
  <2>6. Plan(Command)' = Plan(Command)
    BY <1>1 DEF Plan, Command
  <2> QED
    BY <2>3, <2>5, <2>6, <2>2
<1>3. Plan(Command) \in Seq(Single)
  BY PlanIsSteps
<1>4. CASE Begin
  <2>1. ran = <<>> /\ ran' = <<>>
    BY <1>4 DEF Begin, CtlInv
  <2> QED
    BY <1>2, <1>3, <1>4, <2>1 DEF Begin, Exit, CtlInv, OnPlan, Underway
<1>5. CASE Launch
  <2>1. Head(plan) \in Single /\ Head(plan) = plan[1] /\ Len(plan) \in Nat \ {0}
    BY <1>5 DEF Launch, CtlInv
  <2>2. CASE phase' = "exit"
    BY <1>2, <1>5, <2>2 DEF Launch, Exit, CtlInv, OnPlan, Underway
  <2>3. CASE phase' = "child"
    <3>1. /\ phase = "run" /\ ran' = Append(ran, Child(Head(plan))) /\ plan' = plan
          /\ outcome' = outcome
      BY <1>5, <2>3 DEF Launch, Exit
    <3>2. Child(Head(plan)) \in Children /\ Child(Head(plan)).step = plan[1]
      BY <2>1, ChildrenKept, ChildFields
    <3>3. ran' \in Seq(Children) /\ Len(ran') = Len(ran) + 1 /\ ran' # <<>>
      BY <3>1, <3>2 DEF CtlInv
    <3>4. \A i \in DOMAIN ran' : IF i = Len(ran) + 1 THEN ran'[i] = Child(Head(plan))
                                 ELSE i \in DOMAIN ran /\ ran'[i] = ran[i]
      BY <3>1, <3>2 DEF CtlInv
    <3>5. Len(ran) + 1 \in DOMAIN Plan(Command) /\ plan[1] = Plan(Command)[Len(ran) + 1]
      BY <1>3, <2>1, <3>1 DEF CtlInv, OnPlan, Underway
    <3>6. OnPlan'
      <4>1. \A i \in DOMAIN ran' : /\ i \in DOMAIN Plan(Command)
                                   /\ ran'[i].step = Plan(Command)[i]
        BY <3>2, <3>4, <3>5 DEF CtlInv, OnPlan
      <4>2. Underway' = Underway
        BY <2>3, <3>1, <3>3 DEF Underway, CtlInv
      <4> QED
        BY <1>2, <2>3, <3>1, <4>1, <4>2 DEF CtlInv, OnPlan
    <3>7. \A i \in 1..(Len(ran') - 1) : ran'[i].result = "passed"
      BY <3>1, <3>3, <3>4 DEF CtlInv
    <3> QED
      BY <1>2, <2>1, <2>3, <3>1, <3>3, <3>6, <3>7 DEF CtlInv
  <2> QED
    BY <1>5, <2>2, <2>3 DEF Launch, Exit
<1>6. ASSUME NEW result \in {"passed", "failed"}, ChildEnds(result) PROVE CtlInv'
  <2>1. /\ phase = "child" /\ Len(ran) \in Nat \ {0} /\ Len(plan) \in Nat \ {0}
        /\ ran' = [ran EXCEPT ![Len(ran)].result = result] /\ outcome = "none"
    BY <1>6 DEF ChildEnds, CtlInv
  <2>2. ran[Len(ran)] \in Children /\ [ran[Len(ran)] EXCEPT !.result = result] \in Children
    <3>1. ran[Len(ran)] \in Children
      BY <2>1 DEF CtlInv
    <3> QED
      BY <3>1, ChildrenEnd DEF Results
  <2>3. ran' \in Seq(Children) /\ Len(ran') = Len(ran)
    <3>1. ran' = [ran EXCEPT ![Len(ran)] = [ran[Len(ran)] EXCEPT !.result = result]]
      BY <2>1
    <3>2. ran \in Seq(Children) /\ Len(ran) \in 1..Len(ran)
      BY <2>1 DEF CtlInv
    <3> QED
      BY <1>2, <2>2, <3>1, <3>2, ReplacedOne
  <2>4. \A i \in DOMAIN ran' :
          /\ i \in DOMAIN ran /\ ran'[i].step = ran[i].step
          /\ ran'[i].result = IF i = Len(ran) THEN result ELSE ran[i].result
    BY <2>1, <2>2, ChildrenEnd DEF CtlInv, Results
  <2>5. CASE result = "passed"
    <3>1. phase' = "run" /\ plan' = Tail(plan) /\ outcome' = outcome
      BY <1>6, <2>5 DEF ChildEnds, Proceed
    <3>2. OnPlan'
      BY <1>2, <1>3, <2>1, <2>3, <2>4, <3>1 DEF CtlInv, OnPlan, Underway
    <3> QED
      BY <1>2, <2>1, <2>3, <2>4, <2>5, <3>1, <3>2 DEF CtlInv
  <2>6. CASE result = "failed"
    <3>1. phase' = "exit" /\ plan' = plan /\ outcome' = "failed"
      BY <1>6, <2>6 DEF ChildEnds, Proceed, Exit
    <3> QED
      BY <1>2, <2>1, <2>3, <2>4, <3>1 DEF CtlInv, OnPlan
  <2> QED
    BY <2>5, <2>6
<1>7. CASE Finish
  BY <1>2, <1>7 DEF Finish, Exit, CtlInv, OnPlan, Underway
<1>8. CASE Interrupt
  BY <1>2, <1>8 DEF Interrupt, Exit, CtlInv, OnPlan, Underway
<1>9. CASE UNCHANGED vars
  BY <1>2, <1>9 DEF vars, CtlInv, OnPlan, Underway
<1> QED
  BY <1>4, <1>5, <1>6, <1>7, <1>8, <1>9 DEF Next

LEMMA Invariant == Spec => []CtlInv
BY InitInv, StepInv, PTL DEF Spec

-----------------------------------------------------------------------------
(* Whatever happens to a command, the steps it has run are the first ones   *)
(* of its plan, each after the success of the one before.                   *)
THEOREM StepsInOrder ==
  Spec => [](/\ \A i \in DOMAIN ran : /\ i \in DOMAIN Plan(Command)
                                     /\ ran[i].step = Plan(Command)[i]
             /\ \A i \in 1..(Len(ran) - 1) : ran[i].result = "passed")
<1>1. CtlInv => /\ \A i \in DOMAIN ran : /\ i \in DOMAIN Plan(Command)
                                        /\ ran[i].step = Plan(Command)[i]
                /\ \A i \in 1..(Len(ran) - 1) : ran[i].result = "passed"
  BY DEF CtlInv, OnPlan
<1> QED
  BY <1>1, Invariant, PTL

(* A command is reported as passed after all of its steps, in order, and    *)
(* each of them passed.                                                     *)
THEOREM SuccessIsEarned == Spec => []PassedIsEarned
<1>1. CtlInv => PassedIsEarned
  <2> SUFFICES ASSUME CtlInv, outcome = "passed"
               PROVE  [i \in DOMAIN ran |-> ran[i].step] = Plan(Command)
    BY DEF CtlInv, PassedIsEarned
  <2>1. Len(ran) = Len(Plan(Command)) /\ \A i \in DOMAIN ran : ran[i].step = Plan(Command)[i]
    BY DEF CtlInv, OnPlan
  <2>2. DOMAIN ran = DOMAIN Plan(Command)
    BY <2>1, PlanIsSteps DEF CtlInv
  <2>3. Plan(Command) = [i \in DOMAIN Plan(Command) |-> Plan(Command)[i]]
    BY PlanIsSteps
  <2> QED
    BY <2>1, <2>2, <2>3
<1> QED
  BY <1>1, Invariant, PTL

(* Every Python, of the tool and of its suite, imports this checkout.       *)
THEOREM PythonImportsCheckout == Spec => []ImportsCheckout
<1>1. CtlInv => ImportsCheckout
  <2> SUFFICES ASSUME CtlInv, NEW i \in DOMAIN ran, ran[i].interpreter # NoInterpreter
               PROVE  \E key \in DOMAIN ran[i].environ :
                        /\ Upper(key) = "PYTHONPATH" /\ ran[i].environ[key] = Source(Root)
                        /\ \A other \in DOMAIN ran[i].environ :
                             Upper(other) = Upper(key) => other = key
    BY DEF ImportsCheckout
  <2>1. ran[i] \in Children
    BY DEF CtlInv
  <2>2. ran[i].step \in PythonSteps
    BY <2>1, ChildrenFields, ChildFields
  <2>3. ran[i].environ \in {PythonEnvironment, SuiteEnvironment(IntegrationEnvironment)}
    BY <2>1, <2>2, ChildrenFields, ChildFields DEF PythonSteps
  <2>4. SuiteRoot = Root
    BY SuiteFindsRoot DEF CtlInv
  <2>5. PICK environ : ran[i].environ = SetEnvironment(environ, "PYTHONPATH", Source(Root))
    BY <2>3, <2>4 DEF PythonEnvironment, SuiteEnvironment
  <2>6. Upper("PYTHONPATH") = "PYTHONPATH"
    BY DEF Upper
  <2> QED
    BY <2>5, <2>6, SetIsTheOnly
<1> QED
  BY <1>1, Invariant, PTL

(* The interpreter that was found to be there is the one that runs.         *)
THEOREM FoundIsRun == Spec => []SelectedIsRun
<1>1. CtlInv => SelectedIsRun
  <2> SUFFICES ASSUME CtlInv, world.configured = Blank \/ world.configured.form = "absolute",
                      NEW i \in DOMAIN ran, ran[i].interpreter # NoInterpreter
               PROVE  ran[i].interpreter = Stat(SelectPython(Root))
    BY DEF SelectedIsRun
  <2>1. ran[i] \in Children /\ SelectPython(Root) # NoPython
    BY DEF CtlInv
  <2>2. PICK dir : ran[i].interpreter = Executed(SelectPython(Root), dir)
    BY <2>1, ChildrenFields, ChildFields
  <2>3. CASE world.configured = Blank
    BY <2>1, <2>2, <2>3, CandidateIsAbsolute DEF SelectPython
  <2>4. CASE world.configured # Blank
    BY <2>1, <2>2, <2>4 DEF SelectPython, Executed, Stat
  <2> QED
    BY <2>3, <2>4
<1> QED
  BY <1>1, Invariant, PTL
=============================================================================
