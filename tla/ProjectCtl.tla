------------------------------ MODULE ProjectCtl ------------------------------
(***************************************************************************)
(* tools/projectctl: one command of the development tool. It finds the     *)
(* checkout it is in, selects a Python interpreter, and runs child         *)
(* processes one after the other, each in a directory and with an          *)
(* environment of its own. The integration suite, itself a child, looks for*)
(* the checkout and selects the interpreter of the ML service once more.   *)
(***************************************************************************)
EXTENDS SequencesExt

CONSTANTS
  Worlds,     \* where the tool may find itself, see World
  Arguments   \* command lines

VARIABLES
  world,      \* the machine around it; nothing here changes it
  arguments,  \* os.Args[1:]
  phase,      \* "start", "run", "child" or "exit"
  plan,       \* steps still to run
  ran,        \* children launched so far: step, interpreter, environment, result
  outcome     \* "none", "passed", "failed" or "interrupted"

vars == <<world, arguments, phase, plan, ran, outcome>>

\* Directories are paths, sequences of names; a file is a directory and a name.
Path == <<"usr", "bin">>
Ml(root) == Append(root, "ml-service")
Source(root) == Append(Ml(root), "src")

\* What a command is called by. Blank stands for an unset or blank variable.
Blank == [form |-> "blank"]
Absolute(dir, leaf) == [form |-> "absolute", dir |-> dir, leaf |-> leaf]
Relative(leaf) == [form |-> "relative", leaf |-> leaf]
Bare(leaf) == [form |-> "bare", leaf |-> leaf]

\* cwd: the working directory; configured: GROUNDEDSEARCH_PYTHON;
\* files: the regular files that exist; environ: os.Environ().
World(cwd, configured, files, environ) ==
  [cwd |-> cwd, configured |-> configured, files |-> files, environ |-> environ]

(* The working directory is a path, and nobody has put the search API of    *)
(* another checkout into the directories the integration suite searches     *)
(* before it comes to the root of its own.                                  *)
ASSUME SuiteHoldsNoCheckout ==
  \A machine \in Worlds :
    /\ machine.cwd \in Seq(STRING)
    /\ \A file \in machine.files : \A below \in {<<"tests">>, <<"tests", "integration">>} :
         file[2] = "go.mod" => <<file[1] \o below, "go.mod">> \notin machine.files

-----------------------------------------------------------------------------
Required == {"go.mod", "pyproject.toml", "ml-service-v1.yaml"}

\* isRepositoryRoot
IsRepositoryRoot(dir) == \A leaf \in Required : <<dir, leaf>> \in world.files

\* findRepositoryRoot: the nearest directory upwards that is one.
Roots == {dir \in Prefixes(world.cwd) : IsRepositoryRoot(dir)}
Root == CHOOSE dir \in Roots : \A other \in Roots : Len(other) <= Len(dir)

\* os.Stat looks a relative or a bare name up in the working directory; a child
\* is started from its own directory (os/exec), a bare name found on PATH.
Stat(name) == IF name.form = "absolute" THEN <<name.dir, name.leaf>> ELSE <<world.cwd, name.leaf>>
Executed(name, dir) ==
  CASE name.form = "absolute" -> <<name.dir, name.leaf>>
    [] name.form = "relative" -> <<dir, name.leaf>>
    [] name.form = "bare" -> <<Path, name.leaf>>

\* Mutant: the root is left out when the paths are joined.
Candidates_Relative(root) ==
  <<Relative("python.exe"), Relative("python"), Absolute(Path, "python"), Absolute(Path, "python3")>>

\* The virtual environment, either way of laying it out, then PATH.
Candidates(root) ==
  <<Absolute(Ml(root), "python.exe"), Absolute(Ml(root), "python"),
    Absolute(Path, "python"), Absolute(Path, "python3")>>

\* selectPython. NoPython for its errors.
NoPython == Blank
FirstCandidate(root) ==
  LET found == {i \in 1..4 : Stat(Candidates(root)[i]) \in world.files}
  IN  IF found = {} THEN NoPython ELSE Candidates(root)[Min(found)]
SelectPython(root) ==
  IF world.configured = Blank THEN FirstCandidate(root)
  ELSE IF Stat(world.configured) \in world.files THEN world.configured ELSE NoPython

-----------------------------------------------------------------------------
\* strings.ToUpper on the names of variables that occur.
Upper(key) == IF key = "PythonPath" THEN "PYTHONPATH" ELSE key

\* Mutant: a value already set is kept.
SetEnvironment_Keep(environ, key, value) ==
  IF key \in DOMAIN environ THEN environ
  ELSE [k \in DOMAIN environ \cup {key} |-> IF k = key THEN value ELSE environ[k]]

\* setEnvironment: every spelling of the key gives way.
SetEnvironment(environ, key, value) ==
  LET kept == {k \in DOMAIN environ : Upper(k) # Upper(key)}
  IN  [k \in kept \cup {key} |-> IF k = key THEN value ELSE environ[k]]

PythonEnvironment == SetEnvironment(world.environ, "PYTHONPATH", Source(Root))
IntegrationEnvironment ==
  SetEnvironment(SetEnvironment(world.environ, "GROUNDEDSEARCH_PYTHON", SelectPython(Root)),
                 "PYTHONPATH", Source(Root))

(* The integration suite runs in a directory of the checkout. Its own       *)
(* findRepositoryRoot asks for one file only, from there upwards; its       *)
(* selectPython takes the variable unchecked and has the tool's candidates; *)
(* it gives the ML service the environment it has itself, PYTHONPATH set    *)
(* once more.                                                               *)
SuiteDirectory == Root \o <<"tests", "integration">>
SuiteRoots == {dir \in Prefixes(SuiteDirectory) : <<dir, "go.mod">> \in world.files}
SuiteRoot == CHOOSE dir \in SuiteRoots : \A other \in SuiteRoots : Len(other) <= Len(dir)
SuitePython(environ) ==
  IF "GROUNDEDSEARCH_PYTHON" \in DOMAIN environ THEN environ["GROUNDEDSEARCH_PYTHON"]
  ELSE FirstCandidate(SuiteRoot)
SuiteEnvironment(environ) == SetEnvironment(environ, "PYTHONPATH", Source(SuiteRoot))

\* The methods of application: the file run as Python, by the suite in the case of
\* integration, and that process's environment.
NoInterpreter == <<>>
Child(step) ==
  LET python == SelectPython(Root)
      environ == IF step \in {"contracts", "test-python"} THEN PythonEnvironment
                 ELSE IF step = "integration" THEN SuiteEnvironment(IntegrationEnvironment)
                 ELSE world.environ
  IN  [step |-> step, environ |-> environ, result |-> "running",
       interpreter |-> CASE step = "contracts" -> Executed(python, Root)
                         [] step = "test-python" -> Executed(python, Ml(Root))
                         [] step = "integration" -> Executed(SuitePython(IntegrationEnvironment), Ml(SuiteRoot))
                         [] OTHER -> NoInterpreter]

Single == {"test-go", "test-python", "contracts", "build-go", "integration"}

\* execute, and the order of verifyCore.
Plan(command) ==
  IF command = "help" THEN <<>>
  ELSE IF command \in Single THEN <<command>>
  ELSE <<"contracts", "test-go", "test-python", "build-go", "integration">>

-----------------------------------------------------------------------------
Init ==
  /\ world \in Worlds /\ arguments \in Arguments
  /\ phase = "start" /\ plan = <<>> /\ ran = <<>>
  /\ outcome = "none"

Exit(result) == phase' = "exit" /\ outcome' = result

Command == IF arguments = <<>> THEN "help" ELSE Head(arguments)
Understood == Len(arguments) <= 1 /\ Command \in Single \cup {"help", "verify-core"}

(* run, up to its call of execute: the checkout, the interpreter and the   *)
(* arguments, whatever the command needs of them.                          *)
Begin ==
  /\ phase = "start"
  /\ IF Roots # {} /\ SelectPython(Root) # NoPython /\ Understood
     THEN phase' = "run" /\ plan' = Plan(Command) /\ UNCHANGED outcome
     ELSE Exit("failed") /\ UNCHANGED plan
  /\ UNCHANGED <<world, arguments, ran>>

(* The next step starts its child, or fails to make its build directory.   *)
Launch ==
  /\ phase = "run" /\ plan # <<>>
  /\ \/ phase' = "child" /\ ran' = Append(ran, Child(Head(plan))) /\ UNCHANGED outcome
     \/ Head(plan) = "build-go" /\ Exit("failed") /\ UNCHANGED ran
  /\ UNCHANGED <<world, arguments, plan>>

\* Mutant: a step that failed is reported, and the next one run.
Proceed_Always(result) == phase' = "run" /\ plan' = Tail(plan) /\ UNCHANGED outcome

\* verifyCore goes on after a success only.
Proceed(result) ==
  IF result = "passed" THEN phase' = "run" /\ plan' = Tail(plan) /\ UNCHANGED outcome
  ELSE Exit("failed") /\ UNCHANGED plan

(* execRunner.Run returns. A Python that is not there cannot succeed.      *)
ChildEnds(result) ==
  /\ phase = "child"
  /\ result = "passed" => Last(ran).interpreter \in world.files \cup {NoInterpreter}
  /\ ran' = [ran EXCEPT ![Len(ran)].result = result]
  /\ Proceed(result)
  /\ UNCHANGED <<world, arguments>>

Finish ==
  /\ phase = "run" /\ plan = <<>> /\ Exit("passed")
  /\ UNCHANGED <<world, arguments, plan, ran>>

\* A signal ends the tool and its child.
Interrupt ==
  /\ phase # "exit" /\ Exit("interrupted")
  /\ UNCHANGED <<world, arguments, plan, ran>>

Next ==
  \/ Begin \/ Launch \/ Finish \/ Interrupt
  \/ \E result \in {"passed", "failed"} : ChildEnds(result)

Spec == Init /\ [][Next]_vars

-----------------------------------------------------------------------------
(* Success is reported only of a command all of whose steps ran, in order,  *)
(* and succeeded; verify-core runs nothing after a failure.                 *)
PassedIsEarned ==
  /\ \A i \in 1..(Len(ran) - 1) : ran[i].result = "passed"
  /\ outcome = "passed" => /\ \A i \in DOMAIN ran : ran[i].result = "passed"
                           /\ [i \in DOMAIN ran |-> ran[i].step] = Plan(Command)

(* Every Python the tool starts, and the one its integration suite starts   *)
(* from another process and directory, imports the code of this checkout,   *)
(* whatever PYTHONPATH the user has, under any spelling the platform takes. *)
ImportsCheckout ==
  \A i \in DOMAIN ran : ran[i].interpreter # NoInterpreter =>
    \E key \in DOMAIN ran[i].environ :
      /\ Upper(key) = "PYTHONPATH" /\ ran[i].environ[key] = Source(Root)
      /\ \A other \in DOMAIN ran[i].environ : Upper(other) = Upper(key) => other = key

(* The interpreter selectPython found to be there is the one that runs, in  *)
(* the tool's own steps and in the suite that is handed its name. A relative*)
(* or bare GROUNDEDSEARCH_PYTHON is excepted: it is checked from the working*)
(* directory and run from another, where it may name a different file.      *)
SelectedIsRun ==
  (world.configured = Blank \/ world.configured.form = "absolute") =>
    \A i \in DOMAIN ran :
      ran[i].interpreter \in {NoInterpreter, Stat(SelectPython(Root))}
=============================================================================
