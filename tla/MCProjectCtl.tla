----------------------------- MODULE MCProjectCtl -----------------------------
(* Machines for ProjectCtl: a checkout with another one inside, both with or *)
(* without a virtual environment; Python on PATH under two names.            *)
EXTENDS ProjectCtl

Outer == <<"repo">>
Inner == <<"repo", "vendored">>
CheckoutFiles(root) == {<<root, leaf>> : leaf \in Required}
Interpreters ==
  {<<Ml(Outer), "python.exe">>, <<Ml(Inner), "python">>, <<Path, "python">>,
   <<Path, "python3">>, <<Outer, "python">>}

\* Checkouts: none, the outer one, both; or an inner one that is not complete.
Checkouts ==
  {{}, CheckoutFiles(Outer), CheckoutFiles(Outer) \cup CheckoutFiles(Inner),
   CheckoutFiles(Outer) \cup {<<Inner, "go.mod">>}}

Set(keys) == [key \in keys |-> <<"elsewhere">>]

\* At most two interpreters on the machine.
MachinesIn(cwds, names) ==
  {World(cwd, name, checkout \cup pythons, Set(keys)) :
     cwd \in cwds, name \in names, checkout \in Checkouts,
     pythons \in {ps \in SUBSET Interpreters : Cardinality(ps) <= 2},
     keys \in SUBSET {"PYTHONPATH", "PythonPath"}}

\* The variable unset, absolute, or a name that is found in the root.
Machines ==
  MachinesIn({Inner, <<"home">>}, {Blank, Absolute(Path, "python3")})
    \cup MachinesIn({Outer}, {Blank, Relative("python"), Bare("python")})

CommandLines == {<<>>} \cup {<<c>> : c \in Single \cup {"help", "verify-core", "other"}}
                  \cup {<<"help", "more">>}
=============================================================================
