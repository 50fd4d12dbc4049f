----------------------------- MODULE Assignment -----------------------------
(***************************************************************************)
(* From an experiment's assignment to the toolsets its trials run under:   *)
(* toolset_for_arm (src/axor_wrap/experiment.py) and the compilation of    *)
(* manifests and policy it leads to (src/axor_wrap/compile.py).            *)
(*                                                                         *)
(* A runtime takes the planned trials one after the other and builds a     *)
(* toolset for each, which either follows the trial's arm or is refused.   *)
(* Where the assignment's manifests come from is the subject of            *)
(* ToolManifests, which extends this module.  Sensitive sources,           *)
(* consequence overrides and the forms the configuration takes for the     *)
(* kernel or a file are left out, and so are overrides by the caller.      *)
(***************************************************************************)
EXTENDS Integers, Sequences, SequencesExt

CONSTANTS
    Destination, \* what an allowlist may name
    Reference,   \* "$inputs.x"
    Absent,      \* a value that is not there
    recipient,   \* _DEFAULT_ALLOWLIST_ARG
    Conditions,  \* arms of an assignment: sequences of [id, enforcement, allowlist]
    Scenarios,   \* its scenarios: sequences of [name, inputs]
    Planned      \* its planned trials: sequences of [scenario, arm]

ASSUME ValuesDiffer ==
    /\ Destination \cap Reference = {}
    /\ Absent \notin Destination \cup Reference \cup {"on", "off"}

\* An input is a list, or a single value, of destinations.
ASSUME AssignmentConfig ==
    /\ \A arms \in Conditions :
          /\ arms \in Seq([id : STRING, enforcement : {"on", "off", Absent},
                           allowlist : Seq(Destination \cup Reference)])
          /\ Absent \notin ToSet(arms)
    /\ \A scenarios \in Scenarios :
          /\ scenarios \in Seq(ToSet(scenarios))
          /\ \A scenario \in ToSet(scenarios) : LET inputs == scenario.inputs IN
                /\ DOMAIN inputs \subseteq Reference
                /\ \A r \in DOMAIN inputs : inputs[r] \in Seq(Destination)

VARIABLES
    assignment, \* what Lab assigned: manifests, conditions, scenarios, planned
    toolsets    \* what was built for each trial so far, in order

trials == <<assignment, toolsets>>

\* A contract is a sequence of manifests [id, classes, driving_args, untrusted].
Ids(contract) == {contract[i].id : i \in DOMAIN contract}

(***************************************************************************)
(* Compilation                                                             *)
(***************************************************************************)
\* The default class and those of the resolve rules, taken together.
Exports(manifest) == manifest.classes \cap {"EXPORT", "EXEC"} # {}

EgressSinks(contract) ==
    {contract[i].id : i \in {j \in DOMAIN contract : Exports(contract[j])}}

\* A tool's driving arguments: of manifests with one id the last that has any.
DrivingArgs(contract, id) ==
    LET declaring == {i \in DOMAIN contract :
                         contract[i].id = id /\ contract[i].driving_args # <<>>}
    IN IF declaring = {} THEN <<>>
       ELSE contract[CHOOSE i \in declaring : \A j \in declaring : j <= i].driving_args

\* _expand raises on a reference whose input was not supplied.
Unresolved(allowlist, inputs) ==
    (ToSet(allowlist) \cap Reference) \ DOMAIN inputs # {}

\* _expand splices the others.
Expand(allowlist, inputs) ==
    FlattenSeq([i \in DOMAIN allowlist |->
        IF allowlist[i] \in Reference THEN inputs[allowlist[i]] ELSE <<allowlist[i]>>])

\* The allowlist becomes a policy on each sink's first driving argument.
value_policies(contract, allowlist, inputs) ==
    IF allowlist = <<>> THEN <<>>
    ELSE [sink \in EgressSinks(contract) |->
             [arg |-> IF DrivingArgs(contract, sink) = <<>> THEN recipient
                      ELSE Head(DrivingArgs(contract, sink)),
              enum |-> Expand(allowlist, inputs)]]

compile_manifests(contract, allowlist, inputs) ==
    [egress_sinks |-> EgressSinks(contract),
     untrusted_sources |->
         {contract[i].id : i \in {j \in DOMAIN contract : contract[j].untrusted}},
     driving_args |-> [id \in Ids(contract) |-> DrivingArgs(contract, id)],
     value_policies |-> value_policies(contract, allowlist, inputs)]

(***************************************************************************)
(* The assignment                                                          *)
(***************************************************************************)
\* arm_for: of arms with one id the last.
arm_for(unit) ==
    LET arms == assignment.conditions
        at == {i \in DOMAIN arms : arms[i].id = unit.arm}
    IN IF at = {} THEN Absent
       ELSE arms[CHOOSE i \in at : \A j \in at : j <= i]

\* MUTANT every trial gets the inputs of the first scenario.
FirstInputs(unit) ==
    IF assignment.scenarios = <<>> THEN <<>> ELSE Head(assignment.scenarios).inputs

\* _inputs_for: the first scenario of that name, or no inputs.
inputs_for(unit) ==
    LET scenarios == assignment.scenarios
        at == {i \in DOMAIN scenarios : scenarios[i].name = unit.scenario}
    IN IF at = {} THEN <<>>
       ELSE scenarios[CHOOSE i \in at : \A j \in at : i <= j].inputs

\* MUTANT an arm that does not say is taken to be observed.
MisstatedNever(arm) == FALSE

\* enforcement_of raises on anything but "on" and "off".
Misstated(arm) == arm.enforcement \notin {"on", "off"}

\* toolset_for_arm: what stands in its way, what is left then, or the toolset.
Refusal(unit) ==
    \/ assignment.manifests = <<>>
    \/ arm_for(unit) = Absent
    \/ Misstated(arm_for(unit))
    \/ Unresolved(arm_for(unit).allowlist, inputs_for(unit))

NoToolset == [enforcement |-> Absent, config |-> Absent]

Toolset(unit) ==
    [enforcement |-> arm_for(unit).enforcement,
     config |-> compile_manifests(assignment.manifests, arm_for(unit).allowlist,
                                  inputs_for(unit))]

toolset_for_arm ==
    /\ Len(toolsets) < Len(assignment.planned)
    /\ LET unit == assignment.planned[Len(toolsets) + 1]
       IN toolsets' = Append(toolsets, IF Refusal(unit) THEN NoToolset ELSE Toolset(unit))
    /\ UNCHANGED assignment

\* Nothing is planned yet.
AssignmentInit ==
    /\ assignment = [manifests |-> <<>>, conditions |-> <<>>,
                     scenarios |-> <<>>, planned |-> <<>>]
    /\ toolsets = <<>>

-----------------------------------------------------------------------------
(***************************************************************************)
(* Properties                                                              *)
(***************************************************************************)
Unit(i) == assignment.planned[i]

\* The arms and inputs an assignment declares for the i-th trial, and what its
\* manifests say drives a tool.
DeclaredArms(i) == {arm \in ToSet(assignment.conditions) : arm.id = Unit(i).arm}
Supplied(i, r) ==
    UNION {ToSet(s.inputs[r]) : s \in {t \in ToSet(assignment.scenarios) :
              t.name = Unit(i).scenario /\ r \in DOMAIN t.inputs}}
Supplies(i, r) ==
    \E s \in ToSet(assignment.scenarios) :
        s.name = Unit(i).scenario /\ r \in DOMAIN s.inputs
Driving(id) ==
    UNION {ToSet(t.driving_args) : t \in {u \in ToSet(assignment.manifests) : u.id = id}}

\* A trial is refused exactly when its arm, its flag, a tool or an input its
\* allowlist names is missing from the assignment, and otherwise runs under its
\* own arm's flag: nothing is guessed and no trial that could run is turned away
\* (experiment.py:16-18, compile.py:37-38).
RefusedForCause ==
    \A i \in DOMAIN toolsets :
        LET runnable ==
                {arm \in DeclaredArms(i) :
                    /\ assignment.manifests # <<>>
                    /\ arm.enforcement \in {"on", "off"}
                    /\ \A r \in ToSet(arm.allowlist) \cap Reference : Supplies(i, r)}
        IN IF toolsets[i] = NoToolset THEN runnable = {}
           ELSE \E arm \in runnable : toolsets[i].enforcement = arm.enforcement

\* Under an allowlist every tool that can export or execute takes, in an
\* argument that drives it, the destinations its own arm and scenario name and
\* no others, never a placeholder nor another scenario's (compile.py:34-57).
SinksTakeOnlyNamed ==
    \A i \in DOMAIN toolsets : \A arm \in DeclaredArms(i) :
        toolsets[i] # NoToolset /\ arm.allowlist # <<>> =>
            \A tool \in ToSet(assignment.manifests) : Exports(tool) =>
                LET policies == toolsets[i].config.value_policies
                    named == ToSet(arm.allowlist) IN
                /\ tool.id \in DOMAIN policies
                /\ policies[tool.id].arg \in
                      IF Driving(tool.id) = {} THEN {recipient} ELSE Driving(tool.id)
                /\ ToSet(policies[tool.id].enum) =
                      (named \cap Destination)
                      \cup UNION {Supplied(i, r) : r \in named \cap Reference}
=============================================================================
