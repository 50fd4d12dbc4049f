---------------------------- MODULE ToolManifests ----------------------------
(***************************************************************************)
(* From an agent's code to the trials it runs: what the scan finds         *)
(* (src/axor_wrap/detect.py), the effect it infers from a tool's words     *)
(* (roles.py), the manifest files `axor-wrap manifest` writes              *)
(* (manifest.py, cli.py), which a human reviews and Lab plans against, and *)
(* the toolsets the planned trials get (Assignment).                       *)
(*                                                                         *)
(* The command runs again when the code has changed, may be interrupted    *)
(* between or inside two writes, and a human may reclassify a file at any  *)
(* time.  Words stand for the tables of roles.py, one for each overlap     *)
(* between them; how the syntax tree is read, and schemas, are left out.   *)
(***************************************************************************)
EXTENDS Assignment, FiniteSets, TLC

CONSTANTS
    Words,      \* _tokens of a tool's id
    Project,    \* the states of the agent's code: sequences of modules, see Scan
    FileOrder,  \* every file name that can occur, as sorted(glob) gives them
    Unwritable, \* ids that are no file name, or whose schema is not JSON
    Verdict,    \* bound: the classes a reviewer chooses from
    MaxRuns,    \* bound: `manifest` commands in a behaviour
    MaxReview   \* bound: files that stand reclassified at once

ASSUME VerdictIsClass == Verdict \subseteq {"READ", "WRITE", "EXPORT", "EXEC"}

ASSUME NamesConfig == FileOrder \in Seq(STRING)

ASSUME ProjectConfig ==
    \A modules \in Project :
        modules \in Seq([parses : BOOLEAN, calls : Nat,
                        tools : Seq([id : STRING, implicit : BOOLEAN,
                                     desc : SUBSET STRING, args : SUBSET STRING])])

VARIABLES
    project,  \* the agent's code
    running,  \* a `manifest` command is under way
    detected, \* the tools its scan found
    entries,  \* what its sidecar will say of those already written
    files,    \* the manifests in the directory, by name
    runs      \* commands so far

\* Bound: code and directory are followed until Lab plans.  The trials take
\* their manifests from the assignment and never read the directory.
Unplanned == assignment.planned = <<>>

command == <<running, detected, entries, runs>>
vars == <<project, command, files, trials>>

(***************************************************************************)
(* The scan                                                                *)
(***************************************************************************)
\* Nothing in the module is known about the shell it calls.
Shell == [id |-> "shell", implicit |-> TRUE, desc |-> {"implicit"}, args |-> {}]

\* _scan_module: the tools in the order of their lines, and one candidate for
\* all direct calls of a shell.  A file that does not parse yields nothing.
\* The calls of the modelled files come after their tools.
Scan(module) ==
    IF ~module.parses THEN <<>>
    ELSE module.tools \o IF module.calls = 0 THEN <<>> ELSE <<Shell>>

scan_project(modules) == FlattenSeq([i \in DOMAIN modules |-> Scan(modules[i])])

(***************************************************************************)
(* Role inference                                                          *)
(***************************************************************************)
EXEC_TOKENS == {"exec", "shell"}
SQL_TOKENS == {"sql", "query"}
SQL_WRITE_TOKENS == {"update", "drop"}
EXPORT_TOKENS == {"send"}
WRITE_TOKENS == {"save", "update"}
READ_TOKENS == {"get", "query", "fetch"}
UNTRUSTED_HINTS == {"fetch", "web"}
EXPORT_CARRIER_ARGS == {"to", "url"}
DRIVING_ARG_ORDER == <<"to", "url", "command">>

Meet(a, b) == a \cap b # {}

\* The items of a sequence that are in S, in its order.
InOrder(order, S) ==
    LET at == {p \in DOMAIN order : order[p] \in S}
    IN [i \in 1..Cardinality(at) |->
           order[CHOOSE p \in at : Cardinality({q \in at : q <= p}) = i]]

Rule(hit, class, confidence) == [hit |-> hit, class |-> class, confidence |-> confidence]

Unclassified == Rule(TRUE, "UNKNOWN", "low")

\* _classify: the first heuristic that applies, the gravest class first.
classify(tokens, desc, args) ==
    LET heuristics ==
          << Rule(Meet(tokens, EXEC_TOKENS), "EXEC", "high"),
             Rule(Meet(tokens, SQL_TOKENS) /\ Meet(tokens \cup desc, SQL_WRITE_TOKENS),
                  "EXEC", "medium"),
             Rule(Meet(tokens, EXPORT_TOKENS), "EXPORT",
                  IF Meet(args, EXPORT_CARRIER_ARGS) THEN "high" ELSE "medium"),
             Rule(Meet(tokens, WRITE_TOKENS), "WRITE", "high"),
             Rule(Meet(tokens, READ_TOKENS), "READ", "high"),
             Unclassified >>
        applies == {n \in DOMAIN heuristics : heuristics[n].hit}
    IN heuristics[CHOOSE n \in applies : \A k \in applies : n <= k]

\* The description is asked when the name says nothing, and believed less.
guess(tool) ==
    LET by_name == classify(Words[tool.id], tool.desc, tool.args)
        by_desc == classify(tool.desc, tool.desc, tool.args)
    IN IF tool.implicit THEN Rule(TRUE, "EXEC", "high")
       ELSE IF by_name.class # "UNKNOWN" THEN by_name
       ELSE [by_desc EXCEPT !.confidence = IF @ = "high" THEN "medium" ELSE "low"]

driving_args(tool) ==
    LET driving == InOrder(DRIVING_ARG_ORDER, tool.args)
    IN IF tool.implicit /\ driving = <<>> THEN <<"command">> ELSE driving

untrusted(tool) ==
    /\ guess(tool).class = "READ"
    /\ Meet(Words[tool.id] \cup tool.desc, UNTRUSTED_HINTS)

(***************************************************************************)
(* The manifest                                                            *)
(***************************************************************************)
\* MUTANT an unclassified tool is written down as one that writes.
FallbackWrite(tool) ==
    IF guess(tool).class = "UNKNOWN" THEN "WRITE" ELSE guess(tool).class

\* _UNKNOWN_FALLBACK: the schema has no UNKNOWN.
default_class(tool) ==
    IF guess(tool).class = "UNKNOWN" THEN "EXEC" ELSE guess(tool).class

\* `of` and `reviewed` are history: the tool a file was written for, and that
\* a human has reclassified it since.
build_manifest(tool) ==
    [id |-> tool.id, classes |-> {default_class(tool)},
     driving_args |-> driving_args(tool), untrusted |-> untrusted(tool),
     of |-> tool, reviewed |-> FALSE]

(***************************************************************************)
(* The command                                                             *)
(***************************************************************************)
used == {entries[i].file : i \in DOMAIN entries}

Stem(id, n) == IF n = 1 THEN id ELSE id \o "-" \o ToString(n)

\* Decimal notation: no two numbers read the same.
ASSUME StemsDiffer ==
    \A modules \in Project : LET tools == scan_project(modules) IN
        \A tool \in ToSet(tools), k, n \in DOMAIN tools :
            Stem(tool.id, k) = Stem(tool.id, n) => k = n

\* MUTANT a name counts the tools of that id before it.
CountedStem(id) ==
    Stem(id, Cardinality({i \in DOMAIN entries : entries[i].id = id}) + 1)

\* The first of id, id-2, id-3, ... this command has not used.
FreeStem(id) ==
    Stem(id, CHOOSE n \in 1..Len(entries) + 1 :
                 /\ Stem(id, n) \notin used
                 /\ \A k \in 1..n - 1 : Stem(id, k) \in used)

\* _cmd_manifest: the scan, then a write for each tool, wrap.json last.
StartManifest ==
    /\ Unplanned
    /\ ~running
    /\ runs < MaxRuns
    /\ scan_project(project) # <<>>
    /\ running' = TRUE
    /\ detected' = scan_project(project)
    /\ runs' = runs + 1
    /\ UNCHANGED <<project, entries, files, trials>>

Written == Len(entries) = Len(detected)
Tool == detected[Len(entries) + 1]

\* A file of that name that an earlier command left is overwritten.
WriteManifest ==
    /\ Unplanned
    /\ running
    /\ ~Written
    /\ Tool.id \notin Unwritable
    /\ files' = [f \in DOMAIN files \cup {FreeStem(Tool.id)} |->
                    IF f = FreeStem(Tool.id) THEN build_manifest(Tool) ELSE files[f]]
    /\ entries' = Append(entries, [id |-> Tool.id, file |-> FreeStem(Tool.id),
                                   guess |-> guess(Tool)])
    /\ UNCHANGED <<project, running, detected, runs, trials>>

EndCommand ==
    /\ running' = FALSE
    /\ detected' = <<>>
    /\ entries' = <<>>
    /\ UNCHANGED <<project, runs, trials>>

\* wrap.json holds the entries; nothing in the package reads it back.
WriteSidecar ==
    /\ Unplanned
    /\ running
    /\ Written
    /\ EndCommand
    /\ UNCHANGED files

\* The command ends inside a write: an exception or a kill.  A file already
\* open for writing is left truncated, which is no manifest to any reader.
Interrupted ==
    /\ Unplanned
    /\ running
    /\ LET open == IF Written \/ Tool.id \in Unwritable THEN {}
                   ELSE {FreeStem(Tool.id)}
       IN files' \in {files, [f \in DOMAIN files \ open |-> files[f]]}
    /\ EndCommand

(***************************************************************************)
(* What happens to the code and the directory, and the trials              *)
(***************************************************************************)
Develop ==
    /\ Unplanned
    /\ \E p \in Project \ {project} : project' = p
    /\ UNCHANGED <<command, files, trials>>

Review ==
    /\ Unplanned
    /\ Cardinality({f \in DOMAIN files : files[f].reviewed}) < MaxReview
    /\ \E f \in DOMAIN files, class \in Verdict :
         /\ files[f].classes # {class}
         /\ files' = [files EXCEPT ![f].classes = {class}, ![f].reviewed = TRUE]
    /\ UNCHANGED <<project, command, trials>>

\* _cmd_config reads the directory in the order of the names.
Manifests ==
    LET names == InOrder(FileOrder, DOMAIN files)
    IN [i \in DOMAIN names |-> files[names[i]]]

\* Lab plans its trials against what it was given, or forgets to say (external).
Plan ==
    /\ Unplanned
    /\ assignment' \in [manifests : {<<>>, Manifests}, conditions : Conditions,
                        scenarios : Scenarios, planned : Planned]
    /\ UNCHANGED <<project, command, files, toolsets>>

RunTrial ==
    /\ toolset_for_arm
    /\ UNCHANGED <<project, command, files>>

Init ==
    /\ project \in Project
    /\ running = FALSE
    /\ detected = <<>>
    /\ entries = <<>>
    /\ files = <<>>
    /\ runs = 0
    /\ AssignmentInit

Next ==
    \/ Develop
    \/ StartManifest
    \/ WriteManifest
    \/ WriteSidecar
    \/ Interrupted
    \/ Review
    \/ Plan
    \/ RunTrial

Spec == Init /\ [][Next]_vars

-----------------------------------------------------------------------------
(***************************************************************************)
(* Properties                                                              *)
(***************************************************************************)
\* A word of a class graver than reading, or than writing within the system.
Outward(words) == Meet(words, EXEC_TOKENS \cup EXPORT_TOKENS)

\* The tool says that it only reads or saves: in its name, or if the name says
\* nothing of any class in its description, and neither says more in that text.
SaysHarmless(tool) ==
    LET name == Words[tool.id]
        Telling(words) == Meet(words, READ_TOKENS \cup WRITE_TOKENS) /\ ~Outward(words)
    IN /\ ~tool.implicit
       /\ \/ Telling(name)
          \/ ~Outward(name) /\ Telling(tool.desc)

\* A name that says the tool reads, and reads what comes from outside.
ReadsOutside(tool) ==
    /\ ~tool.implicit
    /\ Words[tool.id] \subseteq (READ_TOKENS \ SQL_TOKENS) \cup UNTRUSTED_HINTS
    /\ Meet(Words[tool.id], READ_TOKENS) /\ Meet(Words[tool.id], UNTRUSTED_HINTS)

\* End to end, a tool is left out of the sinks of a trial only if a human took
\* it out or its own words say that it reads or saves, so an unclassified one
\* stays gated whichever files the directory has left over (manifest.py:10-13,
\* README.md:189), and a read of the outside stays a source of taint
\* (roles.py:13-14).
OnlyEvidentIsReleased ==
    \A i \in DOMAIN toolsets : toolsets[i] # NoToolset =>
        \A m \in ToSet(assignment.manifests) :
            /\ m.id \notin toolsets[i].config.egress_sinks =>
                   m.reviewed \/ SaysHarmless(m.of)
            /\ ReadsOutside(m.of) => m.id \in toolsets[i].config.untrusted_sources

\* What the running command has gathered for wrap.json is true of the directory
\* at every moment of it, but not of what an older command left beside: the tools
\* found so far, in order, each with a file of its own that
\* holds this tool's manifest, and one marked unclassified there has a file that
\* says EXEC until a human changes it (manifest.py:10-13, cli.py:113-132).
SidecarTellsAll ==
    \A i \in DOMAIN entries :
        LET file == entries[i].file IN
        /\ file \in DOMAIN files
        /\ files[file].of = detected[i]
        /\ \A j \in DOMAIN entries : i # j => entries[j].file # file
        /\ entries[i].guess.class = "UNKNOWN" =>
               files[file].reviewed \/ files[file].classes = {"EXEC"}
=============================================================================
