-------------------------- MODULE MCToolManifests --------------------------
(***************************************************************************)
(* An instance of ToolManifests for TLC: a tool that nothing classifies,   *)
(* one that sends, two that share an id beside one whose id is the name    *)
(* the second would get, a query whose description updates, a module that  *)
(* calls a shell twice and an id that is no file name.                     *)
(***************************************************************************)
EXTENDS ToolManifests

CONSTANTS d1, d2, d3, known

MCDestination == {d1, d2, d3}
MCReference == {known}

MCWords ==
    [gizmo |-> {"gizmo"}, get_web |-> {"get", "web"}, get_send |-> {"get", "send"}]
    @@ ("send" :> {"send"} @@ "send-2" :> {"send"} @@ "query" :> {"query"})
    @@ ("save/all" :> {"save"} @@ "shell" :> {"shell"})

Declared(id, desc, args) == [id |-> id, implicit |-> FALSE, desc |-> desc, args |-> args]

Module(tools, calls) == [parses |-> TRUE, tools |-> tools, calls |-> calls]
Broken == [parses |-> FALSE, tools |-> <<>>, calls |-> 1]

Sender == Declared("send", {}, {"url", "to"})

MCProject ==
    { << Module(<<Declared("gizmo", {}, {}), Declared("get_web", {}, {"url"})>>, 2) >>,
      << Module(<<Declared("send-2", {}, {})>>, 0), Broken,
         Module(<<Sender, Declared("send", {"get"}, {})>>, 0) >>,
      << Module(<<Declared("query", {"update"}, {}), Declared("gizmo", {"get"}, {}),
                  Declared("get_send", {}, {}), Declared("save/all", {}, {})>>, 0) >> }

\* In the order of the names with their suffix: "send-2." comes before "send.".
MCFileOrder == <<"get_send", "get_web", "gizmo", "query", "send-2", "send-3", "send", "shell">>

Arm(id, flag, allowlist) == [id |-> id, enforcement |-> flag, allowlist |-> allowlist]

MCConditions ==
    {<<Arm("governed", f, a), Arm("ungoverned", "off", <<>>)>> :
        f \in {"on", Absent}, a \in {<<d1>>, <<known, d1>>}}
    \cup {<<Arm("governed", "on", <<known>>)>>}

\* The inputs: a list, a single value, an empty list or none at all.
Scenario(name, inputs) == [name |-> name, inputs |-> inputs]
MCScenarios ==
    { <<>>,
      <<Scenario("banking", known :> <<d2, d3>>), Scenario("mail", <<>>)>>,
      <<Scenario("banking", known :> <<>>), Scenario("mail", known :> <<d2>>)>> }

MCPlanned ==
    {<<[scenario |-> "banking", arm |-> "governed"],
       [scenario |-> "mail", arm |-> "governed"],
       [scenario |-> "mail", arm |-> "ungoverned"]>>}
=============================================================================
