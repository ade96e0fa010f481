--------------------------- MODULE MCBridgeRuntime ---------------------------
(* A small instance of BridgeRuntime: two projects, the entries that each    *)
(* rule of the loaders is about, and one well-formed or malformed overlay.   *)
EXTENDS BridgeRuntime

MCDirectories == {<<"home">>, <<"home", "web">>, <<"srv">>}

Rule(alias, target) == [alias |-> alias, target |-> target, sound |-> TRUE]

Entry(root, permissions, rules) ==
    [root |-> root, permissions |-> permissions, rules |-> rules, bounded |-> TRUE]

Document(projects) ==
    [present |-> TRUE, required |-> FALSE, formed |-> TRUE, projects |-> projects]

Absent == [Document(<<>>) EXCEPT !.present = FALSE]
Missing == [Absent EXCEPT !.required = TRUE]
Malformed == [Document(<<>>) EXCEPT !.formed = FALSE]

ReadSearch(root) == Entry(root, {"read", "search"}, <<>>)

\* What config.yaml may say of the first project.
Entries == {
    ReadSearch(<<"home">>),
    ReadSearch(<<"lost">>),
    [ReadSearch(<<"home">>) EXCEPT !.bounded = FALSE],
    Entry(<<"home">>, {"search"}, <<>>),
    Entry(<<"home">>, {"read", "git"}, <<>>),
    Entry(<<"home">>, {"read", "execute"}, <<>>),
    Entry(<<"home">>, {"read", "execute"}, <<Rule("py", "py")>>),
    Entry(<<"home">>, {"read", "execute"}, <<Rule("make", "make")>>),
    Entry(<<"home">>, {"read", "execute"}, <<Rule("py", "py"), Rule("py", "make")>>),
    Entry(<<"home">>, {"read", "execute"}, <<[Rule("py", "py") EXCEPT !.sound = FALSE]>>),
    Entry(<<"home">>, {"execute"}, <<Rule("vcs", "git")>>)}

\* And of a second one: apart from the first, or inside it.
MCConfigs ==
    {Absent, Missing, Malformed}
    \cup {Document([p \in {"one"} |-> e]) : e \in Entries}
    \cup {Document([p \in {"one", "two"} |->
                       ReadSearch(IF p = "one" THEN <<"home">> ELSE root)])
           : root \in {<<"srv">>, <<"home", "web">>}}

MCOverlays ==
    {Absent, Missing, Malformed,
     Document([p \in {"one"} |-> TRUE]), Document([p \in {"one"} |-> FALSE]),
     Document([p \in {"two"} |-> TRUE])}

Remote == [present |-> TRUE, formed |-> TRUE, enabled |-> TRUE, host |-> "127.0.0.1",
           public |-> TRUE, bounded |-> TRUE]

MCRemotes ==
    {Remote, [Remote EXCEPT !.enabled = FALSE], [Remote EXCEPT !.host = "0.0.0.0"]}

=============================================================================
