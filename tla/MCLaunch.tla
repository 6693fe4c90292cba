------------------------------- MODULE MCLaunch -------------------------------
(***************************************************************************)
(* The systems that are loaded, checked and started: import graphs over    *)
(* three files, task graphs over three components, pairs of triggers,      *)
(* services beside topics, and two nodes that exchange a topic or a        *)
(* service under a deployment.                                             *)
(***************************************************************************)
EXTENDS Launch

MCManifestPath == <<"sys", "system">>
MCEnvPaths == <<"env">>
MCAliases == [link |-> "env"]

-----------------------------------------------------------------------------
(* Documents. *)

Topic(id, name) == [id |-> id, name |-> name, message_type |-> "T"]

NodeDoc(name, config, arguments) ==
    [name |-> name, executable |-> "app", config |-> config, arguments |-> arguments]

OneNode == [nodes |-> <<NodeDoc("n1", "root", <<>>)>>, config_paths |-> <<"share">>]

World(fs, manifest) ==
    [files |-> (MCManifestPath :> manifest) @@ fs, factories |-> {"A"}, validate |-> TRUE]

Single(root) == World(<<"sys", "root">> :> root, OneNode)

(* Import graphs: the root and the interface files a and b, where b may be  *)
(* unreadable, not an interface file, declare an id of a's, or be shadowed  *)
(* by a file of the same name beside a; and a may be imported by its path,  *)
(* spelled differently.                                                     *)
A == <<"a">>
B == <<"b">>
LinkedA == <<"link", "a">>

FileA(imports) == [imports |-> imports, topics |-> <<Topic("ta", <<"a">>)>>]

FilesB(imports) ==
    {[imports |-> imports, topics |-> <<Topic("tb", <<"b">>)>>],
     [imports |-> imports, topics |-> <<Topic("ta", <<"b">>)>>],
     [components |-> <<>>], Malformed, Unreadable}

ImportWorlds ==
    {World((<<"sys", "root">> :> [imports |-> r, topics |-> <<Topic("tr", <<"r">>)>>])
             @@ (<<"env", "a">> :> FileA(a)) @@ (<<dir, "b">> :> b)
             @@ (IF shadowed THEN <<"env", "b">> :> FileA(<<>>) ELSE <<>>), OneNode) :
       r \in {<<>>, <<A>>, <<A, B>>, <<B, A>>, <<A, LinkedA>>, <<LinkedA, A>>, <<<<"missing">>>>,
              <<<<"env", "missing">>>>},
       a \in {<<>>, <<B>>, <<A>>, <<B, B>>, <<LinkedA>>}, shadowed \in BOOLEAN,
       dir \in {"share", "sys"}, b \in UNION {FilesB(i) : i \in {<<>>, <<LinkedA>>, <<<<"root">>>>}}}

(* Task graphs: every set of upstreams for three components, and one that   *)
(* names an upstream in two triggers.                                       *)
Task(names) == [kind |-> "task_dependency", task_dependencies |-> names]

TaskTriggerSets(others) ==
    {<<>>, <<Task(<<others[1]>>)>>, <<Task(<<others[2]>>)>>, <<Task(others)>>,
     <<Task(<<others[1]>>), Task(others)>>}

Plain(name, triggers) == [name |-> name, type |-> "A", triggers |-> triggers]

TaskWorlds ==
    {Single([components |-> <<Plain("x", x), Plain("y", y), Plain("z", z)>>]) :
       x \in TaskTriggerSets(<<"y", "z">>), y \in TaskTriggerSets(<<"x", "z">>),
       z \in TaskTriggerSets(<<"x", "y">>) \cup {<<Task(<<"z">>)>>, <<Task(<<"w">>)>>}}

(* Pairs of triggers on a component that reads two topics, perhaps of one   *)
(* wire name, and serves a service.                                         *)
Triggers ==
    {[kind |-> "data", data_topics |-> <<"t">>], [kind |-> "data", data_topics |-> <<"t", "u">>],
     [kind |-> "data", data_topics |-> <<"u">>, dependency_policy |-> "any"],
     [kind |-> "data", data_topics |-> <<"v">>], [kind |-> "data"],
     [kind |-> "service", services |-> <<"s">>], [kind |-> "service", services |-> <<"s", "s">>],
     [kind |-> "periodic", period_ns |-> 5], [kind |-> "periodic"],
     [kind |-> "manual", deadline_ns |-> -1], [kind |-> "manual", dependency_policy |-> "any"],
     [kind |-> "odd"], [kind |-> "service"]}

Readers ==
    {<<[id |-> "t"], [id |-> "u"]>>, <<[id |-> "t"]>>,
     <<[topic |-> "t", queue_depth |-> 2], [id |-> "u"]>>,
     <<[topic |-> "t", queue_depth |-> 0]>>, <<[topic |-> "t"], [topic |-> "t"]>>,
     <<[topic |-> "v"]>>}

Query(id, name) == [id |-> id, name |-> name, request_type |-> "Q", reply_type |-> "R"]

TriggerWorlds ==
    {Single([topics |-> <<Topic("t", <<"t">>), Topic("u", name)>>,
             services |-> <<Query("s", <<"s">>)>>,
             components |-> <<[name |-> "c", type |-> "A", readers |-> readers,
                               writers |-> <<"t", "u">>, servers |-> <<"s">>,
                               triggers |-> triggers]>>]) :
       name \in {<<"t">>, <<"u">>}, readers \in Readers,
       triggers \in {<<t>> : t \in Triggers} \cup {<<t, u>> : t \in Triggers, u \in Triggers}}

(* Services beside topics and each other, and settings. *)
ServiceWorlds ==
    {Single([topics |-> <<Topic("t", t)>>, services |-> <<Query("s", s), Query(id, <<"q">>)>>,
             components |-> <<[name |-> "c", type |-> type, servers |-> <<"s">>],
                              [name |-> "d", type |-> "A", clients |-> <<"s", id>>]>>]) :
       t \in {<<"t">>, <<"s", "reply">>}, s \in {<<"s">>, <<"q">>, <<"s", "x">>, <<"a b">>, <<>>},
       id \in {"s", "q", "a b", "long"}, type \in {"A", "B"}}
    \cup {Single([scheduler |-> [worker_count |-> w], runtime |-> r]) :
            w \in {0, 1, Malformed}, r \in {Malformed, [default_transport_name |-> "i"],
                                            [default_transport_name |-> ""]}}

(* Two nodes with a topic over one transport or another, and a deployment   *)
(* that moves all of it, or the topic alone.                                *)
Exchange(name, reads, writes, transport, version) ==
    [topics |-> <<[id |-> "t", name |-> <<"t">>, message_type |-> "T",
                   transport |-> transport, message_version |-> version]>>,
     components |-> <<[name |-> name, type |-> "A", readers |-> reads, writers |-> writes]>>]

Deployments ==
    {<<>>, [defaults |-> [transport |-> "shm", transport_parameters |-> [slots |-> 2]]],
     [topics |-> <<[name |-> <<"t">>, transport |-> "fastdds"]>>],
     [topics |-> <<[name |-> <<"other">>, transport |-> "odd"]>>],
     [topics |-> <<[name |-> <<"t">>, transport |-> "odd"]>>]}

TwoNodes(arguments, deployment) ==
    [nodes |-> <<NodeDoc("n1", "one", <<>>), NodeDoc("n2", "two", arguments)>>]
    @@ (IF deployment = <<>> THEN <<>> ELSE [deployment |-> <<"sys", "deploy">>])

(* Arguments that add a search path, name a deployment, choose a mode, name *)
(* another configuration and swallow the manifest's, or only swallow it.    *)
Arguments ==
    {<<>>, <<<<"--config-path">>, <<"share">>>>, <<<<"--deployment">>, <<"sys", "mine">>>>,
     <<<<"--validate">>>>, <<<<"sys", "one">>, <<"--config-path">>>>, <<<<"--deployment">>>>}

SystemWorlds ==
    {World((<<"sys", "one">> :> Exchange("c", <<>>, <<"t">>, "shm", 1))
             @@ (<<"sys", "two">> :> Exchange("c", reads, writes, transport, version))
             @@ (<<"sys", "mine">> :> [defaults |-> [transport |-> "fastdds"]])
             @@ (<<"sys", "deploy">> :> deployment), TwoNodes(arguments, deployment)) :
       reads \in {<<>>, <<[id |-> "t"]>>}, writes \in {<<>>, <<"t">>},
       transport \in {"ipc", "fastdds"}, version \in {1, 2},
       deployment \in Deployments, arguments \in Arguments}

Called(name, servers, clients, reply) ==
    [services |-> <<[id |-> "s", name |-> <<"s">>, request_type |-> "Q", reply_type |-> reply]>>,
     components |-> <<[name |-> name, type |-> "A", servers |-> servers, clients |-> clients]>>]

CallWorlds ==
    {World((<<"sys", "one">> :> Called("c", one, two, "R"))
             @@ (<<"sys", "two">> :> Called("c", three, <<"s">>, reply)), TwoNodes(<<>>, <<>>)) :
       one \in {<<>>, <<"s">>}, two \in {<<>>, <<"s">>}, three \in {<<>>, <<"s">>},
       reply \in {"R", "S"}}

(* Manifests that are refused, and one that is not checked. *)
BadNodes ==
    {<<>>, <<NodeDoc("n1", "root", <<>>), NodeDoc("n1", "root", <<>>)>>, <<NodeDoc("", "root", <<>>)>>,
     <<NodeDoc("n1", "missing", <<>>)>>, <<NodeDoc("n1", "root", <<>>) @@ [restart |-> "often"]>>,
     <<NodeDoc("n1", "root", <<>>) @@ [start_delay_ms |-> Day + 1]>>,
     <<NodeDoc("n1", "root", <<>>) @@ [max_restarts |-> MaxRestarts + 1]>>}

ManifestWorlds ==
    {World(<<"sys", "root">> :> [components |-> <<>>], [nodes |-> nodes]) : nodes \in BadNodes}
    \cup {World(<<"sys", "root">> :> [components |-> <<>>], doc) : doc \in {Malformed, Unreadable}}
    \cup {[World(<<"sys", "root">> :> root, [nodes |-> <<NodeDoc("n1", "root", arguments)>>])
              EXCEPT !.validate = FALSE] :
            root \in {[components |-> <<>>], [components |-> <<Plain("c", <<Task(<<"c">>)>>)>>]},
            arguments \in {<<>>, <<<<"--help">>>>, <<<<"--describe">>>>, <<<<"--other">>>>,
                           <<<<"--config-path">>>>, <<<<"--config-path">>, <<"--help">>>>,
                           <<<<"sys", "root">>>>}}

MCWorlds ==
    ImportWorlds \cup TaskWorlds \cup TriggerWorlds \cup ServiceWorlds \cup SystemWorlds
    \cup CallWorlds \cup ManifestWorlds
=============================================================================
