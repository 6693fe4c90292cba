-------------------------------- MODULE Launch --------------------------------
(***************************************************************************)
(* From a system manifest to running nodes: puppet_master_launch loads the *)
(* manifest (src/configuration/system_manifest.cpp), loads every node's    *)
(* project and checks them together, and starts one process per node;      *)
(* each process parses its command line (src/configuration/                *)
(* json_launcher.cpp), loads its project again, and creates its components *)
(* and its scheduler (Application::Create, CreateScheduler).  Restarts,    *)
(* stopping and the life of a created application are modelled by          *)
(* Supervisor and Application.                                             *)
(***************************************************************************)
EXTENDS JsonLoader

CONSTANTS Launcher,     \* the loading process that is the launcher
          ManifestPath, \* the manifest's file
          EnvPaths,     \* PUPPETMASTER_CONFIG_PATH, the same for every process
          Day,          \* the longest time a manifest accepts, in milliseconds
          MaxRestarts,  \* the most restarts a manifest accepts
          Worlds        \* what a run starts from: files, factories, options

VARIABLES factories,    \* the component types the nodes' binaries provide
          validate,     \* FALSE for --no-validate
          launch,       \* the launcher
          node          \* per node process, its state

vars == <<files, ld, factories, validate, launch, node>>

Nodes == Loaders \ {Launcher}

-----------------------------------------------------------------------------
(* The manifest. *)

Dir(path) == path[1]

ConfigCandidates(config, config_paths) ==
    SelectSeq(Field(<<Dir(ManifestPath)>> \o config_paths, LAMBDA d : <<d, config>>),
              Exists)

MillisecondsOk(doc, key) == Read(doc, key, 0) \in 0 .. Day

Restart == {"never", "on_failure", "always"}

NodeOk(doc, config_paths) ==
    /\ CheckObject(doc, {"name", "executable", "config", "arguments", "start_delay_ms",
                         "restart", "max_restarts", "restart_delay_ms", "required",
                         "stop_timeout_ms"})
    /\ {"name", "executable", "config"} \subseteq DOMAIN doc
    /\ doc.name # ""
    /\ \A key \in {"start_delay_ms", "restart_delay_ms", "stop_timeout_ms"} : MillisecondsOk(doc, key)
    /\ Read(doc, "restart", "never") \in Restart
    /\ Read(doc, "max_restarts", 0) \in 0 .. MaxRestarts
    /\ ConfigCandidates(doc.config, config_paths) # <<>>

DecodeNode(doc, config_paths) ==
    [name |-> doc.name, config |-> ConfigCandidates(doc.config, config_paths)[1],
     arguments |-> Read(doc, "arguments", <<>>)]

ManifestOk(doc) ==
    LET deployment == Read(doc, "deployment", None)
        nodes      == Read(doc, "nodes", <<>>)
    IN  /\ CheckObject(doc, {"name", "config_paths", "bin_paths", "deployment", "nodes"})
        /\ deployment # None => Exists(deployment)
        /\ nodes # <<>>
        /\ \A i \in DOMAIN nodes : NodeOk(nodes[i], Read(doc, "config_paths", <<>>))
        /\ NoDuplicates(Field(nodes, LAMBDA n : n.name))

DecodeManifest(doc) ==
    LET config_paths == Read(doc, "config_paths", <<>>)
    IN  [config_paths |-> config_paths, deployment |-> Read(doc, "deployment", None),
         nodes |-> Field(doc.nodes, LAMBDA n : DecodeNode(n, config_paths))]

LoadOptionsRequest(manifest, config) ==
    Request(config, EnvPaths \o manifest.config_paths, manifest.deployment)

(* The words of a node's command: a path, or <<word>> for an option or a    *)
(* directory.                                                               *)
CommandOptions(manifest) ==
    FlattenSeq(Field(manifest.config_paths, LAMBDA d : <<<<"--config-path">>, <<d>>>>))
    \o (IF manifest.deployment = None THEN <<>>
        ELSE <<<<"--deployment">>, manifest.deployment>>)

(* Mutant: the deployment is not passed on. *)
Mut_CommandFor(manifest, entry) ==
    FlattenSeq(Field(manifest.config_paths, LAMBDA d : <<<<"--config-path">>, <<d>>>>))
    \o entry.arguments \o <<entry.config>>

CommandFor(manifest, entry) ==
    CommandOptions(manifest) \o entry.arguments \o <<entry.config>>

-----------------------------------------------------------------------------
(* Initial states. *)

Idle == [pc |-> "idle", exit |-> None, mode |-> "", built |-> <<>>, registered |-> <<>>]

Init ==
    /\ \E w \in Worlds : /\ files = w.files
                         /\ factories = w.factories
                         /\ validate = w.validate
    /\ ld = LoadIdle
    /\ launch = [pc |-> "start", manifest |-> None, projects |-> <<>>, exit |-> None]
    /\ node = [n \in Nodes |-> Idle]

-----------------------------------------------------------------------------
(* The launcher: LoadSystemManifest, LoadSystemNodes, ValidateSystem. *)

LauncherExits == launch' = [launch EXCEPT !.pc = "exited", !.exit = 1]

(* The next node's project to load, or the system's to check. *)
LoadNextNode(manifest, loaded) ==
    IF loaded < Len(manifest.nodes)
      THEN BeginLoad(Launcher, LoadOptionsRequest(manifest, manifest.nodes[loaded + 1].config))
      ELSE UNCHANGED ld

LoadManifest ==
    LET readable == ManifestPath \in DOMAIN files /\ files[ManifestPath] # Unreadable
        ok       == readable /\ ManifestOk(files[ManifestPath])
        manifest == DecodeManifest(files[ManifestPath])
    IN  /\ launch.pc = "start"
        /\ \/ ~ok /\ LauncherExits /\ UNCHANGED ld
           \/ /\ ok
              /\ launch' = [launch EXCEPT !.pc = IF validate THEN "load" ELSE "supervise",
                                          !.manifest = manifest]
              /\ IF validate THEN LoadNextNode(manifest, 0) ELSE UNCHANGED ld
        /\ UNCHANGED <<files, factories, validate, node>>

LoadedNode ==
    LET projects == Append(launch.projects, ld[Launcher].project)
    IN  /\ launch.pc = "load" /\ At(Launcher, "loaded")
        /\ launch' = [launch EXCEPT !.projects = projects,
                        !.pc = IF Len(projects) = Len(launch.manifest.nodes) THEN "check" ELSE @]
        /\ LoadNextNode(launch.manifest, Len(projects))
        /\ UNCHANGED <<files, factories, validate, node>>

NodeUnloadable ==
    /\ launch.pc = "load" /\ At(Launcher, "failed")
    /\ LauncherExits
    /\ UNCHANGED <<files, ld, factories, validate, node>>

NamedProjects ==
    [name \in {launch.manifest.nodes[i].name : i \in DOMAIN launch.projects} |->
       launch.projects[CHOOSE i \in DOMAIN launch.projects : launch.manifest.nodes[i].name = name]]

CheckSystem ==
    /\ launch.pc = "check"
    /\ IF ValidateSystem(NamedProjects)
         THEN launch' = [launch EXCEPT !.pc = "supervise"]
         ELSE LauncherExits
    /\ UNCHANGED <<files, ld, factories, validate, node>>

-----------------------------------------------------------------------------
(* A node process: RunJsonApplication. *)

Entry(n) == SelectSeq(launch.manifest.nodes, LAMBDA e : e.name = n)[1]

Modes == {"--validate", "--describe"}
ValueOptions == {"--config-path", "--deployment"}

(* "--other" stands for every other word with a dash in front. *)
Options == {"--help", "--other"} \cup Modes \cup ValueOptions

(* What is looked up in a path taken for a directory: nothing is in a file. *)
Directory(word) == IF Len(word) = 1 THEN word[1] ELSE "no directory"

(* An option that takes a value takes the next word, whatever it is. *)
TakeValue(parsed, word) ==
    CASE parsed.expects = "--config-path" -> [parsed EXCEPT !.search_paths = Append(@, Directory(word))]
      [] parsed.deployment = None         -> [parsed EXCEPT !.deployment = word]
      [] OTHER                            -> [parsed EXCEPT !.exit = 2]

ParseWord(parsed, word) ==
    LET option == IF word[1] \in Options THEN word[1] ELSE ""
    IN  CASE parsed.exit # None                      -> parsed
          [] parsed.expects # ""                     -> [TakeValue(parsed, word) EXCEPT !.expects = ""]
          [] option = "--help"                       -> [parsed EXCEPT !.exit = 0]
          [] option \in Modes /\ parsed.mode = ""    -> [parsed EXCEPT !.mode = option]
          [] option \in ValueOptions                 -> [parsed EXCEPT !.expects = option]
          [] option = "" /\ parsed.file = None       -> [parsed EXCEPT !.file = word]
          [] OTHER                                   -> [parsed EXCEPT !.exit = 2]

ParseWords(words) ==
    FoldLeft(ParseWord, [exit |-> None, mode |-> "", expects |-> "", file |-> None,
                         search_paths |-> EnvPaths, deployment |-> None], words)

ParseArguments(words) ==
    LET parsed == ParseWords(words)
    IN  IF parsed.exit = None /\ (parsed.expects # "" \/ parsed.file = None)
          THEN [parsed EXCEPT !.exit = 2] ELSE parsed

Exits(n, code) == node' = [node EXCEPT ![n].pc = "exited", ![n].exit = code]

(* The supervisor starts the nodes in the order of the manifest. *)
StartNode(n) ==
    LET earlier == {launch.manifest.nodes[i].name :
                      i \in 1 .. (CHOOSE i \in DOMAIN launch.manifest.nodes :
                                    launch.manifest.nodes[i].name = n) - 1}
        parsed  == ParseArguments(CommandFor(launch.manifest, Entry(n)))
    IN  /\ launch.pc = "supervise"
        /\ n \in {launch.manifest.nodes[i].name : i \in DOMAIN launch.manifest.nodes}
        /\ node[n].pc = "idle" /\ \A m \in earlier : node[m].pc # "idle"
        /\ \/ parsed.exit # None /\ Exits(n, parsed.exit) /\ UNCHANGED ld
           \/ /\ parsed.exit = None
              /\ node' = [node EXCEPT ![n].pc = "load", ![n].mode = parsed.mode]
              /\ BeginLoad(n, Request(parsed.file, parsed.search_paths, parsed.deployment))
        /\ UNCHANGED <<files, factories, validate, launch>>

(* ValidateProject: the project, which the loader has validated, and the    *)
(* type of every component.                                                 *)
TypesKnown(n) ==
    \A c \in Range(ld[n].project.components) : c.type \in factories

NodeLoaded(n) ==
    /\ node[n].pc = "load" /\ ld[n].pc \in {"loaded", "failed"}
    /\ \/ At(n, "failed") /\ Exits(n, 1)
       \/ At(n, "loaded") /\ node[n].mode = "--describe" /\ Exits(n, 0)
       \/ /\ At(n, "loaded") /\ node[n].mode # "--describe"
          /\ CASE ~TypesKnown(n)                   -> Exits(n, 1)
               [] TypesKnown(n) /\ node[n].mode = "--validate" -> Exits(n, 0)
               [] OTHER                            -> node' = [node EXCEPT ![n].pc = "create"]
    /\ UNCHANGED <<files, ld, factories, validate, launch>>

(* Application::Create registers the application's own transports first,    *)
(* which may fail; then CreateScheduler builds all components, before it    *)
(* registers the first.                                                     *)
RegisterTransports(n) ==
    /\ node[n].pc = "create"
    /\ \/ node' = [node EXCEPT ![n].pc = "build"]
       \/ Exits(n, 1)
    /\ UNCHANGED <<files, ld, factories, validate, launch>>

SameService(a, b) ==
    a.name = b.name /\ a.transport = b.transport /\ a.request = b.request /\ a.reply = b.reply

SameServices(a, b) == Len(a) = Len(b) /\ \A i \in DOMAIN a : SameService(a[i], b[i])

SameSpec(a, b) ==
    /\ a.name = b.name /\ a.readers = b.readers /\ a.writers = b.writers
    /\ a.triggers = b.triggers
    /\ SameServices(a.servers, b.servers) /\ SameServices(a.clients, b.clients)

(* What a factory may return for a spec: a component that describes itself  *)
(* by it, with its own service options, or by another; or an error.         *)
Described(spec) ==
    {spec, [spec EXCEPT !.triggers = <<>>],
     [spec EXCEPT !.servers = Field(@, LAMBDA s : [s EXCEPT !.queue_depth = @ + 1])]}

NextComponent(n) == ld[n].project.components[Len(node[n].built) + 1]

BuildComponent(n) ==
    /\ node[n].pc = "build" /\ Len(node[n].built) < Len(ld[n].project.components)
    /\ LET spec == ToComponentSpec(NextComponent(n), ld[n].project)
       IN  \/ \E described \in Described(spec) :
                IF SameSpec(spec, described)
                  THEN node' = [node EXCEPT ![n].built = Append(@, described)]
                  ELSE Exits(n, 1)
           \/ Exits(n, 1)
    /\ UNCHANGED <<files, ld, factories, validate, launch>>

RegisterStatus(n, spec) ==
    ValidateComponentSpec(spec)
    && Check(spec.name \notin Names(node[n].registered), "AlreadyExists")

RegisterComponent(n) ==
    LET spec == node[n].built[Len(node[n].registered) + 1]
    IN  /\ node[n].pc = "build" /\ Len(node[n].built) = Len(ld[n].project.components)
        /\ Len(node[n].registered) < Len(node[n].built)
        /\ IF RegisterStatus(n, spec) = "Ok"
             THEN node' = [node EXCEPT ![n].registered = Append(@, spec)]
             ELSE Exits(n, 1)
        /\ UNCHANGED <<files, ld, factories, validate, launch>>

(* RegisterAllComponents. *)
SchedulerRefuses(n) ==
    \E spec \in Range(node[n].registered) : SchedulerAccepts(spec) # "Ok"

(* InstallTaskTriggers, when Run starts the scheduler; the trigger readers  *)
(* Start creates next, which may fail, are Scheduler's.                     *)
TasksRefused(n) == ValidateTaskDependencies(node[n].registered) # "Ok"

StartScheduler(n) ==
    /\ node[n].pc = "build"
    /\ Len(node[n].registered) = Len(ld[n].project.components)
    /\ IF SchedulerRefuses(n) \/ TasksRefused(n) THEN Exits(n, 1) ELSE node' = [node EXCEPT ![n].pc = "running"]
    /\ UNCHANGED <<files, ld, factories, validate, launch>>

-----------------------------------------------------------------------------
Load(p) == LoadStep(p) /\ UNCHANGED <<factories, validate, launch, node>>

LauncherStep ==
    LoadManifest \/ LoadedNode \/ NodeUnloadable \/ CheckSystem

NodeStep(n) ==
    \/ StartNode(n)
    \/ NodeLoaded(n)
    \/ RegisterTransports(n)
    \/ BuildComponent(n)
    \/ RegisterComponent(n)
    \/ StartScheduler(n)

Next ==
    \/ LauncherStep
    \/ \E p \in Loaders : Load(p)
    \/ \E n \in Nodes : NodeStep(n)

Spec == Init /\ [][Next]_vars
-----------------------------------------------------------------------------
(* Properties. *)

INSTANCE Relation

ImportsEnded == {"deploy", "validate", "loaded"}

(* The import graph of what a process has loaded, as its resolver sees it:  *)
(* an import is looked up beside the importing file, then in the search     *)
(* paths, and a file is the same however its path is spelled.               *)
Imported(p, file) ==
    {Canonical(Candidates(p, import, file)[1]) : import \in Range(Read(files[file], "imports", <<>>))}

ImportsOf(p) ==
    LET direct == [fg \in ld[p].loaded \X ld[p].loaded |-> fg[2] \in Imported(p, fg[1])]
    IN  TransitiveClosure(direct, ld[p].loaded)

(* When the imports of a project are resolved, each file that is reached is *)
(* reached without a cycle and has added its topics and services exactly    *)
(* once, after those of every file it imports: a file imported along two    *)
(* paths or under two spellings, a file shadowed by another of its name and *)
(* a cycle through any of them included (ImportResolver::ImportInto).       *)
ImportsResolved ==
    \A p \in Loaders : ld[p].pc \in ImportsEnded =>
        LET imports == ImportsOf(p)
            origins == ld[p].origins
        IN  /\ \A f \in ld[p].loaded : /\ Imported(p, f) \subseteq ld[p].loaded
                                       /\ ~imports[f, f]
            /\ \A f \in ld[p].loaded, key \in {"topics", "services"} :
                  Field(SelectSeq(origins, LAMBDA o : o.file = f /\ o.key = key), LAMBDA o : o.id)
                     = Ids(Read(files[f], key, <<>>))
            /\ \A i, j \in DOMAIN origins :
                  imports[origins[i].file, origins[j].file] => j < i

(* Kahn's algorithm over the task triggers visits every component exactly   *)
(* when no component depends on itself, however often and through however   *)
(* many triggers one names the other (ValidateTaskDependencies).            *)
KahnFindsCycles ==
    \A p \in Loaders :
        LET components == ld[p].project.components
            names      == Names(components)
            depends    == [ab \in names \X names |->
                             ab[2] \in Range(Upstreams(Named(components, ab[1])))]
            closure    == TransitiveClosure(depends, names)
        IN  (DependenciesKnown(components) /\ Cardinality(names) = Len(components))
               => (Visited(components) = Len(components) <=> \A a \in names : ~closure[a, a])

SharesService(component) ==
    ~NoDuplicates(FlattenSeq(Field(component.triggers, LAMBDA t : t.services)))

(* Creating an application registers all of its components or none: a       *)
(* factory that fails, or returns a component of another specification,     *)
(* leaves nothing registered, and what runs is everything (CreateScheduler).*)
RegisteredTogether ==
    \A n \in Nodes :
        LET all == Field(ld[n].project.components, LAMBDA c : c.name)
            registered == Field(node[n].registered, LAMBDA s : s.name)
        IN  /\ node[n].pc = "exited" => registered \in {<<>>, all}
            /\ node[n].pc = "running" => registered = all

(* What the configuration accepts the runtime and the scheduler accept:     *)
(* every component of a loaded project can be registered, with the others   *)
(* or not at all.  The exception is a component with two triggers for one   *)
(* service, which ProjectConfig::Validate lets through and                  *)
(* Scheduler::RegisterComponent refuses.                                    *)
AcceptedProjectsRegister ==
    /\ RegisteredTogether
    /\ \A p \in Loaders : ld[p].pc = "loaded" =>
          \A c \in Range(ld[p].project.components) :
             LET spec == ToComponentSpec(c, ld[p].project)
             IN  SchedulerAccepts(spec) = "Ok" \/ SharesService(c)

Specs(label) ==
    {ToComponentSpec(c, NamedProjects[label]) : c \in Range(NamedProjects[label].components)}

Suppliers(Supplied(_), name) ==
    {label \in DOMAIN NamedProjects :
       \E spec \in Specs(label) : \E e \in Range(Supplied(spec)) : e.name = name}

(* In a system the launcher has checked, what a component reads is written  *)
(* by components of exactly one process, as the same message over the same  *)
(* transport, and what it calls is served by exactly one process under the  *)
(* same contract, whatever the deployment file made of the transports       *)
(* (ValidateSystem).  Whether that transport reaches from one process to    *)
(* the other is not checked: two processes may agree on in_memory.          *)
SuppliersAgree ==
    (launch.pc = "supervise" /\ validate) =>
        \A label \in DOMAIN NamedProjects : \A spec \in Specs(label) :
            /\ \A r \in Range(spec.readers) :
                  Cardinality(Suppliers(LAMBDA other : other.writers, r.name)) = 1
            /\ \A r \in Range(spec.readers), writer \in DOMAIN NamedProjects :
                  \A other \in Specs(writer) : \A w \in Range(other.writers) :
                     w.name = r.name => w.message = r.message /\ w.transport = r.transport
            /\ \A c \in Range(spec.clients) :
                  /\ Cardinality(Suppliers(LAMBDA other : other.servers, c.name)) = 1
                  /\ \A server \in DOMAIN NamedProjects : \A other \in Specs(server) :
                        \A s \in Range(other.servers) : s.name = c.name => SameService(s, c)

(* What the options of a node's command and its own arguments leave open    *)
(* for the configuration file that follows them.                            *)
BeforeConfig(n) == ParseWords(CommandOptions(launch.manifest) \o Entry(n).arguments)

Redirected(n) ==
    \/ BeforeConfig(n).file # None \/ BeforeConfig(n).expects # ""
    \/ BeforeConfig(n).deployment # launch.manifest.deployment

(* A node of a checked system loads exactly the project the launcher        *)
(* checked, from another process, by its own command line: the search paths *)
(* of CommandFor and of LoadOptions agree, and arguments that add search    *)
(* paths or choose a mode change nothing.  The exception is a node whose    *)
(* arguments redirect it: they name a file of their own, end in an option   *)
(* that takes the configuration file for its value, or name a deployment.   *)
(* The check does not see a node's arguments.                               *)
NodesLoadWhatWasChecked ==
    \A n \in Nodes :
        (validate /\ node[n].pc # "idle" /\ node[n].exit \notin {0, 2} /\ ~Redirected(n)) =>
            /\ ~At(n, "failed")
            /\ At(n, "loaded") => ld[n].project = NamedProjects[n]
=============================================================================
