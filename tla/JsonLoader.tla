------------------------------ MODULE JsonLoader ------------------------------
(***************************************************************************)
(* LoadJsonConfig (src/configuration/json_loader.cpp): a project document, *)
(* the interface files it imports, depth first, and a deployment file on   *)
(* top, decoded and validated.  Each loading process has its own           *)
(* ImportResolver; the files are shared and do not change.                 *)
(*                                                                         *)
(* A JSON object is a record of the fields it has; a field or an object of *)
(* the wrong type is the value Malformed.  A path is <<directory, name>>,  *)
(* where a directory may have several spellings; an import is a file's     *)
(* name, <<name>>, or an absolute path.  Enumerations are spelled as       *)
(* Normalize leaves them.                                                  *)
(***************************************************************************)
EXTENDS ProjectConfig

CONSTANTS Loaders,      \* the processes that load a configuration
          Malformed,    \* text that is not JSON, or a value of the wrong type
          Unreadable,   \* a file that exists and cannot be opened
          Aliases,      \* directory -> the directory it is another spelling of
          None

VARIABLES files,        \* the file system: path -> document
          ld            \* per process, the load in progress or its result

-----------------------------------------------------------------------------
(* Reading fields. *)

HasFields(doc, fields) == doc # Malformed /\ DOMAIN doc \subseteq fields

Typed(doc, fields) == \A f \in fields \cap DOMAIN doc : doc[f] # Malformed

(* An object with these fields only, all of which are read. *)
CheckObject(doc, fields) == HasFields(doc, fields) /\ Typed(doc, fields)

Read(doc, key, default) == IF key \in DOMAIN doc THEN doc[key] ELSE default

TransportKind == [inmemory |-> "in_memory", in_memory |-> "in_memory",
                  fastdds |-> "fastdds", fast_dds |-> "fastdds", zmq |-> "zmq",
                  ipc |-> "ipc", shm |-> "ipc"]

TriggerKind == [manual |-> "manual", periodic |-> "periodic", data |-> "data",
                task |-> "task", task_dependency |-> "task", service |-> "service"]

DependencyPolicy == [all |-> "all", any |-> "any"]

FreshnessPolicy == [latest |-> "latest", queued |-> "queued"]

ReadEnum(doc, key, default, mapping) ==
    IF key \in DOMAIN doc THEN mapping[doc[key]] ELSE default

EnumOk(doc, key, mapping) == key \in DOMAIN doc => doc[key] \in DOMAIN mapping

(* Of a message policy, the freshness and the depth; the other fields are   *)
(* read the same way.                                                       *)
PolicyFields == {"freshness", "queue_depth"}

DefaultPolicy == [freshness |-> "latest", queue_depth |-> 1]

PolicyOk(doc) == CheckObject(doc, PolicyFields) /\ EnumOk(doc, "freshness", FreshnessPolicy)

ReadPolicy(doc, policy) ==
    [freshness |-> ReadEnum(doc, "freshness", policy.freshness, FreshnessPolicy),
     queue_depth |-> Read(doc, "queue_depth", policy.queue_depth)]

-----------------------------------------------------------------------------
(* Topics and services. *)

TopicOk(doc) ==
    /\ CheckObject(doc, {"id", "name", "transport", "message_type", "message_version",
                         "encoding", "message_policy"})
    /\ EnumOk(doc, "transport", TransportKind)
    /\ "message_policy" \in DOMAIN doc => PolicyOk(doc.message_policy)

Message(doc, type, version) ==
    [type |-> Read(doc, type, ""), encoding |-> Read(doc, "encoding", "octets"),
     version |-> Read(doc, version, 0)]

NoParameters == [p \in {} |-> ""]

DecodeTopic(doc) ==
    [id |-> Read(doc, "id", ""), name |-> Read(doc, "name", <<>>),
     transport |-> ReadEnum(doc, "transport", "in_memory", TransportKind),
     message |-> Message(doc, "message_type", "message_version"),
     policy |-> IF "message_policy" \in DOMAIN doc
                  THEN ReadPolicy(doc.message_policy, DefaultPolicy) ELSE DefaultPolicy,
     parameters |-> NoParameters]

ServiceOk(doc) ==
    /\ CheckObject(doc, {"id", "name", "transport", "request_type", "reply_type", "encoding",
                         "request_version", "reply_version", "queue_depth", "heartbeat_interval_ns"})
    /\ EnumOk(doc, "transport", TransportKind)

DecodeService(doc) ==
    [id |-> Read(doc, "id", ""), name |-> Read(doc, "name", <<>>),
     transport |-> ReadEnum(doc, "transport", "in_memory", TransportKind),
     request |-> Message(doc, "request_type", "request_version"),
     reply |-> Message(doc, "reply_type", "reply_version"),
     queue_depth |-> Read(doc, "queue_depth", 16),
     heartbeat |-> Read(doc, "heartbeat_interval_ns", 100), parameters |-> NoParameters]

-----------------------------------------------------------------------------
(* Components.  A reader is [id |-> ...] when the document names the topic, *)
(* an object with "topic" when it also sets a policy for this reader.       *)

ReaderOk(doc, topics) ==
    \/ doc # Malformed /\ "id" \in DOMAIN doc
    \/ /\ CheckObject(doc, {"topic"} \cup PolicyFields)
       /\ EnumOk(doc, "freshness", FreshnessPolicy)
       /\ Read(doc, "topic", "") # ""
       /\ HasId(topics, doc.topic)

ReaderId(doc) == IF "id" \in DOMAIN doc THEN doc.id ELSE doc.topic

WithPolicy(docs) == {i \in DOMAIN docs : "topic" \in DOMAIN docs[i]}

ReadersOk(docs, topics) ==
    /\ \A i \in DOMAIN docs : ReaderOk(docs[i], topics)
    /\ \A i, j \in WithPolicy(docs) : i # j => docs[i].topic # docs[j].topic

ReaderPolicies(docs, topics) ==
    [id \in {docs[i].topic : i \in WithPolicy(docs)} |->
       LET doc == docs[CHOOSE i \in WithPolicy(docs) : docs[i].topic = id]
       IN  ReadPolicy(doc, Find(topics, id).policy)]

TriggerOk(doc) ==
    /\ CheckObject(doc, {"kind", "period_ns", "dependency_policy", "data_topics",
                         "task_dependencies", "services", "priority", "deadline_ns"})
    /\ EnumOk(doc, "kind", TriggerKind)
    /\ EnumOk(doc, "dependency_policy", DependencyPolicy)

DecodeTrigger(doc) ==
    [kind |-> ReadEnum(doc, "kind", "manual", TriggerKind),
     period |-> Read(doc, "period_ns", 0), deadline |-> Read(doc, "deadline_ns", 0),
     policy |-> ReadEnum(doc, "dependency_policy", "all", DependencyPolicy),
     data_topics |-> Read(doc, "data_topics", <<>>),
     task_dependencies |-> Read(doc, "task_dependencies", <<>>),
     services |-> Read(doc, "services", <<>>)]

ComponentOk(doc, topics) ==
    /\ CheckObject(doc, {"name", "description", "readers", "writers", "triggers", "type", "parameters",
                         "servers", "clients"})
    /\ ReadersOk(Read(doc, "readers", <<>>), topics)
    /\ \A t \in Range(Read(doc, "triggers", <<>>)) : TriggerOk(t)

DecodeComponent(doc, topics) ==
    LET readers == Read(doc, "readers", <<>>)
    IN  [name |-> Read(doc, "name", ""), type |-> Read(doc, "type", ""),
         readers |-> Field(readers, ReaderId),
         reader_policies |-> ReaderPolicies(readers, topics),
         writers |-> Read(doc, "writers", <<>>), servers |-> Read(doc, "servers", <<>>),
         clients |-> Read(doc, "clients", <<>>),
         triggers |-> Field(Read(doc, "triggers", <<>>), DecodeTrigger)]

-----------------------------------------------------------------------------
(* The state of a load. *)

NoProject == [transport_name |-> "inmemory", worker_count |-> 1, aging |-> 0,
              topics |-> <<>>, services |-> <<>>, components |-> <<>>]

Unloaded == [pc |-> "idle", request |-> None, chain |-> <<>>, loaded |-> {},
             origins |-> <<>>, project |-> NoProject, status |-> "Ok"]

LoadIdle == [p \in Loaders |-> Unloaded]

(* A request to load the document of a file, with the directories searched  *)
(* for imports and the deployment file.                                     *)
Request(file, search_paths, deployment) ==
    [file |-> file, search_paths |-> search_paths, deployment |-> deployment]

BeginLoad(p, request) == ld' = [ld EXCEPT ![p] = [Unloaded EXCEPT !.pc = "open", !.request = request]]

At(p, pc) == ld[p].pc = pc

Fail(p, code) == ld' = [ld EXCEPT ![p].pc = "failed", ![p].status = code]

Set(p, load) == ld' = [ld EXCEPT ![p] = load]

Canonical(path) == [path EXCEPT ![1] = Read(Aliases, @, @)]

Exists(path) == Canonical(path) \in DOMAIN files

Document(path) == files[Canonical(path)]

ReadStatus(path) ==
    Check(Exists(path) /\ Document(path) # Unreadable, "Unavailable")
    && Check(Document(path) # Malformed, "InvalidArgument")

Top(p) == Last(ld[p].chain)

-----------------------------------------------------------------------------
(* The root document: its settings are decoded before the imports. *)

EmptyObject == [f \in {} |-> None]

SettingsOk(doc) ==
    /\ CheckObject(doc, {"imports", "runtime", "scheduler", "topics", "services", "components"})
    /\ CheckObject(Read(doc, "runtime", EmptyObject), 
                   {"default_transport_name", "register_inmemory_transport", "open_registered_transports"})
    /\ CheckObject(Read(doc, "scheduler", EmptyObject), {"worker_count", "priority_aging_interval_ns"})
    /\ Read(Read(doc, "runtime", EmptyObject), "default_transport_name", "inmemory") # ""

DecodeSettings(doc) ==
    LET scheduler == Read(doc, "scheduler", EmptyObject)
    IN  [NoProject EXCEPT
            !.transport_name = Read(Read(doc, "runtime", EmptyObject), "default_transport_name", @),
            !.worker_count = Read(scheduler, "worker_count", @),
            !.aging = Read(scheduler, "priority_aging_interval_ns", @)]

Frame(file, doc) == [file |-> file, doc |-> doc, at |-> 1]

OpenRoot(p) ==
    LET file   == ld[p].request.file
        doc    == Document(file)
        status == ReadStatus(file) && Check(SettingsOk(doc), "InvalidArgument")
    IN  /\ At(p, "open")
        /\ \/ status # "Ok" /\ Fail(p, status)
           \/ /\ status = "Ok"
              /\ Set(p, [ld[p] EXCEPT !.pc = "imports", !.chain = <<Frame(file, doc)>>,
                                      !.loaded = {Canonical(file)}, !.project = DecodeSettings(doc)])
        /\ UNCHANGED files

-----------------------------------------------------------------------------
(* Imports, depth first.  The chain is the files being imported, each with  *)
(* its next import; a file on the chain is a cycle, a file loaded before is *)
(* skipped.                                                                 *)

Imports(frame) == Read(frame.doc, "imports", <<>>)

IsAbsolute(import) == Len(import) = 2

(* The files an import of a file may mean, in the order they are tried. *)
Candidates(p, import, from) ==
    LET dirs  == <<from[1]>> \o ld[p].request.search_paths
        paths == IF IsAbsolute(import) THEN <<import>>
                 ELSE Field(dirs, LAMBDA d : <<d>> \o import)
    IN  SelectSeq(paths, Exists)

Advanced(p) == [ld[p] EXCEPT !.chain[Len(ld[p].chain)].at = @ + 1]

(* Mutant: the chain of importing files is not consulted. *)
Mut_OnChain(p, file) == FALSE

OnChain(p, file) ==
    \E i \in DOMAIN ld[p].chain : Canonical(ld[p].chain[i].file) = Canonical(file)

ImportOk(doc) == CheckObject(doc, {"imports", "topics", "services"})

Push(p, file) ==
    [Advanced(p) EXCEPT !.loaded = @ \cup {Canonical(file)},
                        !.chain = Append(@, Frame(file, Document(file)))]

ImportNext(p) ==
    /\ At(p, "imports")
    /\ Top(p).at <= Len(Imports(Top(p)))
    /\ LET found == Candidates(p, Imports(Top(p))[Top(p).at], Top(p).file)
           file  == found[1]
       IN  \/ found = <<>> /\ Fail(p, "InvalidArgument")
           \/ found # <<>> /\ OnChain(p, file) /\ Fail(p, "InvalidArgument")
           \/ /\ found # <<>> /\ ~OnChain(p, file) /\ Canonical(file) \in ld[p].loaded
              /\ Set(p, Advanced(p))
           \/ /\ found # <<>> /\ ~OnChain(p, file) /\ Canonical(file) \notin ld[p].loaded
              /\ LET status == ReadStatus(file) && Check(ImportOk(Document(file)), "InvalidArgument")
                 IN  IF status = "Ok" THEN Set(p, Push(p, file)) ELSE Fail(p, status)
    /\ UNCHANGED files

(* The entries a document adds to the project, unless one is malformed or   *)
(* its id was declared before, here or in another file.                     *)
Ids(docs) == Field(docs, LAMBDA d : Read(d, "id", ""))

Declared(p, key) == {o.id : o \in {q \in Range(ld[p].origins) : q.key = key}}

EntriesOk(p, docs, key) ==
    /\ \A d \in Range(docs) : IF key = "topics" THEN TopicOk(d) ELSE ServiceOk(d)
    /\ NoDuplicates(Ids(docs))
    /\ Range(Ids(docs)) \cap Declared(p, key) = {}

Origins(docs, key, file) == Field(Ids(docs), LAMBDA id : [key |-> key, id |-> id, file |-> Canonical(file)])

AppendOk(p, doc) ==
    /\ EntriesOk(p, Read(doc, "topics", <<>>), "topics")
    /\ EntriesOk(p, Read(doc, "services", <<>>), "services")

Appended(p, doc, file) ==
    LET topics   == Read(doc, "topics", <<>>)
        services == Read(doc, "services", <<>>)
    IN  [ld[p] EXCEPT
           !.project.topics = @ \o Field(topics, DecodeTopic),
           !.project.services = @ \o Field(services, DecodeService),
           !.origins = @ \o Origins(topics, "topics", file) \o Origins(services, "services", file)]

Exhausted(p) == At(p, "imports") /\ Top(p).at > Len(Imports(Top(p)))

ImportDone(p) ==
    /\ Exhausted(p) /\ Len(ld[p].chain) > 1
    /\ IF AppendOk(p, Top(p).doc)
         THEN Set(p, [Appended(p, Top(p).doc, Top(p).file) EXCEPT !.chain = Front(@)])
         ELSE Fail(p, "InvalidArgument")
    /\ UNCHANGED files

RootDone(p) ==
    LET doc        == Top(p).doc
        load       == Appended(p, doc, Top(p).file)
        components == Read(doc, "components", <<>>)
        topics     == load.project.topics
    IN  /\ Exhausted(p) /\ Len(ld[p].chain) = 1
        /\ IF AppendOk(p, doc) /\ (\A c \in Range(components) : ComponentOk(c, topics))
             THEN Set(p, [load EXCEPT
                     !.pc = "deploy", !.chain = <<>>,
                     !.project.components = Field(components, LAMBDA c : DecodeComponent(c, topics))])
             ELSE Fail(p, "InvalidArgument")
        /\ UNCHANGED files

-----------------------------------------------------------------------------
(* The deployment file sets transports and transport parameters: of every   *)
(* topic and service by its defaults, then of those of one wire name.       *)

PlacementOk(doc) ==
    /\ HasFields(doc, {"name", "transport", "transport_parameters"})
    /\ Typed(doc, {"name"})
    /\ Read(doc, "name", <<>>) # <<>>

DefaultsOk(doc) ==
    HasFields(doc, {"transport", "transport_parameters"}) /\ Typed(doc, {"transport_parameters"})

Placed(entry, doc) ==
    [entry EXCEPT !.transport = ReadEnum(doc, "transport", @, TransportKind),
                  !.parameters = Read(doc, "transport_parameters", EmptyObject) @@ @]

PlacedAll(entries, defaults, docs) ==
    LET PlaceOne(entry, doc) == IF entry.name = doc.name THEN Placed(entry, doc) ELSE entry
    IN  Field(entries, LAMBDA e : FoldLeft(PlaceOne, Placed(e, defaults), docs))

(* Settings are read when there is an entry they apply to. *)
Applies(entries, doc) ==
    \E e \in Range(entries) : "name" \in DOMAIN doc => e.name = doc.name

DeploymentOk(doc, project) ==
    LET defaults == Read(doc, "defaults", EmptyObject)
        Valid(d, entries) ==
            Applies(entries, d) => /\ Typed(d, {"transport", "transport_parameters"})
                                   /\ EnumOk(d, "transport", TransportKind)
    IN  /\ CheckObject(doc, {"topics", "services", "defaults"})
        /\ DefaultsOk(defaults)
        /\ Valid(defaults, project.topics \o project.services)
        /\ \A d \in Range(Read(doc, "topics", <<>>)) : PlacementOk(d) /\ Valid(d, project.topics)
        /\ \A d \in Range(Read(doc, "services", <<>>)) : PlacementOk(d) /\ Valid(d, project.services)

ApplyDeployment(p) ==
    LET path    == ld[p].request.deployment
        project == ld[p].project
        doc     == Document(path)
        defaults == Read(doc, "defaults", EmptyObject)
    IN  /\ At(p, "deploy")
        /\ \/ path = None /\ Set(p, [ld[p] EXCEPT !.pc = "validate"])
           \/ path # None /\ ReadStatus(path) # "Ok" /\ Fail(p, ReadStatus(path))
           \/ /\ path # None /\ ReadStatus(path) = "Ok"
              /\ IF DeploymentOk(doc, project)
                   THEN Set(p, [ld[p] EXCEPT
                          !.pc = "validate",
                          !.project.topics = PlacedAll(@, defaults, Read(doc, "topics", <<>>)),
                          !.project.services = PlacedAll(@, defaults, Read(doc, "services", <<>>))])
                   ELSE Fail(p, "InvalidArgument")
        /\ UNCHANGED files

ValidateLoaded(p) ==
    LET status == Validate(ld[p].project)
    IN  /\ At(p, "validate")
        /\ IF status = "Ok" THEN Set(p, [ld[p] EXCEPT !.pc = "loaded"]) ELSE Fail(p, status)
        /\ UNCHANGED files

LoadStep(p) ==
    \/ OpenRoot(p)
    \/ ImportNext(p)
    \/ ImportDone(p)
    \/ RootDone(p)
    \/ ApplyDeployment(p)
    \/ ValidateLoaded(p)
=============================================================================
