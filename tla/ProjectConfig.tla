---------------------------- MODULE ProjectConfig ----------------------------
(***************************************************************************)
(* A project's configuration after decoding: topics, services and          *)
(* components (src/configuration/configuration.cpp), what                  *)
(* ProjectConfig::Validate accepts, the runtime specifications built from  *)
(* it, and the checks the scheduler and ValidateSystem make on them.       *)
(*                                                                         *)
(* A wire name is the sequence of its path segments: its length stands for *)
(* the length core::ValidateName bounds, and the topics of a service are   *)
(* its name with a segment appended.  Statuses are status codes; messages  *)
(* are left out.                                                           *)
(***************************************************************************)
EXTENDS Integers, Sequences, FiniteSets, SequencesExt

CONSTANT MaxNameLength      \* core::kMaxNameLength, in path segments

-----------------------------------------------------------------------------
(* Statuses: s && t is s unless it is Ok, as a check after an early return. *)

s && t == IF s = "Ok" THEN t ELSE s

Check(condition, code) == IF condition THEN "Ok" ELSE code

FirstErrorAt(seq, Status(_)) ==
    LET from[i \in 1 .. Len(seq) + 1] ==
            IF i > Len(seq) THEN "Ok" ELSE Status(i) && from[i + 1]
    IN  from[1]

FirstError(seq, Status(_)) == FirstErrorAt(seq, LAMBDA i : Status(seq[i]))

IsFirst(seq, i) == \A j \in 1 .. i - 1 : seq[j] # seq[i]

NoDuplicates(seq) == Cardinality(Range(seq)) = Len(seq)

Field(seq, Get(_)) == [i \in DOMAIN seq |-> Get(seq[i])]

-----------------------------------------------------------------------------
(* Lookup by id: the first entry with it. *)

HasId(seq, id) == \E i \in DOMAIN seq : seq[i].id = id

Find(seq, id) == SelectSeq(seq, LAMBDA e : e.id = id)[1]

FindStatus(seq, id) == Check(HasId(seq, id), "NotFound")

-----------------------------------------------------------------------------
(* What each part accepts by itself. *)

(* One text with whitespace or a control character, and an id longer than   *)
(* kMaxNameLength, stand for all of them.                                   *)
Spaced == {"a b"}
TooLong == {"long"}

ValidateName(name) ==
    Check(Len(name) \in 1 .. MaxNameLength /\ Range(name) \cap Spaced = {}, "InvalidArgument")

ValidateId(id) == Check(id \notin {""} \cup Spaced \cup TooLong, "InvalidArgument")

ValidatePolicy(policy) == Check(policy.queue_depth > 0, "InvalidArgument")

ValidateMessage(message) ==
    Check(message.type # "" /\ message.encoding # "", "InvalidArgument")

ValidateTopic(topic) ==
    ValidateId(topic.id) && ValidateName(topic.name)
    && ValidateMessage(topic.message) && ValidatePolicy(topic.policy)

ToEndpoint(topic) == [name |-> topic.name, transport |-> topic.transport,
                      policy |-> topic.policy, message |-> topic.message]

ValidateEndpoint(endpoint) ==
    ValidateName(endpoint.name) && ValidatePolicy(endpoint.policy)
    && ValidateMessage(endpoint.message)

ToServiceSpec(service) ==
    [name |-> service.name, transport |-> service.transport,
     request |-> service.request, reply |-> service.reply,
     queue_depth |-> service.queue_depth, heartbeat |-> service.heartbeat]

ValidateServiceSpec(spec) ==
    ValidateName(spec.name) && ValidateMessage(spec.request)
    && ValidateMessage(spec.reply)
    && Check(spec.queue_depth > 0 /\ spec.heartbeat > 0, "InvalidArgument")

ValidateService(service) ==
    ValidateId(service.id) && ValidateServiceSpec(ToServiceSpec(service))

(* A service uses three topics, and one below its reply topic per client,   *)
(* the longest of its names.                                                *)
SubTopic(name, suffix) == Append(name, suffix)

EndpointsFor(spec) ==
    {SubTopic(spec.name, "request"), SubTopic(spec.name, "reply"),
     SubTopic(spec.name, "presence")}

ValidateEndpointsFor(spec) ==
    ValidateServiceSpec(spec)
    && ValidateName(SubTopic(SubTopic(spec.name, "reply"), "client"))

ValidateTriggerSpec(trigger) ==
    Check(/\ trigger.kind = "periodic" => trigger.period > 0
          /\ (trigger.kind = "service") <=> (trigger.services # <<>>)
          /\ trigger.kind \notin {"data", "task"} => trigger.policy = "all"
          /\ trigger.deadline >= 0,
          "InvalidArgument")

ValidateComponentSpec(spec) ==
    FirstError(spec.readers \o spec.writers, ValidateEndpoint)
    && FirstError(spec.triggers, ValidateTriggerSpec)
    && FirstError(spec.servers \o spec.clients, ValidateServiceSpec)

-----------------------------------------------------------------------------
(* Triggers: fields belong to their kinds, and the topic and service ids of *)
(* the project become wire names.                                           *)

KindFieldsMatch(trigger) ==
    /\ trigger.period # 0 => trigger.kind = "periodic"
    /\ trigger.policy # "all" => trigger.kind \in {"data", "task"}
    /\ trigger.data_topics # <<>> <=> trigger.kind = "data"
    /\ trigger.task_dependencies # <<>> <=> trigger.kind = "task"
    /\ trigger.services # <<>> <=> trigger.kind = "service"

TopicNames(ids, project) == Field(ids, LAMBDA id : Find(project.topics, id).name)

(* Ids that name entries, each once. *)
ValidateIds(ids, entries) ==
    FirstErrorAt(ids, LAMBDA i :
        Check(IsFirst(ids, i), "InvalidArgument") && FindStatus(entries, ids[i]))

ToTriggerSpec(trigger, project) ==
    [kind |-> trigger.kind, period |-> trigger.period, policy |-> trigger.policy,
     deadline |-> trigger.deadline,
     data_topics |-> TopicNames(trigger.data_topics, project),
     task_dependencies |-> trigger.task_dependencies,
     services |-> Field(trigger.services, LAMBDA id : Find(project.services, id).name)]

ValidateTrigger(trigger, project) ==
    Check(KindFieldsMatch(trigger), "InvalidArgument")
    && FirstErrorAt(trigger.data_topics, LAMBDA i :
          FindStatus(project.topics, trigger.data_topics[i])
          && Check(IsFirst(TopicNames(SubSeq(trigger.data_topics, 1, i), project), i), "InvalidArgument"))
    && FirstError(trigger.task_dependencies, ValidateId)
    && ValidateIds(trigger.services, project.services)
    && ValidateTriggerSpec(ToTriggerSpec(trigger, project))

-----------------------------------------------------------------------------
(* Components. *)

ReaderEndpoint(component, project, id) ==
    LET endpoint == ToEndpoint(Find(project.topics, id))
    IN  IF id \in DOMAIN component.reader_policies
          THEN [endpoint EXCEPT !.policy = component.reader_policies[id]]
          ELSE endpoint

ToComponentSpec(component, project) ==
    [name     |-> component.name,
     readers  |-> Field(component.readers, LAMBDA id : ReaderEndpoint(component, project, id)),
     writers  |-> Field(component.writers, LAMBDA id : ToEndpoint(Find(project.topics, id))),
     triggers |-> Field(component.triggers, LAMBDA t : ToTriggerSpec(t, project)),
     servers  |-> Field(component.servers, LAMBDA id : ToServiceSpec(Find(project.services, id))),
     clients  |-> Field(component.clients, LAMBDA id : ToServiceSpec(Find(project.services, id)))]

(* The topics of all the data triggers, one after the other: none twice,    *)
(* and each read through one endpoint only.                                 *)
DataTopics(spec) == FlattenSeq(Field(spec.triggers, LAMBDA t : t.data_topics))

DataTopicsDistinct(spec) ==
    /\ NoDuplicates(DataTopics(spec))
    /\ \A topic \in Range(DataTopics(spec)) :
          Len(SelectSeq(spec.readers, LAMBDA e : e.name = topic)) <= 1

TriggersStatus(component, project) ==
    FirstErrorAt(component.triggers, LAMBDA i :
        LET sofar == [component EXCEPT !.triggers = SubSeq(@, 1, i)]
        IN  ValidateTrigger(component.triggers[i], project)
            && Check(DataTopicsDistinct(ToComponentSpec(sofar, project)), "InvalidArgument"))

EndpointStatus(project, id) ==
    FindStatus(project.topics, id) && ValidateTopic(Find(project.topics, id))

ComponentSpecStatus(component, project) ==
    ValidateId(component.name)
    && FirstError(component.readers, LAMBDA id : EndpointStatus(project, id))
    && Check(/\ DOMAIN component.reader_policies \subseteq Range(component.readers)
             /\ \A id \in DOMAIN component.reader_policies :
                   ValidatePolicy(component.reader_policies[id]) = "Ok", "InvalidArgument")
    && ValidateIds(component.servers, project.services)
    && ValidateIds(component.clients, project.services)
    && FirstError(component.writers, LAMBDA id : EndpointStatus(project, id))
    && TriggersStatus(component, project)
    && ValidateComponentSpec(ToComponentSpec(component, project))

(* Mutant: a data trigger need not be on a topic the component reads. *)
Mut_ValidateComponent(component, project) == ComponentSpecStatus(component, project)

ValidateComponent(component, project) ==
    ComponentSpecStatus(component, project)
    && Check(\A i \in DOMAIN component.triggers :
                /\ Range(component.triggers[i].data_topics) \subseteq Range(component.readers)
                /\ Range(component.triggers[i].services) \subseteq Range(component.servers),
             "InvalidArgument")

-----------------------------------------------------------------------------
(* Task dependencies: no component depends on itself, on one component      *)
(* twice or on an unknown one, and Kahn's algorithm visits them all.        *)

TaskTriggers(component) == SelectSeq(component.triggers, LAMBDA t : t.kind = "task")

Upstreams(component) ==
    FlattenSeq(Field(TaskTriggers(component), LAMBDA t : t.task_dependencies))

Names(components) == {components[i].name : i \in DOMAIN components}

Named(components, name) == SelectSeq(components, LAMBDA c : c.name = name)[1]

DependenciesKnown(components) ==
    \A i \in DOMAIN components : \A t \in Range(TaskTriggers(components[i])) :
       /\ NoDuplicates(t.task_dependencies)
       /\ Range(t.task_dependencies) \subseteq Names(components) \ {components[i].name}

(* One step visits a ready component: each dependent's indegree drops by    *)
(* the times it names the component, and one that reaches zero is ready.    *)
Occurrences(seq, e) == Len(SelectSeq(seq, LAMBDA x : x = e))

(* Mutant: a dependent is told once, although it counts each mention. *)
Mut_KahnStep(components, state) ==
    LET visiting == CHOOSE c \in state.ready : TRUE
        indegree == [c \in DOMAIN state.indegree |->
                        IF visiting \in Range(Upstreams(Named(components, c)))
                          THEN state.indegree[c] - 1 ELSE state.indegree[c]]
        freed    == {c \in DOMAIN indegree : state.indegree[c] > 0 /\ indegree[c] = 0}
    IN  IF state.ready = {} THEN state
        ELSE [indegree |-> indegree, ready |-> (state.ready \ {visiting}) \cup freed,
              visited |-> state.visited + 1]

KahnStep(components, state) ==
    LET visiting == CHOOSE c \in state.ready : TRUE
        indegree == [c \in DOMAIN state.indegree |->
                        state.indegree[c] - Occurrences(Upstreams(Named(components, c)), visiting)]
        freed    == {c \in DOMAIN indegree : state.indegree[c] > 0 /\ indegree[c] = 0}
    IN  IF state.ready = {} THEN state
        ELSE [indegree |-> indegree, ready |-> (state.ready \ {visiting}) \cup freed,
              visited |-> state.visited + 1]

Visited(components) ==
    LET indegree == [c \in Names(components) |-> Len(Upstreams(Named(components, c)))]
        after[n \in 0 .. Len(components)] ==
            IF n = 0
              THEN [indegree |-> indegree, visited |-> 0,
                    ready |-> {c \in DOMAIN indegree : indegree[c] = 0}]
              ELSE KahnStep(components, after[n - 1])
    IN  after[Len(components)].visited

ValidateTaskDependencies(components) ==
    Check(DependenciesKnown(components), "InvalidArgument")
    && Check(Visited(components) = Len(components), "InvalidArgument")

-----------------------------------------------------------------------------
(* The project. *)

(* Topics of one wire name on one transport carry one kind of message.      *)
DescriptorsAgree(topics) ==
    \A i, j \in DOMAIN topics :
       (topics[i].name = topics[j].name /\ topics[i].transport = topics[j].transport)
          => topics[i].message = topics[j].message

(* A service's topics belong to no topic and to no other service.           *)
WireNamesDistinct(project, i) ==
    LET mine == EndpointsFor(ToServiceSpec(project.services[i]))
    IN  /\ \A t \in Range(project.topics) : t.name \notin mine
        /\ \A j \in 1 .. i - 1 :
              mine \cap EndpointsFor(ToServiceSpec(project.services[j])) = {}

ValidateServices(project) ==
    FirstError([i \in DOMAIN project.services |-> i], LAMBDA i :
        LET service == project.services[i]
        IN  Check(\A j \in 1 .. i - 1 : project.services[j].id # service.id, "AlreadyExists")
            && ValidateService(service)
            && ValidateEndpointsFor(ToServiceSpec(service))
            && Check(WireNamesDistinct(project, i), "InvalidArgument"))

Validate(project) ==
    ValidateId(project.transport_name)
    && Check(project.worker_count > 0 /\ project.aging >= 0, "InvalidArgument")
    && Check(NoDuplicates(Field(project.topics, LAMBDA t : t.id)), "AlreadyExists")
    && Check(NoDuplicates(Field(project.components, LAMBDA c : c.name)), "AlreadyExists")
    && FirstError(project.topics, ValidateTopic)
    && Check(DescriptorsAgree(project.topics), "InvalidArgument")
    && ValidateServices(project)
    && FirstError(project.components, LAMBDA c : ValidateComponent(c, project))
    && ValidateTaskDependencies(project.components)

-----------------------------------------------------------------------------
(* The scheduler's own checks of a component registered with it, and of the *)
(* task triggers when it starts (src/scheduler/scheduler.cpp).              *)

FindReaderEndpoint(spec, topic) ==
    Len(SelectSeq(spec.readers, LAMBDA e : e.name = topic)) = 1

FindServedService(spec, service) ==
    \E i \in DOMAIN spec.servers : spec.servers[i].name = service

SchedulerTriggerValid(spec, trigger) ==
    /\ ValidateTriggerSpec(trigger) = "Ok"
    /\ trigger.kind = "data" =>
          /\ trigger.data_topics # <<>>
          /\ \A topic \in Range(trigger.data_topics) : FindReaderEndpoint(spec, topic)
    /\ trigger.kind = "task" => trigger.task_dependencies # <<>>
    /\ trigger.kind = "service" =>
          \A service \in Range(trigger.services) : FindServedService(spec, service)

(* No topic and no service starts two triggers, or one of them twice.       *)
TriggerServices(spec) == FlattenSeq(Field(spec.triggers, LAMBDA t : t.services))

SchedulerAccepts(spec) ==
    ValidateComponentSpec(spec)
    && Check(/\ \A trigger \in Range(spec.triggers) : SchedulerTriggerValid(spec, trigger)
             /\ NoDuplicates(DataTopics(spec))
             /\ NoDuplicates(TriggerServices(spec)), "InvalidArgument")

-----------------------------------------------------------------------------
(* ValidateSystem: the projects of several processes together.              *)
(* `projects` is a function from labels to projects, `Uses` the ids that    *)
(* its components name in one field.                                        *)

Uses(project, field) == UNION {Range(c[field]) : c \in Range(project.components)}

Users(projects, name, entries, field) ==
    {label \in DOMAIN projects :
       \E id \in Uses(projects[label], field) :
          /\ HasId(projects[label][entries], id)
          /\ Find(projects[label][entries], id).name = name}

DeclarationsOf(projects, labels, name, entries) ==
    UNION {{e \in Range(projects[label][entries]) : e.name = name} : label \in labels}

(* Mutant: the reply is not part of a service's contract. *)
Mut_Contract(entry) ==
    IF "message" \in DOMAIN entry
      THEN <<entry.message, entry.transport>>
      ELSE <<entry.request, entry.transport>>

Contract(entry) ==
    IF "message" \in DOMAIN entry
      THEN <<entry.message, entry.transport>>
      ELSE <<entry.request, entry.reply, entry.transport>>

(* One supplier (writer or server) of what is used, and one contract among  *)
(* the declarations of the processes that use it.                           *)
UseErrors(projects, name, entries, supply, demand) ==
    LET suppliers == Users(projects, name, entries, supply)
        users     == suppliers \cup Users(projects, name, entries, demand)
        contracts == {Contract(d) : d \in DeclarationsOf(projects, users, name, entries)}
    IN  users # {} /\ (Cardinality(contracts) > 1 \/ Cardinality(suppliers) # 1)

DeclaredNames(projects, entries) ==
    UNION {{e.name : e \in Range(projects[label][entries])} : label \in DOMAIN projects}

ValidateSystem(projects) ==
    /\ \A name \in DeclaredNames(projects, "topics") :
          ~ UseErrors(projects, name, "topics", "writers", "readers")
    /\ \A name \in DeclaredNames(projects, "services") :
          ~ UseErrors(projects, name, "services", "servers", "clients")
=============================================================================
