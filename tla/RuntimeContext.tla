--------------------------- MODULE RuntimeContext ---------------------------
(***************************************************************************)
(* The transports of a runtime (runtime/context.cpp): registering, opening *)
(* and closing them, and creating endpoints on them, as operators on a     *)
(* context.  A call that may fail yields [ok, rt].  Transports are opened  *)
(* by their kind's backend, which may refuse: `works` is what it answers.  *)
(***************************************************************************)
EXTENDS Naturals, Sequences

\* open, and the registered transports by name
EmptyContext == [open |-> FALSE, transports |-> << >>]

Ok(rt) == [ok |-> TRUE, rt |-> rt]
Failed(rt) == [ok |-> FALSE, rt |-> rt]

Names(rt) == DOMAIN rt.transports

\* FindTransport(kind), by transport_by_kind.
KindRegistered(rt, kind) == \E n \in Names(rt) : rt.transports[n].kind = kind

\* A name, and a kind, can be registered once; a transport registered with an
\* open context is opened first, and is not registered when that fails.
RegisterTransport(rt, transport, opens, works) ==
  LET opened == rt.open \/ opens
      registered ==
        [n \in Names(rt) \cup {transport.name} |->
           IF n = transport.name THEN [kind |-> transport.kind, open |-> opened]
           ELSE rt.transports[n]]
  IN  IF \/ transport.name \in Names(rt) \/ KindRegistered(rt, transport.kind)
         \/ opened /\ ~works
      THEN Failed(rt)
      ELSE Ok([rt EXCEPT !.transports = registered])

EnsureDefaultTransports(rt, options, works) ==
  IF ~options.inmemory \/ KindRegistered(rt, "inmemory") THEN Ok(rt)
  ELSE RegisterTransport(rt, [name |-> options.name, kind |-> "inmemory"], options.opens, works)

\* Open what is registered and not open yet; Create calls it when that is the
\* default transport at most.
Open(rt, options, works) ==
  LET ensured == EnsureDefaultTransports(rt, options, works)
      names   == Names(ensured.rt)
  IN  IF ~ensured.ok THEN ensured
      ELSE IF ~works /\ \E n \in names : ~ensured.rt.transports[n].open THEN Failed(ensured.rt)
      ELSE Ok([open |-> TRUE,
               transports |-> [n \in names |-> [ensured.rt.transports[n] EXCEPT !.open = TRUE]]])

\* Every transport is closed, whatever the others answered.
Close(rt) ==
  [open |-> FALSE, transports |-> [n \in Names(rt) |-> [rt.transports[n] EXCEPT !.open = FALSE]]]

\* CreateReader and CreateWriter: the context is open and its transport of the
\* kind takes the endpoint.
CanCreateEndpoint(rt, kind) ==
  /\ rt.open
  /\ \E n \in Names(rt) : rt.transports[n].kind = kind /\ rt.transports[n].open
=============================================================================
