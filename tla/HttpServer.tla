------------------------------ MODULE HttpServer ------------------------------
(***************************************************************************)
(* The request handlers of src/src/http_server.cpp at work: each           *)
(* connection's handler is posted to the thread pool, waits for its body,  *)
(* and then runs handle_post_request to the end on one worker thread,      *)
(* through the two global mutexes, the resolver's static result buffer and *)
(* the kernel's table.  One action per step between two accesses to what   *)
(* the threads share; a step of the pool, the resolver, JsonCpp, the       *)
(* connection object and the kernel is an outcome they may produce.        *)
(***************************************************************************)
EXTENDS IpvsInterface, FiniteSets

CONSTANTS
  Conns,        \* the connections, one request each ("Connection: close")
  Threads,      \* the worker threads of the pool
  Requests,     \* what a client may send, see RequestOK
  Vip,          \* config.get_vip(), a text
  Changes,      \* the entries other programs may write in the table
  WriteThrows,  \* whether writing to a broken connection may throw
  OnThrow,      \* where an escaping exception ends: "swallow", "abort"
  None          \* no connection

RequestOK(r) ==
  /\ r.json \in {"malformed", "other", "object"}
  /\ r.api_key \in {"missing", "wrong", "right"}
  /\ r.host_is \in {"missing", "compound", "text"}
  /\ r.kernels_is \in {"missing", "not_int", "int"}
  /\ r.kernels \in Int

ASSUME ServerAssumption ==
  /\ None \notin Conns
  /\ Threads \in Nat
  /\ \A r \in Requests : RequestOK(r)
  /\ Changes \subseteq Entries \cup {NoEntry}
  /\ NoEntry \notin Entries \cup Int
  /\ WriteThrows \in BOOLEAN
  /\ OnThrow # {} /\ OnThrow \subseteq {"swallow", "abort"}

VARIABLES
  pc,                   \* where each connection's handler is
  request,              \* what each client sends
  svc,                  \* ce.svc of each handler's set_weight
  target,               \* the destination each handler asks for
  success,              \* the local of handle_post_request
  reply,                \* the status each client was sent, or 0
  configuration_mutex,
  ipvs_mutex,
  hostent,              \* the static result of gethostbyname
  table,                \* the kernel's destinations
  aborted               \* the process is gone: std::terminate

vars == <<pc, request, svc, target, success, reply, configuration_mutex,
          ipvs_mutex, hostent, table, aborted>>

mutexes == <<configuration_mutex, ipvs_mutex>>
frame   == <<svc, target, success>>

-----------------------------------------------------------------------------
(* The thread pool: a task needs a worker for as long as it runs.  Reading *)
(* the body does not keep one, waiting for a mutex does.                   *)

Waiting == {"idle", "accepted", "reading", "readable"}
Ended   == {"done", "closed", "threw"}
Locked  == {"convert", "vip", "vipCopy", "server", "serverCopy", "update", "respond", "unlock"}
Running == {"config", "configLocked", "check", "lock"} \cup Locked

FreeWorker == Cardinality({c \in Conns : pc[c] \in Running}) < Threads

Goto(c, from, to) ==
  /\ ~ aborted
  /\ pc[c] = from
  /\ pc' = [pc EXCEPT ![c] = to]

-----------------------------------------------------------------------------
(* What a request must hold, in the order handle_post_request looks.       *)

Acceptable(r) ==
  /\ r.json = "object"
  /\ r.api_key = "right"
  /\ r.host_is # "missing"
  /\ r.kernels_is = "int"

\* Unparseable, then the key, then the other members.
ErrorStatus(r) == IF r.json = "object" /\ r.api_key # "right" THEN 401 ELSE 400

-----------------------------------------------------------------------------
(* Connections and their bodies.                                           *)

\* async_http_server::operator() is posted to the pool.
Accept(c) ==
  /\ Goto(c, "idle", "accepted")
  /\ UNCHANGED <<request, frame, reply, mutexes, hostent, table, aborted>>

\* connection_handler::operator(): the length is read, the first read issued.
Dispatch(c) ==
  /\ FreeWorker
  /\ Goto(c, "accepted", "reading")
  /\ UNCHANGED <<request, frame, reply, mutexes, hostent, table, aborted>>

\* The outstanding read completes, with data or with an error.
ReadCompletes(c) ==
  /\ Goto(c, "reading", "readable")
  /\ UNCHANGED <<request, frame, reply, mutexes, hostent, table, aborted>>

\* handle_post_read: an error ends the handler, a short body reads on, a
\* complete one goes on to handle_post_request on the same worker.
\* BodyReader models the arithmetic that chooses between the last two.
HandlePostRead(c) ==
  /\ FreeWorker
  /\ \E next \in {"closed", "reading", "config"} : Goto(c, "readable", next)
  /\ UNCHANGED <<request, frame, reply, mutexes, hostent, table, aborted>>

-----------------------------------------------------------------------------
(* handle_post_request *)

\* The locals of c's call are gone when it returns or unwinds.
PopFrame(c) ==
  /\ svc' = [svc EXCEPT ![c] = ClearedService]
  /\ target' = [target EXCEPT ![c] = NoTarget]
  /\ success' = [success EXCEPT ![c] = FALSE]

\* An exception leaves the handler: no reply, no unlock, and either the pool
\* swallows it or it leaves the thread function.
Throw(c, from) ==
  /\ \E outcome \in OnThrow : aborted' = (outcome = "abort")
  /\ Goto(c, from, "threw")
  /\ PopFrame(c)
  /\ UNCHANGED <<request, reply, mutexes, hostent, table>>

LockConfiguration(c) ==
  /\ configuration_mutex = None
  /\ Goto(c, "config", "configLocked")
  /\ configuration_mutex' = c
  /\ UNCHANGED <<request, frame, reply, ipvs_mutex, hostent, table, aborted>>

\* The key and the virtual service are copied before the unlock; nothing
\* writes the configuration once the server runs, so Vip stands for the copy.
UnlockConfiguration(c) ==
  /\ Goto(c, "configLocked", "check")
  /\ configuration_mutex' = None
  /\ UNCHANGED <<request, frame, reply, ipvs_mutex, hostent, table, aborted>>

CheckPasses(c) ==
  /\ Acceptable(request[c])
  /\ Goto(c, "check", "lock")
  /\ UNCHANGED <<request, frame, reply, mutexes, hostent, table, aborted>>

\* report_error with the status of the first check that fails.
CheckFails(c) ==
  /\ request[c].json # "other"
  /\ ~ Acceptable(request[c])
  /\ Goto(c, "check", "done")
  /\ reply' = [reply EXCEPT ![c] = ErrorStatus(request[c])]
  /\ UNCHANGED <<request, frame, mutexes, hostent, table, aborted>>

\* root["api_key"] on a root that is no object, or a report_error that throws.
CheckThrows(c) ==
  /\ \/ request[c].json = "other"
     \/ ~ Acceptable(request[c]) /\ WriteThrows
  /\ Throw(c, "check")

\* Mutation: the wait for the mutex gives up and goes on.
LockIpvs_timed(c) ==
  /\ Goto(c, "lock", "convert")
  /\ ipvs_mutex' = c
  /\ UNCHANGED <<request, frame, reply, configuration_mutex, hostent, table, aborted>>

LockIpvs(c) ==
  /\ ipvs_mutex = None
  /\ Goto(c, "lock", "convert")
  /\ ipvs_mutex' = c
  /\ UNCHANGED <<request, frame, reply, configuration_mutex, hostent, table, aborted>>

\* hostname.asString(), called with the mutex held: JsonCpp converts every
\* scalar and throws on an array or an object.
ConvertHost(c) ==
  /\ request[c].host_is = "text"
  /\ Goto(c, "convert", "vip")
  /\ UNCHANGED <<request, frame, reply, mutexes, hostent, table, aborted>>

ConvertThrows(c) ==
  /\ request[c].host_is = "compound"
  /\ Throw(c, "convert")

\* host_to_addr, up to the return of gethostbyname: its answer is in the
\* static buffer, or it has none and m_parse_service returns SERVICE_NONE.
Lookup(c, text, from, to) ==
  /\ NeedsLookup(text)
  /\ \/ /\ text.host \in DOMAIN Resolver
        /\ hostent' \in Resolver[text.host]
        /\ Goto(c, from, to)
     \/ /\ Goto(c, from, "respond")
        /\ UNCHANGED hostent
  /\ UNCHANGED <<request, frame, reply, mutexes, table, aborted>>

LookupVip(c) == Lookup(c, Vip, "vip", "vipCopy")

\* Mutation: the mutex is released while the resolver is asked, and only then.
LookupServer_unlocked(c) ==
  LET text == request[c].host
  IN  /\ NeedsLookup(text) /\ text.host \in DOMAIN Resolver
      /\ hostent' \in Resolver[text.host]
      /\ Goto(c, "server", "serverCopy")
      /\ ipvs_mutex' = None
      /\ UNCHANGED <<request, frame, reply, configuration_mutex, table, aborted>>

LookupServer(c) == Lookup(c, request[c].host, "server", "serverCopy")

\* The rest of m_parse_service for the VIP: the memcpy from the static buffer
\* for a name, no wait for a literal.
ParseVipText(c) ==
  LET from  == IF NeedsLookup(Vip) THEN "vipCopy" ELSE "vip"
      parse == ParseVip(Vip, hostent)
  IN  /\ Goto(c, from, IF parse.flags = SERVICE_NONE THEN "respond" ELSE "server")
      /\ svc' = [svc EXCEPT ![c] = parse.svc]
      /\ UNCHANGED <<request, target, success, reply, mutexes, hostent, table, aborted>>

\* The same for the server, and the checks of set_weight that follow.
ParseServerText(c) ==
  LET text  == request[c].host
      from  == IF NeedsLookup(text) THEN "serverCopy" ELSE "server"
      parse == ParseServer(text, svc[c], hostent)
  IN  /\ Goto(c, from, IF Reaches(svc[c], parse) THEN "update" ELSE "respond")
      /\ target' = [target EXCEPT ![c] = Target(svc[c], parse)]
      /\ UNCHANGED <<request, svc, success, reply, mutexes, hostent, table, aborted>>

\* Mutation: the result of ipvs_update_dest is lost.
UpdateDest_silent(c) ==
  /\ Editable(table, target[c])
  /\ Goto(c, "update", "respond")
  /\ table' = EditDest(table, target[c], request[c].kernels)
  /\ UNCHANGED <<request, frame, reply, mutexes, hostent, aborted>>

\* ipvs_update_dest: the kernel edits the destination and set_weight is true.
UpdateDest(c) ==
  /\ Editable(table, target[c])
  /\ Goto(c, "update", "respond")
  /\ table' = EditDest(table, target[c], request[c].kernels)
  /\ success' = [success EXCEPT ![c] = TRUE]
  /\ UNCHANGED <<request, svc, target, reply, mutexes, hostent, aborted>>

\* It is not there, not IPv4, or the kernel refuses it for reasons of its own
\* (ipvs_strerror knows EPERM, EINVAL and ENOMEM): nothing changes.
UpdateFails(c) ==
  /\ Goto(c, "update", "respond")
  /\ UNCHANGED <<request, frame, reply, mutexes, hostent, table, aborted>>

\* The reply is written before the mutex is released.
Respond(c) ==
  /\ Goto(c, "respond", "unlock")
  /\ reply' = [reply EXCEPT ![c] = IF success[c] THEN 200 ELSE 500]
  /\ UNCHANGED <<request, frame, mutexes, hostent, table, aborted>>

RespondThrows(c) == WriteThrows /\ Throw(c, "respond")

\* Mutation: only the branch that answers 200 unlocks.
UnlockIpvs_branch(c) ==
  /\ Goto(c, "unlock", "done")
  /\ ipvs_mutex' = IF success[c] THEN None ELSE ipvs_mutex
  /\ PopFrame(c)
  /\ UNCHANGED <<request, reply, configuration_mutex, hostent, table, aborted>>

UnlockIpvs(c) ==
  /\ Goto(c, "unlock", "done")
  /\ ipvs_mutex' = None
  /\ PopFrame(c)
  /\ UNCHANGED <<request, reply, configuration_mutex, hostent, table, aborted>>

-----------------------------------------------------------------------------
(* The specification.                                                      *)

\* Another program, or an administrator, edits, adds or removes a destination.
OtherProgram ==
  /\ \E d \in Destinations, e \in Changes : table' = [table EXCEPT ![d] = e]
  /\ UNCHANGED <<pc, request, frame, reply, mutexes, hostent, aborted>>

Init ==
  /\ pc = [c \in Conns |-> "idle"]
  /\ request \in [Conns -> Requests]
  /\ svc = [c \in Conns |-> ClearedService]
  /\ target = [c \in Conns |-> NoTarget]
  /\ success = [c \in Conns |-> FALSE]
  /\ reply = [c \in Conns |-> 0]
  /\ configuration_mutex = None
  /\ ipvs_mutex = None
  /\ hostent = NoAddr
  /\ table \in [Destinations -> Changes]
  /\ aborted = FALSE

\* What the code of c's handler does on a worker.
Handler(c) ==
  \/ Dispatch(c) \/ HandlePostRead(c)
  \/ LockConfiguration(c) \/ UnlockConfiguration(c)
  \/ CheckPasses(c) \/ CheckFails(c) \/ CheckThrows(c)
  \/ LockIpvs(c) \/ ConvertHost(c) \/ ConvertThrows(c)
  \/ LookupVip(c) \/ ParseVipText(c) \/ LookupServer(c) \/ ParseServerText(c)
  \/ UpdateDest(c) \/ UpdateFails(c)
  \/ Respond(c) \/ RespondThrows(c) \/ UnlockIpvs(c)

Next ==
  \/ \E c \in Conns : Accept(c) \/ ReadCompletes(c) \/ Handler(c)
  \/ OtherProgram

Spec == Init /\ [][Next]_vars

\* Every worker runs on, every library call returns and no mutex is
\* withheld for ever from a thread that could take it.
FairSpec == Spec /\ \A c \in Conns : WF_vars(Handler(c))
-----------------------------------------------------------------------------
(* Properties.                                                             *)

\* The type invariant: every variable of the handlers keeps its range.
TypeOK ==
  /\ pc \in [Conns -> Waiting \cup Running \cup Ended]
  /\ request \in [Conns -> Requests]
  /\ svc \in [Conns -> Services]
  /\ target \in [Conns -> Targets]
  /\ success \in [Conns -> BOOLEAN]
  /\ reply \in [Conns -> {0, 200, 400, 401, 500}]
  /\ configuration_mutex \in Conns \cup {None}
  /\ ipvs_mutex \in Conns \cup {None}
  /\ hostent \in Addr4 \cup {NoAddr}
  /\ table \in [Destinations -> Entries \cup {NoEntry}]
  /\ aborted \in BOOLEAN

\* Every handler between ipvs_mutex.lock() and unlock() owns the mutex, so no
\* two are inside set_weight at once, and its owner is inside, or has left by
\* an exception, which unlocks nothing; the configuration mutex is only ever
\* held by a handler about to release it.
MutexDiscipline ==
  /\ \A c \in Conns : pc[c] \in Locked => ipvs_mutex = c
  /\ \A c \in Conns : ipvs_mutex = c => pc[c] \in Locked \cup {"threw"}
  /\ \A c \in Conns : pc[c] = "configLocked" <=> configuration_mutex = c

\* The addresses a text may turn out to mean.
Answers(text) ==
  IF NeedsLookup(text) THEN IF text.host \in DOMAIN Resolver THEN Resolver[text.host] ELSE {}
  ELSE {HostAddress(text, NoAddr)}

\* gethostbyname's one static result never crosses from one request to
\* another: the service and the destination a handler asks the kernel for
\* carry addresses of its own two texts.
OwnAddress ==
  \A c \in Conns :
    /\ pc[c] \in {"server", "serverCopy", "update"} => svc[c].addr \in Answers(Vip)
    /\ pc[c] = "update" => target[c].addr \in Answers(request[c].host)

\* A handler has thrown while it held ipvs_mutex.
Leaked == \E c \in Conns : pc[c] = "threw" /\ ipvs_mutex = c

\* Once that has happened the daemon never updates a weight again: the mutex
\* keeps its dead owner and no further request is answered 200.
LeakIsFinal ==
  [][Leaked => /\ ipvs_mutex' = ipvs_mutex
               /\ \A c \in Conns : reply'[c] = 200 => reply[c] = 200]_vars

\* http_server.h:67, "a POST request is handled after all POST data has been
\* read into the buffer", whatever other requests held.
AlwaysHandled == \A c \in Conns : pc[c] = "config" ~> pc[c] \in Ended

\* A handler that has something to do gets a worker and goes on until it waits
\* for its client or ends, whatever the other handlers do, unless one of them
\* leaked the mutex or took the process down.
Served ==
  \A c \in Conns :
    pc[c] \in {"accepted", "readable", "config"}
      ~> (pc[c] \in {"reading"} \cup Ended \/ Leaked \/ aborted)

-----------------------------------------------------------------------------
(* The handlers implement WeightService.                                   *)

\* The destinations r may stand for, over all answers of the resolver.
TargetsOf(r) ==
  LET service(v) == ParseVip(Vip, v)
      parse(v, h) == ParseServer(r.host, service(v).svc, h)
  IN  {d \in Destinations :
         \E v \in Answers(Vip), h \in Answers(r.host) :
           /\ service(v).flags # SERVICE_NONE
           /\ Reaches(service(v).svc, parse(v, h))
           /\ d = Target(service(v).svc, parse(v, h))}

StatusOf(c) ==
  CASE pc[c] = "idle" -> "none"
    [] pc[c] \in {"closed", "threw"} -> "dropped"
    [] pc[c] # "idle" /\ reply[c] = 200 -> "ok"
    [] pc[c] \notin {"idle", "closed", "threw"} /\ reply[c] \notin {0, 200} -> "failed"
    [] OTHER -> IF success[c] THEN "applied" ELSE "pending"

WeightOf(d) == IF table[d] = NoEntry THEN NoEntry ELSE table[d].weight

Service == INSTANCE WeightService WITH
  Clients   <- Conns,
  Permitted <- {r \in Requests : Acceptable(r) /\ r.host_is = "text"},
  Targets   <- [r \in {q \in Requests : q.host_is = "text"} |-> TargetsOf(r)],
  NewWeight <- [r \in Requests |-> r.kernels],
  NoWeight  <- NoEntry,
  weight    <- [d \in Destinations |-> WeightOf(d)],
  status    <- [c \in Conns |-> StatusOf(c)],
  asked     <- request

\* Each request takes effect at most once, atomically, between its arrival
\* and its answer, on a destination it names and only if it is permitted; its
\* answer is 200 if it did and another status if it did not.  The handlers
\* change weights in no other way: a step that is not the abstract daemon's is
\* a step of another program, with every handler where it was.
ImplementsWeightService ==
  /\ Service!Spec
  /\ [][Service!Serve \/ OtherProgram]_(Service!serviceVars)
=============================================================================
