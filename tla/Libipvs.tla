-------------------------------- MODULE Libipvs --------------------------------
(***************************************************************************)
(* src/depend/libipvs/libipvs.c: one thread calls the library, over        *)
(* setsockopt or, when it is built with LIBIPVS_USE_NL, over generic       *)
(* netlink with setsockopt to fall back on.  A socket option is one step   *)
(* of the kernel; a netlink call builds its message, opens a socket and    *)
(* resolves the family, sends, and receives an answer or a dump entry by   *)
(* entry, while other programs change the table and the module is          *)
(* reloaded.  Memory does not run out; every other error may happen.       *)
(***************************************************************************)
EXTENDS IpvsKernel, Sequences

CONSTANTS
  Builds,       \* "sockopt" (as CMake builds it), "netlink"
  Callers,      \* what processes call and what goes on around them
  Tables0,      \* the tables the kernel may hold at first
  WithPe,       \* the services with a persistence engine
  Word,         \* 2^32 in the code
  Counts,       \* what a connection counter may reach
  ServiceList,  \* set of services -> those in the order the kernel lists them
  DestList,     \* the same of destinations
  MaxLoads      \* bound: how often the module is loaded

\* A sequence of every element of S, each of them once.
Lists(seq, S) ==
  /\ {seq[i] : i \in DOMAIN seq} = S
  /\ \A i, j \in DOMAIN seq : seq[i] = seq[j] => i = j

ASSUME LibraryAssumption ==
  /\ Builds \subseteq {"sockopt", "netlink"}
  /\ Tables0 \subseteq Tables
  /\ Counts \subseteq Nat /\ Word \in Nat \ {0} /\ MaxLoads \in Nat
  /\ ServiceList \in [SUBSET Services -> Seq(Services)]
  /\ DestList \in [SUBSET Dests -> Seq(Dests)]
  /\ \A S \in SUBSET Services : Lists(ServiceList[S], S)
  /\ \A S \in SUBSET Dests : Lists(DestList[S], S)

VARIABLES
  build,         \* the library that is linked
  caller,        \* the functions the process calls, the commands around it
  table,         \* the kernel's table
  kernel_family, \* the netlink family of the loaded module, or NoFamily
  loads,         \* how often it has been loaded
  try_nl,        \* the globals of libipvs.c
  family,
  num_services,  \* ipvs_info.num_services
  pc,            \* where the call in progress is
  call,          \* its function, its message and what it has gathered
  result,        \* what the last call returned
  entry,         \* a service entry the caller has kept
  initialised,   \* the last ipvs_init returned 0
  fresh,         \* what has not changed since; read by properties only
  strikes        \* messages in a row with a family of the past

kernel  == <<table, kernel_family, loads>>
library == <<try_nl, family, num_services>>
history == <<fresh, strikes>>
vars == <<build, caller, kernel, library, pc, call, result, entry, initialised, history>>

NoFamily == 0

Netlink == build = "netlink" /\ try_nl

Loaded == kernel_family # NoFamily

NoCommand == [op |-> "none", svc |-> None, dest |-> None, opt |-> None]

NoCall == [fn |-> "none", cmd |-> NoCommand, family |-> NoFamily,
           got |-> <<>>, seen |-> 0, num |-> 0, capacity |-> 0]

NoResult == [fn |-> "none", ok |-> FALSE, via |-> "sockopt", cmd |-> NoCommand,
             got |-> <<>>, garbage |-> 0]

Via == IF Netlink THEN "netlink" ELSE "sockopt"

-----------------------------------------------------------------------------
(* What is read of the kernel.                                             *)

ServicesOf(t) == {s \in Services : ServiceExists(t, s)}

\* The socket options know of no other addresses than IPv4's.
ServicesVia(t, via) ==
  ServiceList[{s \in ServicesOf(t) : via = "netlink" \/ s \in V4}]

DestsOf(t, s) == DestList[{d \in Dests : DestExists(t, s, d)}]

\* The connection counter a parser makes of the kernel's.
copy_stats_from_kern(conns) == conns % Word

ipvs_parse_stats(conns) == conns % Word

ipvs_parse_stats64(conns) == conns

\* Mutation: the entry of a netlink dump keeps the kernel's count.
ReadService_counted(t, s, via) ==
  [svc |-> s, num_dests |-> Len(DestsOf(t, s)), opt |-> t.services[s].opt, via |-> via,
   conns |-> IF via = "netlink" THEN ipvs_parse_stats64(t.services[s].conns)
             ELSE copy_stats_from_kern(t.services[s].conns)]

\* One element of an ip_vs_get_services; netlink does not count destinations.
ReadService(t, s, via) ==
  [svc |-> s, num_dests |-> IF via = "netlink" THEN 0 ELSE Len(DestsOf(t, s)),
   opt |-> t.services[s].opt, via |-> via,
   conns |-> IF via = "netlink" THEN ipvs_parse_stats64(t.services[s].conns)
             ELSE copy_stats_from_kern(t.services[s].conns)]

\* One element of an ip_vs_get_dests: ipvs_dests_parse_cb reads the 64-bit
\* statistics with the parser of the 32-bit ones.
ReadDest(t, s, d, via) ==
  [dest |-> d, opt |-> t.dests[s][d].opt,
   conns |-> IF via = "netlink" THEN ipvs_parse_stats(t.dests[s][d].conns)
             ELSE copy_stats_from_kern(t.dests[s][d].conns)]

\* The daemons that run, the master's message first.
ReadDaemons(t) ==
  (IF "master" \in t.daemons THEN <<"master">> ELSE <<>>)
    \o (IF "backup" \in t.daemons THEN <<"backup">> ELSE <<>>)

-----------------------------------------------------------------------------
(* Calls and returns.                                                      *)

\* What has not changed in the table since the services were counted, since
\* the caller got its entry and since the call in progress began.
Aged(f) ==
  [info  |-> f.info /\ ServicesOf(table') = ServicesOf(table),
   entry |-> f.entry /\ table'.dests = table.dests /\ ServicesOf(table') = ServicesOf(table),
   call  |-> f.call /\ table' = table]

\* Bound: the services, destinations and settings that come up.
Named(cmd) == {cmd.svc, cmd.dest, cmd.opt} \subseteq caller.names \cup {None}

Calls(fn, cmd) == pc = "idle" /\ fn \in caller.uses /\ Named(cmd)

Read(op, s) == [op |-> op, svc |-> s, dest |-> None, opt |-> None]

Return(fn, cmd, ok, got, garbage) ==
  /\ pc' = "idle"
  /\ call' = NoCall
  /\ result' = [fn |-> fn, ok |-> ok, via |-> Via, cmd |-> cmd, got |-> got,
                garbage |-> garbage]
  /\ initialised' = IF fn = "ipvs_init" THEN ok ELSE initialised

\* NULL or -1.
Failed(fn, cmd) == Return(fn, cmd, FALSE, <<>>, 0)

\* ipvs_nl_message: the header carries the family known so far.  The array of
\* a dump starts with num entries and room for those, or for one.
Message(fn, cmd, num, fam) ==
  /\ pc' = "resolve"
  /\ call' = [fn |-> fn, cmd |-> cmd, family |-> fam, got |-> <<>>, seen |-> 0,
              num |-> num, capacity |-> IF num = 0 THEN 1 ELSE num]
  /\ result' = NoResult
  /\ UNCHANGED initialised

\* Every function with LIBIPVS_USE_NL: build the message, or fail to.
NlCall(fn, cmd, num) ==
  /\ Netlink /\ initialised
  /\ Calls(fn, cmd)
  /\ Message(fn, cmd, num, family) \/ Failed(fn, cmd)
  /\ fresh' = [fresh EXCEPT !.call = TRUE]
  /\ UNCHANGED <<build, caller, kernel, library, entry, strikes>>

\* A command as a socket option: refused by CHECK_COMPAT_SVC and _DEST, by the
\* kernel, or carried out before the call returns.
SetSockopt(fn, cmd, compatible) ==
  /\ ~ Netlink /\ initialised
  /\ Calls(fn, cmd)
  /\ \/ /\ compatible /\ Loaded /\ Accepts(table, cmd)
        /\ table' = Effect(table, cmd)
        /\ Return(fn, cmd, TRUE, <<>>, 0)
     \/ Failed(fn, cmd) /\ UNCHANGED table
  /\ fresh' = Aged([fresh EXCEPT !.call = TRUE])
  /\ UNCHANGED <<build, caller, kernel_family, loads, library, entry, strikes>>

\* The same for what only reads; a caller that gets an entry keeps it.
GetSockopt(fn, cmd, possible, got, garbage) ==
  /\ ~ Netlink /\ initialised
  /\ Calls(fn, cmd)
  /\ \/ /\ possible /\ Loaded
        /\ Return(fn, cmd, TRUE, got, garbage)
        /\ IF cmd.op \in {"get_services", "get_service"} /\ got # <<>>
           THEN /\ \E i \in DOMAIN got : entry' = got[i]
                /\ fresh' = [fresh EXCEPT !.call = TRUE, !.entry = TRUE]
           ELSE fresh' = [fresh EXCEPT !.call = TRUE] /\ UNCHANGED entry
     \/ /\ Failed(fn, cmd)
        /\ fresh' = [fresh EXCEPT !.call = TRUE] /\ UNCHANGED entry
  /\ UNCHANGED <<build, caller, kernel, library, strikes>>

-----------------------------------------------------------------------------
(* The commands.                                                           *)

\* CHECK_COMPAT_SVC, CHECK_COMPAT_DEST: no IPv6 and no persistence engine.
CompatSvc(s) == s \in V4 /\ s \notin WithPe

CompatDest(d) == d \in V4

Command(fn, cmd, compatible) == NlCall(fn, cmd, 0) \/ SetSockopt(fn, cmd, compatible)

OnService(op, s, o) == [op |-> op, svc |-> s, dest |-> None, opt |-> o]

OnDest(op, s, d, o) == [op |-> op, svc |-> s, dest |-> d, opt |-> o]

Overall(op, o) == OnService(op, None, o)

ipvs_flush == \E o \in Options : Command("ipvs_flush", Overall("flush", o), TRUE)

ipvs_add_service(s) ==
  \E o \in Options : Command("ipvs_add_service", OnService("new_service", s, o), CompatSvc(s))

ipvs_update_service(s) ==
  \E o \in Options : Command("ipvs_update_service", OnService("set_service", s, o), CompatSvc(s))

ipvs_del_service(s) ==
  \E o \in Options : Command("ipvs_del_service", OnService("del_service", s, o), CompatSvc(s))

\* A service of zeroes stands for all of them.
ipvs_zero_service ==
  \E o \in Options :
    \/ \E s \in Services : Command("ipvs_zero_service", OnService("zero", s, o), CompatSvc(s))
    \/ Command("ipvs_zero_service", Overall("zero_all", o), TRUE)

Compat(s, d) == CompatSvc(s) /\ CompatDest(d)

ipvs_add_dest(s, d) ==
  \E o \in Options : Command("ipvs_add_dest", OnDest("new_dest", s, d, o), Compat(s, d))

ipvs_update_dest(s, d) ==
  \E o \in Options : Command("ipvs_update_dest", OnDest("set_dest", s, d, o), Compat(s, d))

ipvs_del_dest(s, d) ==
  \E o \in Options : Command("ipvs_del_dest", OnDest("del_dest", s, d, o), Compat(s, d))

ipvs_set_timeout ==
  \E o \in Options : Command("ipvs_set_timeout", Overall("set_timeout", o), TRUE)

ipvs_start_daemon(state) ==
  Command("ipvs_start_daemon", Overall("new_daemon", state), TRUE)

ipvs_stop_daemon(state) ==
  Command("ipvs_stop_daemon", Overall("del_daemon", state), TRUE)

-----------------------------------------------------------------------------
(* The questions.                                                          *)

\* As many entries as were counted and are there; the rest of the malloc'ed
\* buffer is read as it is.
Listed(list, n) == SubSeq(list, 1, IF n < Len(list) THEN n ELSE Len(list))

\* Mutation: the difference of the two counts.
Garbage_signed(list, n) == n - Len(list)

Garbage(list, n) == n - Len(Listed(list, n))

\* Mutation: room is made for one service less than were counted.
Counted_short == IF num_services > 0 THEN num_services - 1 ELSE 0

\* The size a socket option's dump is given: the services the last
\* IP_VS_SO_GET_INFO counted.
Counted == num_services

ipvs_get_services ==
  LET there  == ServicesVia(table, "sockopt")
      listed == Listed(there, Counted)
  IN  \/ NlCall("ipvs_get_services", Read("get_services", None), 0)
      \/ GetSockopt("ipvs_get_services", Read("get_services", None), TRUE,
                    [i \in 1 .. Len(listed) |-> ReadService(table, listed[i], "sockopt")],
                    Garbage(there, Counted))

\* The entry the caller got from one of the other two says how many there are.
ipvs_get_dests ==
  LET s      == entry.svc
      there  == DestsOf(table, s)
      listed == Listed(there, entry.num_dests)
  IN  /\ entry # None
      /\ \/ NlCall("ipvs_get_dests", Read("get_dests", s), entry.num_dests)
         \/ GetSockopt("ipvs_get_dests", Read("get_dests", s),
                       s \in V4 /\ ServiceExists(table, s),
                       [i \in 1 .. Len(listed) |-> ReadDest(table, s, listed[i], "sockopt")],
                       Garbage(there, entry.num_dests))

\* The answer to a question about one thing.
Answer(t, cmd, via) ==
  CASE cmd.op = "get_service" -> <<ReadService(t, cmd.svc, via)>>
    [] cmd.op = "get_timeout" -> <<t.timeouts>>
    [] OTHER -> <<>>

Answered(t, cmd) == cmd.op = "get_service" => ServiceExists(t, cmd.svc)

\* The structure that CHECK_COMPAT_SVC sees has been cleared: over a socket
\* option only the family is looked at, and pe_name never refuses.
ipvs_get_service(s) ==
  \/ NlCall("ipvs_get_service", Read("get_service", s), 0)
  \/ LET cmd == Read("get_service", s)
         possible == s \in V4 /\ Answered(table, cmd)
     IN  GetSockopt("ipvs_get_service", cmd, possible,
                    IF possible THEN Answer(table, cmd, "sockopt") ELSE <<>>, 0)

ipvs_get_timeout ==
  LET cmd == Read("get_timeout", None)
  IN  \/ NlCall("ipvs_get_timeout", cmd, 0)
      \/ GetSockopt("ipvs_get_timeout", cmd, TRUE, Answer(table, cmd, "sockopt"), 0)

ipvs_get_daemon ==
  LET cmd == Read("get_daemon", None)
  IN  \/ NlCall("ipvs_get_daemon", cmd, 0)
      \/ GetSockopt("ipvs_get_daemon", cmd, TRUE, ReadDaemons(table), 0)

-----------------------------------------------------------------------------
(* Opening and closing.                                                    *)

Probe == Read("probe", None)

Info == Read("info", None)

\* IP_VS_SO_GET_INFO, on a raw socket that may not be had.
InfoSockopt(fn) ==
  /\ \/ /\ Loaded
        /\ Return(fn, Info, TRUE, <<>>, 0)
        /\ num_services' = Len(ServicesVia(table, "sockopt"))
        /\ fresh' = [fresh EXCEPT !.info = TRUE, !.call = TRUE]
     \/ /\ Failed(fn, Info)
        /\ fresh' = [fresh EXCEPT !.call = TRUE]
        /\ UNCHANGED num_services
  /\ UNCHANGED <<build, caller, kernel, try_nl, family, entry, strikes>>

\* ipvs_init with netlink begins with an empty message, to try it out and to
\* learn the family.
ipvs_init ==
  /\ Calls("ipvs_init", Probe)
  /\ \/ build = "sockopt" /\ InfoSockopt("ipvs_init")
     \/ /\ build = "netlink"
        /\ try_nl' = TRUE
        /\ Message("ipvs_init", Probe, 0, NoFamily)
        /\ fresh' = [fresh EXCEPT !.call = TRUE]
        /\ UNCHANGED <<build, caller, kernel, family, num_services, entry, strikes>>

\* When that fails the socket options are used from then on.
FallBack == pc = "fallback" /\ InfoSockopt("ipvs_init")

\* netlink leaves num_services as it was.
ipvs_getinfo ==
  \/ NlCall("ipvs_getinfo", Info, 0)
  \/ ~ Netlink /\ initialised /\ Calls("ipvs_getinfo", Info) /\ InfoSockopt("ipvs_getinfo")

\* A second ipvs_init before this one leaves its socket open: see RateTest.
ipvs_close ==
  /\ Calls("ipvs_close", NoCommand) /\ initialised
  /\ initialised' = FALSE
  /\ UNCHANGED <<build, caller, kernel, library, pc, call, result, entry, history>>

-----------------------------------------------------------------------------
(* ipvs_nl_send_message                                                    *)

\* Any failure: -1, except that ipvs_init then tries the socket options.
NlFails ==
  IF call.cmd.op = "probe"
  THEN /\ pc' = "fallback"
       /\ try_nl' = FALSE
       /\ call' = NoCall
       /\ UNCHANGED <<result, initialised>>
  ELSE Failed(call.fn, call.cmd) /\ UNCHANGED try_nl

outside == <<build, caller, num_services, entry>>

\* No socket, or no connection.
NlNoSocket ==
  /\ pc = "resolve"
  /\ NlFails
  /\ UNCHANGED <<outside, kernel, family, history>>

Unresolved == -1

\* genl_ctrl_resolve: no such family while the module is not loaded, and
\* perhaps none for other reasons; the global takes the error.
NlUnresolved ==
  /\ pc = "resolve"
  /\ family' = Unresolved
  /\ strikes' = 0
  /\ NlFails
  /\ UNCHANGED <<outside, kernel, fresh>>

\* Mutation: a family that was resolved once is kept.
NlResolve_cached ==
  /\ pc = "resolve" /\ Loaded
  /\ family' = IF family > 0 THEN family ELSE kernel_family
  /\ IF call.cmd.op = "probe"
     THEN Message(call.fn, Info, 0, family')
     ELSE pc' = "send" /\ UNCHANGED <<call, result, initialised>>
  /\ UNCHANGED <<outside, kernel, try_nl, history>>

\* The family is known for the next message; this one has been written. The
\* empty message has done its work, and ipvs_init goes on with ipvs_getinfo.
NlResolve ==
  /\ pc = "resolve" /\ Loaded
  /\ family' = kernel_family
  /\ IF call.cmd.op = "probe"
     THEN Message(call.fn, Info, 0, kernel_family)
     ELSE pc' = "send" /\ UNCHANGED <<call, result, initialised>>
  /\ UNCHANGED <<outside, kernel, try_nl, history>>

\* The message is not sent, or refused by the kernel for reasons of its own.
NlSendFails ==
  /\ pc = "send"
  /\ NlFails
  /\ UNCHANGED <<outside, kernel, family, history>>

\* A message with a family of the past reaches nobody.
NlSendStale ==
  /\ pc = "send"
  /\ call.family # kernel_family \/ ~ Loaded
  /\ strikes' = strikes + 1
  /\ NlFails
  /\ UNCHANGED <<outside, kernel, family, fresh>>

Arrives == pc = "send" /\ Loaded /\ call.family = kernel_family /\ strikes' = 0

\* The kernel carries a command out; its acknowledgement is on its way.
NlCommand ==
  /\ Arrives
  /\ call.cmd \in Commands /\ Accepts(table, call.cmd)
  /\ table' = Effect(table, call.cmd)
  /\ pc' = "receive"
  /\ fresh' = Aged(fresh)
  /\ UNCHANGED <<outside, kernel_family, loads, try_nl, family, call, result, initialised>>

Dumps == {"get_services", "get_dests", "get_daemon"}

\* Mutation: the question goes out as the command of ipvs_zero_service.
NlQuestion_zeroing ==
  /\ Arrives
  /\ call.cmd.op \in {"info", "get_service", "get_timeout"} /\ Answered(table, call.cmd)
  /\ call' = [call EXCEPT !.got = Answer(table, call.cmd, "netlink")]
  /\ pc' = "receive"
  /\ table' = IF call.cmd.op = "get_service"
              THEN [table EXCEPT !.services[call.cmd.svc].conns = 0] ELSE table
  /\ fresh' = Aged(fresh)
  /\ UNCHANGED <<outside, kernel_family, loads, try_nl, family, result, initialised>>

\* The kernel answers a question about one thing.
NlQuestion ==
  /\ Arrives
  /\ call.cmd.op \in {"info", "get_service", "get_timeout"} /\ Answered(table, call.cmd)
  /\ call' = [call EXCEPT !.got = Answer(table, call.cmd, "netlink")]
  /\ pc' = "receive"
  /\ UNCHANGED <<outside, kernel, try_nl, family, result, initialised, fresh>>

NlDump ==
  /\ Arrives
  /\ call.cmd.op \in Dumps
  /\ pc' = "dump"
  /\ UNCHANGED <<outside, kernel, try_nl, family, call, result, initialised, fresh>>

\* What the kernel goes through for a dump, from where it stands now.
Source ==
  CASE call.cmd.op = "get_services" ->
         LET ss == ServicesVia(table, "netlink")
         IN  [i \in 1 .. Len(ss) |-> ReadService(table, ss[i], "netlink")]
    [] call.cmd.op = "get_dests" ->
         IF ServiceExists(table, call.cmd.svc)
         THEN LET ds == DestsOf(table, call.cmd.svc)
              IN  [i \in 1 .. Len(ds) |-> ReadDest(table, call.cmd.svc, ds[i], "netlink")]
         ELSE <<>>
    [] OTHER -> ReadDaemons(table)

\* Mutation: the second daemon takes the place of the first.
Store_first(got, x) == IF call.cmd.op = "get_daemon" THEN <<x>> ELSE Append(got, x)

\* Mutation: num_dests is not advanced.
Store_over(got, x) == IF call.cmd.op = "get_dests" THEN <<x>> ELSE Append(got, x)

\* The parse callbacks: the next element of the array.
Store(got, x) == Append(got, x)

\* One message of a dump and its callback, which makes room for one entry
\* more.  Without room for this one it writes behind the array.
NlDumpEntry ==
  /\ pc = "dump" /\ call.seen < Len(Source)
  /\ IF call.num < call.capacity \/ call.cmd.op = "get_daemon"
     THEN /\ call' = [call EXCEPT !.got = Store(@, Source[call.seen + 1]), !.seen = @ + 1,
                                  !.num = @ + 1, !.capacity = call.num + 2]
          /\ UNCHANGED pc
     ELSE /\ pc' = "undefined"
          /\ UNCHANGED call
  /\ UNCHANGED <<outside, kernel, try_nl, family, result, initialised, history>>

Keep(got) ==
  IF call.cmd.op \in {"get_services", "get_service"} /\ got # <<>>
  THEN (\E i \in DOMAIN got : entry' = got[i]) /\ fresh' = [fresh EXCEPT !.entry = TRUE]
  ELSE UNCHANGED <<entry, fresh>>

\* The acknowledgement, the answer or the end of the dump.
NlReceive ==
  /\ \/ pc = "receive"
     \/ pc = "dump" /\ call.seen >= Len(Source)
  /\ Return(call.fn, call.cmd, TRUE, call.got,
            IF pc = "dump" THEN call.num - Len(call.got) ELSE 0)
  /\ Keep(call.got)
  /\ UNCHANGED <<build, caller, kernel, library, strikes>>

\* It is lost: nl_recvmsgs fails, whatever the kernel did.
NlReceiveFails ==
  /\ pc \in {"receive", "dump"}
  /\ NlFails
  /\ UNCHANGED <<outside, kernel, family, history>>

-----------------------------------------------------------------------------
(* Everything else on the machine.                                         *)

inside == <<build, caller, library, pc, call, result, entry, initialised>>

OtherProgram ==
  /\ Loaded
  /\ \E c \in Commands :
       /\ c.op \in caller.around /\ Named(c)
       /\ Accepts(table, c)
       /\ table' = Effect(table, c)
  /\ fresh' = Aged(fresh)
  /\ UNCHANGED <<inside, kernel_family, loads, strikes>>

Traffic ==
  /\ "traffic" \in caller.around
  /\ \E n \in Counts, s \in Services :
       \/ /\ ServiceExists(table, s) /\ table.services[s].conns < n
          /\ table' = [table EXCEPT !.services[s].conns = n]
       \/ \E d \in Dests :
            /\ DestExists(table, s, d) /\ table.dests[s][d].conns < n
            /\ table' = [table EXCEPT !.dests[s][d].conns = n]
  /\ fresh' = Aged(fresh)
  /\ UNCHANGED <<inside, kernel_family, loads, strikes>>

\* rmmod, and modprobe, which gives the family another number.
Unload ==
  /\ "reload" \in caller.around /\ Loaded
  /\ kernel_family' = NoFamily
  /\ table' = EmptyTable
  /\ fresh' = Aged(fresh)
  /\ strikes' = 0
  /\ UNCHANGED <<inside, loads>>

Load ==
  /\ ~ Loaded /\ loads < MaxLoads
  /\ loads' = loads + 1
  /\ kernel_family' = loads'
  /\ strikes' = 0
  /\ UNCHANGED <<inside, table, fresh>>

-----------------------------------------------------------------------------
(* The specification.                                                      *)

Init ==
  /\ build \in Builds
  /\ caller \in Callers
  /\ \/ kernel_family = NoFamily /\ table = EmptyTable
     \/ kernel_family = 1 /\ table \in Tables0
  /\ loads = kernel_family
  /\ try_nl = TRUE /\ family = NoFamily /\ num_services = 0
  /\ pc = "idle" /\ call = NoCall /\ result = NoResult
  /\ entry = None /\ initialised = FALSE
  /\ fresh = [info |-> FALSE, entry |-> FALSE, call |-> FALSE]
  /\ strikes = 0

Commanding ==
  \/ ipvs_flush \/ ipvs_zero_service \/ ipvs_set_timeout
  \/ \E s \in Services :
       \/ ipvs_add_service(s) \/ ipvs_update_service(s) \/ ipvs_del_service(s)
       \/ \E d \in Dests :
            ipvs_add_dest(s, d) \/ ipvs_update_dest(s, d) \/ ipvs_del_dest(s, d)
  \/ \E state \in Daemons : ipvs_start_daemon(state) \/ ipvs_stop_daemon(state)

Asking ==
  \/ ipvs_get_services \/ ipvs_get_dests \/ ipvs_get_timeout \/ ipvs_get_daemon
  \/ \E s \in Services : ipvs_get_service(s)
  \/ ipvs_getinfo

Sending ==
  \/ NlNoSocket \/ NlUnresolved \/ NlResolve
  \/ NlSendFails \/ NlSendStale \/ NlCommand \/ NlQuestion \/ NlDump
  \/ NlDumpEntry \/ NlReceive \/ NlReceiveFails

Surroundings == OtherProgram \/ Traffic \/ Unload \/ Load

Next == ipvs_init \/ FallBack \/ ipvs_close \/ Commanding \/ Asking \/ Sending \/ Surroundings

Spec == Init /\ [][Next]_vars
-----------------------------------------------------------------------------
(* Properties.                                                             *)

\* The type invariant.
TypeOK ==
  /\ build \in {"sockopt", "netlink"}
  /\ caller \in Callers
  /\ table \in Tables
  /\ loads \in Nat /\ kernel_family \in {NoFamily, loads}
  /\ try_nl \in BOOLEAN /\ family \in Int /\ num_services \in Nat
  /\ pc \in {"idle", "resolve", "send", "receive", "dump", "fallback", "undefined"}
  /\ call.cmd \in Commands \/ call.cmd.dest = None
  /\ call.num \in Nat /\ call.capacity \in Nat
  /\ result.ok \in BOOLEAN /\ result.garbage \in Nat
  /\ initialised \in BOOLEAN
  /\ fresh \in [info : BOOLEAN, entry : BOOLEAN, call : BOOLEAN]
  /\ strikes \in Nat

\* A netlink message is built before the family is resolved, so the first one
\* after a reload, or after a failure to resolve, goes to a family of the past
\* and fails; the next one never does.
TwoStrikes == strikes <= 2

\* The last call was this one and succeeded, and nothing changed meanwhile or
\* since.
Exact(fn) == pc = "idle" /\ result.fn = fn /\ result.ok /\ fresh.call

\* ipvs_get_services gives every service the transport can name, and nothing
\* else, with its settings and its counter, in full over netlink: as long as the
\* table keeps still, during the call and, for a socket option, since the
\* services were counted, which only ipvs_init and ipvs_getinfo do.
ExactServices ==
  LET there == ServicesVia(table, result.via)
      Shows(x, s) ==
        /\ x.svc = s /\ x.opt = table.services[s].opt
        /\ IF result.via = "netlink" THEN x.conns = table.services[s].conns
           ELSE x.conns = table.services[s].conns % Word /\ x.num_dests = Len(DestsOf(table, s))
  IN  Exact("ipvs_get_services") /\ (result.via = "sockopt" => fresh.info)
        => /\ result.garbage = 0 /\ Len(result.got) = Len(there)
           /\ \A i \in DOMAIN there : Shows(result.got[i], there[i])

\* So does ipvs_get_dests for the destinations of a service, if the caller got
\* its entry over the same transport; their counters are never in full.
ExactDests ==
  LET s     == result.cmd.svc
      there == DestsOf(table, s)
      Shows(x, d) ==
        /\ x.dest = d /\ x.opt = table.dests[s][d].opt
        /\ x.conns = table.dests[s][d].conns % Word
  IN  (/\ Exact("ipvs_get_dests") /\ entry.via = result.via
       /\ result.via = "sockopt" => fresh.entry)
        => /\ result.garbage = 0 /\ Len(result.got) = Len(there)
           /\ \A i \in DOMAIN there : Shows(result.got[i], there[i])

\* ipvs_get_daemon gives both daemons when both run.
ExactDaemons == Exact("ipvs_get_daemon") => result.got = ReadDaemons(table)

\* A dump over netlink never writes behind its array, unless its size comes
\* from an entry the socket options gave before ipvs_init was called again.
InBounds == pc = "undefined" => call.fn = "ipvs_get_dests" /\ entry.via = "sockopt"

-----------------------------------------------------------------------------
(* The library implements IpvsTable.                                       *)

InCommand == call.cmd \in Commands

PhaseOf ==
  CASE pc \in {"resolve", "send"} /\ InCommand -> "pending"
    [] pc = "receive" /\ InCommand -> "applied"
    [] pc = "idle" /\ result.cmd \in Commands -> IF result.ok THEN "done" ELSE "failed"
    [] OTHER -> "none"

AskedOf ==
  IF InCommand THEN call.cmd
  ELSE IF pc = "idle" /\ result.cmd \in Commands THEN result.cmd ELSE None

Promise == INSTANCE IpvsTable WITH phase <- PhaseOf, asked <- AskedOf

\* A command takes effect at most once and between its call and its return,
\* over either transport and whatever fails; 0 says that it did; and no call
\* changes the table otherwise: a step that is not the abstract library's is
\* one of what surrounds it, with the call in progress where it was.
ImplementsIpvsTable ==
  /\ Promise!TableSpec
  /\ [][Promise!Serve \/ Surroundings]_(Promise!tableVars)
=============================================================================
