------------------------------- MODULE MCLibipvs -------------------------------
(***************************************************************************)
(* A small instance of Libipvs, with both of its builds.  Service web has  *)
(* an IPv4 address and two possible destinations of its family; service    *)
(* six has IPv6, which only netlink can name, and so has destination d6.   *)
(***************************************************************************)
EXTENDS Libipvs, TLC

CONSTANTS web, six, d1, d2, d6, o1, o2, none

Client(uses, around, names) ==
  [uses |-> {"ipvs_init"} \cup uses, around |-> around, names |-> names]

\* A director that sets up a service; the module may be reloaded.
Director ==
  Client({"ipvs_add_service", "ipvs_add_dest", "ipvs_update_dest", "ipvs_close"},
         {"reload"}, {web, d1, six, d6, o1, o2})

\* The other commands, beside another program that has its own.
Administrator ==
  Client({"ipvs_update_service", "ipvs_del_service", "ipvs_del_dest", "ipvs_zero_service",
          "ipvs_flush"},
         {"new_dest", "set_dest", "del_service"}, {web, d1, o1, o2})

\* A monitor, as ipvsadm -L is one, while services and destinations come and go.
Monitor ==
  Client({"ipvs_getinfo", "ipvs_get_services", "ipvs_get_dests"},
         {"new_service", "del_service", "new_dest", "del_dest"}, {web, six, d1, d2, o1})

\* A program that looks at one service while it has traffic.
Watcher ==
  Client({"ipvs_get_service", "ipvs_get_services", "ipvs_get_dests", "ipvs_zero_service"},
         {"traffic"}, {web, o1})

\* The connection synchronisation and the timeouts.
Synchroniser ==
  Client({"ipvs_start_daemon", "ipvs_stop_daemon", "ipvs_get_daemon", "ipvs_set_timeout",
          "ipvs_get_timeout"},
         {"del_daemon", "reload"}, Daemons \cup {o1, o2})

MCCallers == {Director, Administrator, Monitor, Watcher, Synchroniser}

Balanced ==
  [EmptyTable EXCEPT !.services[web] = Fresh(o1), !.services[six] = Fresh(o1),
                  !.dests[web][d1] = Fresh(o1), !.dests[six][d6] = Fresh(o1),
                  !.daemons = Daemons]

MCTables0 == {EmptyTable, Balanced}

MCServiceList == [S \in SUBSET Services |-> SelectSeq(<<web, six>>, LAMBDA s : s \in S)]

MCDestList == [S \in SUBSET Dests |-> SelectSeq(<<d1, d2, d6>>, LAMBDA d : d \in S)]
=============================================================================
