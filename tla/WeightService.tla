---------------------------- MODULE WeightService ----------------------------
(***************************************************************************)
(* What the daemon promises its clients: an acceptable request sets the    *)
(* weight of one destination it names, in one atomic step, at most once,   *)
(* between its arrival and its answer; it is answered "ok" only after that *)
(* step and "failed" only if the step never happens.  The table also       *)
(* changes under the daemon's feet (ipvsadm, keepalived), in steps that    *)
(* are not the daemon's.  HttpServer is shown to implement this module.    *)
(***************************************************************************)
EXTENDS Integers

CONSTANTS
  Clients,
  Requests,      \* what a client may send
  Permitted,     \* the requests that may change a weight
  Targets,       \* request -> the destinations it may stand for
  NewWeight,     \* request -> the weight it asks for
  Destinations,
  NoWeight       \* the weight of a destination that does not exist

VARIABLES
  weight,        \* the weight of each destination
  status,        \* how far each client's request is
  asked          \* each client's request

serviceVars == <<weight, status, asked>>

Statuses == {"none", "pending", "applied", "ok", "failed", "dropped"}

Init ==
  /\ weight \in [Destinations -> Int \cup {NoWeight}]
  /\ status = [c \in Clients |-> "none"]
  /\ asked \in [Clients -> Requests]

Move(c, from, to) ==
  /\ status[c] \in from
  /\ status' = [status EXCEPT ![c] = to]
  /\ UNCHANGED asked

Submit(c) == Move(c, {"none"}, "pending") /\ UNCHANGED weight

\* The one step of a request that changes a weight.
Apply(c) ==
  /\ asked[c] \in Permitted
  /\ Move(c, {"pending"}, "applied")
  /\ \E d \in Targets[asked[c]] :
       /\ weight[d] # NoWeight
       /\ weight' = [weight EXCEPT ![d] = NewWeight[asked[c]]]

Acknowledge(c) == Move(c, {"applied"}, "ok") /\ UNCHANGED weight

Refuse(c) == Move(c, {"pending"}, "failed") /\ UNCHANGED weight

\* The client gets no answer: its connection or its handler broke.
Drop(c) == Move(c, {"pending", "applied"}, "dropped") /\ UNCHANGED weight

\* The daemon's part: these are all the steps it may take.
Serve == \E c \in Clients : Submit(c) \/ Apply(c) \/ Acknowledge(c) \/ Refuse(c) \/ Drop(c)

\* Everybody else's.
Administer ==
  /\ weight' \in [Destinations -> Int \cup {NoWeight}]
  /\ UNCHANGED <<status, asked>>

Next == Serve \/ Administer

Spec == Init /\ [][Next]_serviceVars
=============================================================================
