-------------------------- MODULE WeightServiceProofs --------------------------
(***************************************************************************)
(* HttpServer implements WeightService, for any number of connections and  *)
(* workers and any requests, texts, resolver and table: what happens under *)
(* ipvs_mutex is one atomic step to the clients, taken at most once, on a  *)
(* destination the request names, and the answer tells whether it was.     *)
(***************************************************************************)
EXTENDS HttpServerProofs

-----------------------------------------------------------------------------
(* How far a handler has come, in its locals.                              *)

\* Nothing has been done for the client yet.
Before == {"accepted", "reading", "readable", "config", "configLocked", "check", "lock",
           "convert", "vip", "vipCopy", "server", "serverCopy", "update"}

\* What svc[c] may be once the virtual service has been parsed.
ServiceParses ==
  {parse \in {ParseVip(Vip, v) : v \in Answers(Vip)} : parse.flags # SERVICE_NONE}

TrackOf(c) ==
  /\ pc[c] \in Before \cup {"idle"} => ~ success[c] /\ reply[c] = 0
  /\ pc[c] \in {"respond", "closed", "threw"} => reply[c] = 0
  /\ pc[c] = "unlock" => reply[c] = IF success[c] THEN 200 ELSE 500
  /\ pc[c] = "done" => reply[c] # 0
  /\ pc[c] \in {"lock"} \cup Locked => Acceptable(request[c])
  /\ pc[c] \in Locked \ {"convert"} => request[c].host_is = "text"
  /\ pc[c] \in {"server", "serverCopy"} => \E parse \in ServiceParses : svc[c] = parse.svc
  /\ pc[c] = "update" /\ target[c] \in Destinations => target[c] \in TargetsOf(request[c])

Track == \A c \in Conns : TrackOf(c)

\* A handler that does not move keeps its place.
LEMMA OthersKeepTrack ==
  ASSUME Track, NEW d \in Conns, pc'[d] = pc[d], svc'[d] = svc[d], target'[d] = target[d],
         success'[d] = success[d], reply'[d] = reply[d], request' = request
  PROVE  TrackOf(d)'
BY DEF Track, TrackOf

\* What c moves to is all that has to be shown of its step.
LEMMA TrackStep ==
  ASSUME TypeOK, Track, NEW c \in Conns, NEW from, NEW to, Goto(c, from, to),
         request' = request, TrackOf(c)',
         \A d \in Conns : d # c =>
           /\ svc'[d] = svc[d] /\ target'[d] = target[d]
           /\ success'[d] = success[d] /\ reply'[d] = reply[d]
  PROVE  Track'
<1>1. \A d \in Conns : d # c => pc'[d] = pc[d]
  BY DEF Goto, TypeOK
<1>2. \A d \in Conns : d # c => TrackOf(d)'
  BY <1>1, OthersKeepTrack
<1> QED
  BY <1>2 DEF Track

\* A step that only moves c, to where no more is asked of it.
LEMMA MoveTrack ==
  ASSUME TypeOK, Track, NEW c \in Conns, NEW from, NEW to, Goto(c, from, to),
         UNCHANGED <<request, frame, reply>>,
         from \in Before \cup {"idle"},
         to \in (Before \ {"server", "update"}) \cup {"closed", "respond"},
         to \in {"lock"} \cup Locked => Acceptable(request[c]),
         to \in Locked \ {"convert"} => request[c].host_is = "text",
         to = "serverCopy" => from = "server"
  PROVE  Track'
<1>1. pc'[c] = to /\ pc[c] = from
  BY DEF Goto, TypeOK
<1>2. TrackOf(c)'
  BY <1>1 DEF Track, TrackOf, frame, Before
<1> QED
  BY <1>2, TrackStep DEF frame

LEMMA ThrowTrack ==
  ASSUME TypeOK, Track, NEW c \in Conns, NEW from \in Before \cup {"respond"}, Throw(c, from)
  PROVE  Track'
<1>1. pc[c] = from /\ pc'[c] = "threw" /\ reply' = reply
  BY DEF Throw, Goto, TypeOK
<1>2. TrackOf(c)'
  BY <1>1 DEF Track, TrackOf, Before, Locked
<1> QED
  BY <1>2, TrackStep DEF Throw, PopFrame, TypeOK

\* A text that needs no lookup parses the same whatever the resolver said last.
LEMMA LiteralParse ==
  ASSUME NEW text, NEW s, NEW a, NEW b, ~ NeedsLookup(text)
  PROVE  m_parse_service(text, s, a) = m_parse_service(text, s, b)
<1>1. CASE Malformed(text)
  BY <1>1 DEF m_parse_service
<1>2. CASE ~ Malformed(text)
  <2>1. HostAddress(text, a) = HostAddress(text, b)
    BY <1>2 DEF NeedsLookup, HostAddress
  <2> QED
    BY <2>1, Zenon DEF m_parse_service
<1> QED
  BY <1>1, <1>2

\* So the parse of a text with the buffer as it is, is that of an answer.
LEMMA AnswerParse ==
  ASSUME NEW text, NEW s, NEW a, NeedsLookup(text) => a \in Answers(text)
  PROVE  \E answer \in Answers(text) : m_parse_service(text, s, a) = m_parse_service(text, s, answer)
<1>1. CASE NeedsLookup(text)
  BY <1>1
<1>2. CASE ~ NeedsLookup(text)
  BY <1>2, LiteralParse DEF Answers
<1> QED
  BY <1>1, <1>2

LEMMA ParseVipTrack ==
  ASSUME TypeOK, OwnInv, Track, NEW c \in Conns, ParseVipText(c)
  PROVE  Track'
<1> DEFINE from  == IF NeedsLookup(Vip) THEN "vipCopy" ELSE "vip"
           parse == ParseVip(Vip, hostent)
           to    == IF parse.flags = SERVICE_NONE THEN "respond" ELSE "server"
<1>1. /\ Goto(c, from, to)
      /\ svc' = [svc EXCEPT ![c] = parse.svc]
      /\ UNCHANGED <<request, target, success, reply>>
  BY Zenon DEF ParseVipText
<1>2. from \in {"vip", "vipCopy"} /\ to \in {"respond", "server"}
  OBVIOUS
<1>3. to = "server" => parse \in ServiceParses
  <2>1. NeedsLookup(Vip) => hostent \in Answers(Vip)
    BY <1>1 DEF Goto, OwnInv, OwnOf
  <2>2. \E v \in Answers(Vip) : parse = ParseVip(Vip, v)
    BY <2>1, AnswerParse DEF ParseVip
  <2> QED
    BY <2>2 DEF ServiceParses
<1> HIDE DEF from, parse, to
<1>4. pc[c] = from /\ pc'[c] = to /\ svc'[c] = parse.svc
  BY <1>1 DEF Goto, TypeOK
<1>5. TrackOf(c)'
  BY <1>1, <1>2, <1>3, <1>4 DEF Track, TrackOf, Before, Locked
<1>6. \A d \in Conns : d # c => svc'[d] = svc[d]
  BY <1>1 DEF TypeOK
<1> QED
  BY <1>1, <1>5, <1>6, TrackStep

LEMMA ParseServerTrack ==
  ASSUME TypeOK, OwnInv, Track, NEW c \in Conns, ParseServerText(c)
  PROVE  Track'
<1> DEFINE text  == request[c].host
           from  == IF NeedsLookup(text) THEN "serverCopy" ELSE "server"
           parse == ParseServer(text, svc[c], hostent)
           to    == IF Reaches(svc[c], parse) THEN "update" ELSE "respond"
<1>1. /\ Goto(c, from, to)
      /\ target' = [target EXCEPT ![c] = Target(svc[c], parse)]
      /\ UNCHANGED <<request, svc, success, reply>>
  BY Zenon DEF ParseServerText
<1>2. from \in {"server", "serverCopy"} /\ to \in {"respond", "update"}
  OBVIOUS
<1>3. to = "update" /\ Target(svc[c], parse) \in Destinations
        => Target(svc[c], parse) \in TargetsOf(request[c])
  <2>1. NeedsLookup(text) => hostent \in Answers(text)
    BY <1>1 DEF Goto, OwnInv, OwnOf
  <2>2. PICK h \in Answers(text) : parse = ParseServer(text, svc[c], h)
    BY <2>1, AnswerParse DEF ParseServer
  <2>3. PICK v \in Answers(Vip) : /\ ParseVip(Vip, v).flags # SERVICE_NONE
                                  /\ svc[c] = ParseVip(Vip, v).svc
    BY <1>1, <1>2 DEF Goto, Track, TrackOf, ServiceParses
  <2>4. to = "update" => Reaches(svc[c], parse)
    OBVIOUS
  <2> HIDE DEF parse, to
  <2> QED
    BY <2>2, <2>3, <2>4 DEF TargetsOf
<1> HIDE DEF text, from, parse, to
<1>4. pc[c] = from /\ pc'[c] = to /\ target'[c] = Target(svc[c], parse)
  BY <1>1 DEF Goto, TypeOK
<1>5. TrackOf(c)'
  BY <1>1, <1>2, <1>3, <1>4 DEF Track, TrackOf, Before, Locked
<1>6. \A d \in Conns : d # c => target'[d] = target[d]
  BY <1>1 DEF TypeOK
<1> QED
  BY <1>1, <1>5, <1>6, TrackStep

LEMMA HandlerTrack ==
  ASSUME TypeOK, OwnInv, Track, NEW c \in Conns, Handler(c)
  PROVE  Track'
<1> USE DEF Before, Locked
<1>1. CASE Dispatch(c)
  BY <1>1, MoveTrack DEF Dispatch
<1>2. CASE HandlePostRead(c)
  <2>1. PICK to \in {"closed", "reading", "config"} : Goto(c, "readable", to)
    BY <1>2 DEF HandlePostRead
  <2> QED
    BY <1>2, <2>1, MoveTrack DEF HandlePostRead
<1>3. CASE LockConfiguration(c)
  BY <1>3, MoveTrack DEF LockConfiguration
<1>4. CASE UnlockConfiguration(c)
  BY <1>4, MoveTrack DEF UnlockConfiguration
<1>5. CASE CheckPasses(c)
  BY <1>5, MoveTrack DEF CheckPasses
<1>6. CASE CheckFails(c)
  <2>1. pc'[c] = "done" /\ reply'[c] = ErrorStatus(request[c])
    BY <1>6 DEF CheckFails, Goto, TypeOK
  <2>2. TrackOf(c)'
    BY <2>1 DEF TrackOf, ErrorStatus
  <2> QED
    BY <1>6, <2>2, TrackStep DEF CheckFails, TypeOK, frame
<1>7. CASE CheckThrows(c)
  BY <1>7, ThrowTrack DEF CheckThrows
<1>8. CASE LockIpvs(c)
  <2>1. Acceptable(request[c])
    BY <1>8 DEF LockIpvs, Goto, Track, TrackOf
  <2> QED
    BY <1>8, <2>1, MoveTrack DEF LockIpvs
<1>9. CASE ConvertHost(c)
  <2>1. Acceptable(request[c])
    BY <1>9 DEF ConvertHost, Goto, Track, TrackOf
  <2> QED
    BY <1>9, <2>1, MoveTrack DEF ConvertHost
<1>10. CASE ConvertThrows(c)
  BY <1>10, ThrowTrack DEF ConvertThrows
<1>11. CASE LookupVip(c) \/ LookupServer(c)
  <2>1. PICK from \in {"vip", "server"}, to \in {"vipCopy", "serverCopy", "respond"} :
          Goto(c, from, to) /\ (to = "serverCopy" => from = "server")
    BY <1>11 DEF LookupVip, LookupServer, Lookup
  <2>2. Acceptable(request[c]) /\ request[c].host_is = "text"
    BY <2>1 DEF Goto, Track, TrackOf
  <2>3. UNCHANGED <<request, frame, reply>>
    BY <1>11 DEF LookupVip, LookupServer, Lookup
  <2> QED
    BY <2>1, <2>2, <2>3, MoveTrack
<1>12. CASE UpdateDest(c)
  <2>1. pc[c] = "update" /\ pc'[c] = "respond"
    BY <1>12 DEF UpdateDest, Goto, TypeOK
  <2>2. TrackOf(c)'
    BY <1>12, <2>1 DEF UpdateDest, Track, TrackOf
  <2> QED
    BY <1>12, <2>2, TrackStep DEF UpdateDest, TypeOK
<1>13. CASE UpdateFails(c)
  <2>1. Acceptable(request[c]) /\ request[c].host_is = "text"
    BY <1>13 DEF UpdateFails, Goto, Track, TrackOf
  <2> QED
    BY <1>13, <2>1, MoveTrack DEF UpdateFails
<1>14. CASE Respond(c)
  <2>1. /\ pc[c] = "respond" /\ pc'[c] = "unlock"
        /\ reply'[c] = IF success[c] THEN 200 ELSE 500
    BY <1>14 DEF Respond, Goto, TypeOK
  <2>2. TrackOf(c)'
    BY <1>14, <2>1 DEF Respond, Track, TrackOf, frame
  <2> QED
    BY <1>14, <2>2, TrackStep DEF Respond, TypeOK, frame
<1>15. CASE RespondThrows(c)
  BY <1>15, ThrowTrack DEF RespondThrows
<1>16. CASE UnlockIpvs(c)
  <2>1. pc[c] = "unlock" /\ pc'[c] = "done" /\ reply' = reply
    BY <1>16 DEF UnlockIpvs, Goto, TypeOK
  <2>2. reply[c] # 0
    BY <2>1 DEF Track, TrackOf
  <2>3. TrackOf(c)'
    BY <2>1, <2>2 DEF TrackOf
  <2> QED
    BY <1>16, <2>3, TrackStep DEF UnlockIpvs, PopFrame, TypeOK
<1> QED
  BY <1>1, <1>2, <1>3, <1>4, <1>5, <1>6, <1>7, <1>8, <1>9, <1>10, <1>11, <1>12, <1>13, <1>14,
     <1>15, <1>16, ParseVipTrack, ParseServerTrack DEF Handler

LEMMA InitTrack == Init => Track
BY DEF Init, Track, TrackOf, Before, Locked

LEMMA NextTrack == TypeOK /\ OwnInv /\ Track /\ [Next]_vars => Track'
<1> SUFFICES ASSUME TypeOK, OwnInv, Track, [Next]_vars PROVE Track'
  OBVIOUS
<1>1. ASSUME NEW c \in Conns, Accept(c) PROVE Track'
  BY <1>1, MoveTrack DEF Accept, Before, Locked
<1>2. ASSUME NEW c \in Conns, ReadCompletes(c) PROVE Track'
  BY <1>2, MoveTrack DEF ReadCompletes, Before, Locked
<1>3. CASE OtherProgram
  BY <1>3, OthersKeepTrack DEF OtherProgram, frame, Track
<1>4. CASE UNCHANGED vars
  BY <1>4, OthersKeepTrack DEF vars, Track
<1> QED
  BY <1>1, <1>2, <1>3, <1>4, HandlerTrack DEF Next

-----------------------------------------------------------------------------
(* The refinement.                                                         *)

StatusMap == [c \in Conns |-> StatusOf(c)]

WeightMap == [d \in Destinations |-> WeightOf(d)]

\* What a handler's place and locals say to its client.
LEMMA StatusBefore ==
  ASSUME TypeOK, Track, NEW c \in Conns
  PROVE  /\ pc[c] = "idle" => StatusOf(c) = "none"
         /\ pc[c] \in Before => StatusOf(c) = "pending"
         /\ pc[c] = "respond" => StatusOf(c) = IF success[c] THEN "applied" ELSE "pending"
         /\ pc[c] = "unlock" => StatusOf(c) = IF success[c] THEN "ok" ELSE "failed"
         /\ pc[c] = "done" => StatusOf(c) = IF reply[c] = 200 THEN "ok" ELSE "failed"
BY DEF Track, TrackOf, StatusOf, Before

\* The same of its next place.
LEMMA StatusAfter ==
  ASSUME TypeOK', Track', NEW c \in Conns
  PROVE  /\ pc'[c] \in Before => StatusOf(c)' = "pending"
         /\ pc'[c] = "respond" => StatusOf(c)' = IF success'[c] THEN "applied" ELSE "pending"
         /\ pc'[c] = "unlock" => StatusOf(c)' = IF success'[c] THEN "ok" ELSE "failed"
         /\ pc'[c] = "done" => StatusOf(c)' = IF reply'[c] = 200 THEN "ok" ELSE "failed"
         /\ pc'[c] \in {"closed", "threw"} => StatusOf(c)' = "dropped"
<1>1. TrackOf(c)'
  BY DEF Track
<1>2. pc'[c] \in Before => StatusOf(c)' = "pending"
  BY <1>1 DEF TrackOf, StatusOf, Before
<1>3. pc'[c] = "respond" => StatusOf(c)' = IF success'[c] THEN "applied" ELSE "pending"
  BY <1>1 DEF TrackOf, StatusOf
<1>4. pc'[c] = "unlock" => StatusOf(c)' = IF success'[c] THEN "ok" ELSE "failed"
  BY <1>1 DEF TrackOf, StatusOf
<1>5. pc'[c] = "done" => StatusOf(c)' = IF reply'[c] = 200 THEN "ok" ELSE "failed"
  BY <1>1 DEF TrackOf, StatusOf
<1>6. pc'[c] \in {"closed", "threw"} => StatusOf(c)' = "dropped"
  BY <1>1 DEF TrackOf, StatusOf
<1> QED
  BY <1>2, <1>3, <1>4, <1>5, <1>6

\* A step of one handler changes the status of one client.
LEMMA StatusStep ==
  ASSUME TypeOK, NEW c \in Conns, NEW from, NEW to, Goto(c, from, to),
         \A d \in Conns : d # c => success'[d] = success[d] /\ reply'[d] = reply[d]
  PROVE  StatusMap' = [StatusMap EXCEPT ![c] = StatusOf(c)']
<1>1. \A d \in Conns : d # c => StatusOf(d)' = StatusOf(d)
  BY DEF Goto, TypeOK, StatusOf
<1> QED
  BY <1>1 DEF StatusMap

LEMMA WeightStep ==
  ASSUME UNCHANGED table
  PROVE  UNCHANGED WeightMap
BY DEF WeightMap, WeightOf

\* One client's request moves on, or nothing is to be seen of the step.
Moves(c, from, to) ==
  /\ StatusMap[c] \in from
  /\ StatusMap' = [StatusMap EXCEPT ![c] = to]
  /\ UNCHANGED <<request, WeightMap>>

Stutters == UNCHANGED <<StatusMap, request, WeightMap>>

LEMMA MoveSteps ==
  ASSUME NEW c \in Conns,
         \/ Moves(c, {"none"}, "pending")
         \/ Moves(c, {"applied"}, "ok")
         \/ Moves(c, {"pending"}, "failed")
         \/ Moves(c, {"pending", "applied"}, "dropped")
  PROVE  Service!Serve
BY DEF Moves, StatusMap, WeightMap, Service!Serve, Service!Submit, Service!Acknowledge,
       Service!Refuse, Service!Drop, Service!Move

\* A step of c without the kernel is the move of its status.
LEMMA QuietStep ==
  ASSUME TypeOK, NEW c \in Conns, NEW from, NEW to, Goto(c, from, to),
         UNCHANGED <<request, table>>,
         \A d \in Conns : d # c => success'[d] = success[d] /\ reply'[d] = reply[d]
  PROVE  /\ StatusOf(c)' = StatusOf(c) => Stutters
         /\ \A f : StatusOf(c) \in f => Moves(c, f, StatusOf(c)')
<1>1. StatusMap' = [StatusMap EXCEPT ![c] = StatusOf(c)'] /\ UNCHANGED WeightMap
  BY StatusStep, WeightStep
<1>2. StatusMap[c] = StatusOf(c)
  BY DEF StatusMap
<1>3. StatusOf(c)' = StatusOf(c) => StatusMap' = StatusMap
  BY <1>1, <1>2 DEF StatusMap
<1> QED
  BY <1>1, <1>2, <1>3 DEF Moves, Stutters

\* An exception drops the client, whether or not its weight was set.
LEMMA ThrowImplements ==
  ASSUME TypeOK, Track, TypeOK', Track', NEW c \in Conns,
         NEW from \in Before \cup {"respond"}, Throw(c, from)
  PROVE  Service!Serve
<1>1. Goto(c, from, "threw") /\ UNCHANGED <<request, table>>
  BY DEF Throw
<1>2. pc[c] = from /\ pc'[c] = "threw"
  BY <1>1 DEF Goto, TypeOK
<1>3. StatusOf(c) \in {"pending", "applied"} /\ StatusOf(c)' = "dropped"
  BY <1>2, StatusBefore, StatusAfter
<1>4. \A d \in Conns : d # c => success'[d] = success[d] /\ reply'[d] = reply[d]
  BY DEF Throw, PopFrame, TypeOK
<1> QED
  BY <1>1, <1>3, <1>4, QuietStep, MoveSteps

\* On its way to the update a handler shows its client nothing.
LEMMA BeforeImplements ==
  ASSUME TypeOK, Track, TypeOK', Track', NEW c \in Conns,
         NEW from \in Before, NEW to \in Before \cup {"closed", "respond"}, Goto(c, from, to),
         UNCHANGED <<request, success, reply, table>>
  PROVE  Service!Serve \/ Stutters
<1>1. pc[c] = from /\ pc'[c] = to
  BY DEF Goto, TypeOK
<1>2. StatusOf(c) = "pending" /\ ~ success[c]
  BY <1>1, StatusBefore DEF Track, TrackOf
<1>3. CASE to \in Before \cup {"respond"}
  <2>1. StatusOf(c)' = "pending"
    BY <1>1, <1>2, <1>3, StatusAfter
  <2> QED
    BY <1>2, <2>1, QuietStep
<1>4. CASE to = "closed"
  <2>1. StatusOf(c)' = "dropped"
    BY <1>1, <1>4, StatusAfter
  <2> QED
    BY <1>2, <2>1, QuietStep, MoveSteps
<1> QED
  BY <1>3, <1>4

\* ipvs_update_dest is the one step that changes a weight.
LEMMA UpdateImplements ==
  ASSUME TypeOK, Track, TypeOK', Track', NEW c \in Conns, UpdateDest(c)
  PROVE  Service!Serve
<1> PICK d, w : d = target[c] /\ w = request[c].kernels
  OBVIOUS
<1>1. /\ Goto(c, "update", "respond") /\ Editable(table, d) /\ request' = request
      /\ table' = EditDest(table, d, w) /\ success' = [success EXCEPT ![c] = TRUE]
      /\ reply' = reply
  BY DEF UpdateDest
<1>2. pc[c] = "update" /\ pc'[c] = "respond" /\ success'[c] = TRUE
  BY <1>1 DEF Goto, TypeOK
<1>3. StatusOf(c) = "pending" /\ StatusOf(c)' = "applied"
  BY <1>2, StatusBefore, StatusAfter DEF Before
<1>4. StatusMap' = [StatusMap EXCEPT ![c] = "applied"] /\ StatusMap[c] = "pending"
  <2>1. \A e \in Conns : e # c => success'[e] = success[e] /\ reply'[e] = reply[e]
    BY <1>1 DEF TypeOK
  <2> QED
    BY <1>1, <1>3, <2>1, StatusStep DEF StatusMap
<1>5. d \in Destinations /\ table[d] # NoEntry /\ WeightMap[d] # NoEntry
  <2>1. d \in Destinations /\ table[d] # NoEntry
    BY <1>1 DEF Editable
  <2>2. table[d] \in Entries
    BY <2>1 DEF TypeOK
  <2>3. table[d].weight \in Int
    BY <2>2 DEF Entries
  <2> QED
    BY <2>1, <2>3, ServerAssumption DEF WeightMap, WeightOf
<1>6. w \in Int /\ Acceptable(request[c]) /\ request[c].host_is = "text"
  <2>1. request[c] \in Requests
    BY DEF TypeOK
  <2> QED
    BY <1>2, <2>1, ServerAssumption DEF RequestOK, Track, TrackOf, Locked
<1>7. d \in TargetsOf(request[c])
  BY <1>2, <1>5 DEF Track, TrackOf
<1>8. WeightMap' = [WeightMap EXCEPT ![d] = w]
  <2> DEFINE new == [weight |-> w, method |-> "droute", thresholds |-> "none"]
  <2>1. new \in Entries /\ new.weight = w
    BY <1>6 DEF Entries, Methods, Thresholds
  <2>2. table' = [table EXCEPT ![d] = new]
    BY <1>1 DEF EditDest
  <2> HIDE DEF new
  <2>3. WeightOf(d)' = w /\ \A e \in Destinations : e # d => WeightOf(e)' = WeightOf(e)
    BY <1>5, <2>1, <2>2, ServerAssumption DEF WeightOf, TypeOK
  <2> QED
    BY <2>3 DEF WeightMap
<1>9. /\ request[c] \in {r \in Requests : Acceptable(r) /\ r.host_is = "text"}
      /\ request[c] \in {q \in Requests : q.host_is = "text"}
  BY <1>6 DEF TypeOK
<1>10. Service!Apply(c)
  <2>1. [r \in {q \in Requests : q.host_is = "text"} |-> TargetsOf(r)][request[c]]
          = TargetsOf(request[c])
    BY <1>9
  <2>2. [r \in Requests |-> r.kernels][request[c]] = w
    BY <1>9
  <2> QED
    BY <1>1, <1>4, <1>5, <1>7, <1>8, <1>9, <2>1, <2>2
       DEF Service!Apply, Service!Move, StatusMap, WeightMap
<1> QED
  BY <1>10 DEF Service!Serve

LEMMA AcceptImplements ==
  ASSUME TypeOK, Track, TypeOK', Track', NEW c \in Conns, Accept(c)
  PROVE  Service!Serve
<1>1. Goto(c, "idle", "accepted") /\ UNCHANGED <<request, success, reply, table>>
  BY DEF Accept, frame
<1>2. pc[c] = "idle" /\ pc'[c] = "accepted"
  BY <1>1 DEF Goto, TypeOK
<1>3. StatusOf(c) = "none" /\ StatusOf(c)' = "pending"
  BY <1>2, StatusBefore, StatusAfter DEF Before
<1> QED
  BY <1>1, <1>3, QuietStep, MoveSteps

\* report_error before the mutex: nothing was done and the client is told so.
LEMMA CheckFailsImplements ==
  ASSUME TypeOK, Track, TypeOK', Track', NEW c \in Conns, CheckFails(c)
  PROVE  Service!Serve
<1>1. /\ Goto(c, "check", "done") /\ UNCHANGED <<request, success, table>>
      /\ reply' = [reply EXCEPT ![c] = ErrorStatus(request[c])]
  BY DEF CheckFails, frame
<1>2. pc[c] = "check" /\ pc'[c] = "done" /\ reply'[c] = ErrorStatus(request[c])
  BY <1>1 DEF Goto, TypeOK
<1>3. StatusOf(c) = "pending" /\ StatusOf(c)' = "failed"
  BY <1>2, StatusBefore, StatusAfter DEF Before, ErrorStatus
<1>4. \A d \in Conns : d # c => success'[d] = success[d] /\ reply'[d] = reply[d]
  BY <1>1 DEF TypeOK
<1> QED
  BY <1>1, <1>3, <1>4, QuietStep, MoveSteps

\* The answer of set_weight is the answer to the client.
LEMMA RespondImplements ==
  ASSUME TypeOK, Track, TypeOK', Track', NEW c \in Conns, Respond(c)
  PROVE  Service!Serve
<1>1. /\ Goto(c, "respond", "unlock") /\ UNCHANGED <<request, success, table>>
      /\ \A d \in Conns : d # c => success'[d] = success[d] /\ reply'[d] = reply[d]
  BY DEF Respond, frame, TypeOK
<1>2. pc[c] = "respond" /\ pc'[c] = "unlock" /\ success'[c] = success[c]
  BY <1>1 DEF Goto, TypeOK
<1>3. \/ StatusOf(c) = "applied" /\ StatusOf(c)' = "ok"
      \/ StatusOf(c) = "pending" /\ StatusOf(c)' = "failed"
  BY <1>2, StatusBefore, StatusAfter
<1> QED
  BY <1>1, <1>3, QuietStep, MoveSteps

\* The unlock comes after the answer: the client sees nothing of it.
LEMMA UnlockImplements ==
  ASSUME TypeOK, Track, TypeOK', Track', NEW c \in Conns, UnlockIpvs(c)
  PROVE  Stutters
<1>1. /\ Goto(c, "unlock", "done") /\ UNCHANGED <<request, reply, table>>
      /\ \A d \in Conns : d # c => success'[d] = success[d]
  BY DEF UnlockIpvs, PopFrame, TypeOK
<1>2. pc[c] = "unlock" /\ pc'[c] = "done" /\ reply'[c] = reply[c]
  BY <1>1 DEF Goto, TypeOK
<1>3. reply[c] = IF success[c] THEN 200 ELSE 500
  BY <1>2 DEF Track, TrackOf
<1>4. StatusOf(c)' = StatusOf(c)
  BY <1>2, <1>3, StatusBefore, StatusAfter
<1> QED
  BY <1>1, <1>4, QuietStep

LEMMA HandlerImplements ==
  ASSUME TypeOK, Track, TypeOK', Track', NEW c \in Conns, Handler(c)
  PROVE  Service!Serve \/ Stutters
<1>1. CASE Dispatch(c) \/ HandlePostRead(c)
  <2>1. \E from, to \in Before \cup {"closed"} : from \in Before /\ Goto(c, from, to)
    BY <1>1 DEF Dispatch, HandlePostRead, Before
  <2>2. UNCHANGED <<request, success, reply, table>>
    BY <1>1 DEF Dispatch, HandlePostRead, frame
  <2> QED
    BY <2>1, <2>2, BeforeImplements
<1>2. CASE LockConfiguration(c) \/ UnlockConfiguration(c) \/ CheckPasses(c) \/ LockIpvs(c)
  <2>1. \E from, to \in Before : Goto(c, from, to)
    BY <1>2 DEF LockConfiguration, UnlockConfiguration, CheckPasses, LockIpvs, Before
  <2>2. UNCHANGED <<request, success, reply, table>>
    BY <1>2 DEF LockConfiguration, UnlockConfiguration, CheckPasses, LockIpvs, frame
  <2> QED
    BY <2>1, <2>2, BeforeImplements
<1>3. CASE ConvertHost(c) \/ UpdateFails(c)
  <2>1. \E from \in Before, to \in Before \cup {"respond"} : Goto(c, from, to)
    BY <1>3 DEF ConvertHost, UpdateFails, Before
  <2>2. UNCHANGED <<request, success, reply, table>>
    BY <1>3 DEF ConvertHost, UpdateFails, frame
  <2> QED
    BY <2>1, <2>2, BeforeImplements
<1>4. CASE LookupVip(c) \/ LookupServer(c)
  <2>1. \E from \in Before, to \in Before \cup {"respond"} : Goto(c, from, to)
    BY <1>4 DEF LookupVip, LookupServer, Lookup, Before
  <2>2. UNCHANGED <<request, success, reply, table>>
    BY <1>4 DEF LookupVip, LookupServer, Lookup, frame
  <2> QED
    BY <2>1, <2>2, BeforeImplements
<1>5. CASE ParseVipText(c) \/ ParseServerText(c)
  <2>1. \E from \in Before, to \in Before \cup {"respond"} : Goto(c, from, to)
    BY <1>5, Zenon DEF ParseVipText, ParseServerText, Before
  <2>2. UNCHANGED <<request, success, reply, table>>
    BY <1>5 DEF ParseVipText, ParseServerText
  <2> QED
    BY <2>1, <2>2, BeforeImplements
<1>6. CASE CheckThrows(c) \/ ConvertThrows(c) \/ RespondThrows(c)
  <2>1. \E from \in Before \cup {"respond"} : Throw(c, from)
    BY <1>6 DEF CheckThrows, ConvertThrows, RespondThrows, Before
  <2> QED
    BY <2>1, ThrowImplements
<1> QED
  BY <1>1, <1>2, <1>3, <1>4, <1>5, <1>6, CheckFailsImplements, UpdateImplements,
     RespondImplements, UnlockImplements DEF Handler

\* The mapping of the table keeps to the abstract table's type.
LEMMA WeightTyped ==
  ASSUME TypeOK
  PROVE  WeightMap \in [Destinations -> Int \cup {NoEntry}]
<1>1. ASSUME NEW d \in Destinations PROVE WeightOf(d) \in Int \cup {NoEntry}
  <2>1. table[d] \in Entries \cup {NoEntry}
    BY DEF TypeOK
  <2> QED
    BY <2>1 DEF WeightOf, Entries
<1> QED
  BY <1>1 DEF WeightMap

LEMMA NextImplements ==
  ASSUME TypeOK, Track, TypeOK', Track', [Next]_vars
  PROVE  Service!Serve \/ (OtherProgram /\ Service!Administer) \/ Stutters
<1>1. ASSUME NEW c \in Conns, ReadCompletes(c) PROVE Stutters
  <2>1. Goto(c, "reading", "readable") /\ UNCHANGED <<request, success, reply, table>>
    BY <1>1 DEF ReadCompletes, frame
  <2>2. pc[c] = "reading" /\ pc'[c] = "readable"
    BY <2>1 DEF Goto, TypeOK
  <2>3. StatusOf(c)' = StatusOf(c)
    BY <2>2, StatusBefore, StatusAfter DEF Before
  <2> QED
    BY <2>1, <2>3, QuietStep
<1>2. CASE OtherProgram
  <2>1. WeightMap' \in [Destinations -> Int \cup {NoEntry}]
    <3>1. ASSUME NEW d \in Destinations PROVE WeightOf(d)' \in Int \cup {NoEntry}
      <4>1. table'[d] \in Entries \cup {NoEntry}
        BY DEF TypeOK
      <4> QED
        BY <4>1 DEF WeightOf, Entries
    <3> QED
      BY <3>1 DEF WeightMap
  <2>2. UNCHANGED <<StatusMap, request>>
    BY <1>2 DEF OtherProgram, frame, StatusMap, StatusOf
  <2> QED
    BY <1>2, <2>1, <2>2 DEF Service!Administer, StatusMap, WeightMap
<1>3. CASE UNCHANGED vars
  <2>1. UNCHANGED <<StatusMap, request, WeightMap>>
    BY <1>3 DEF vars, StatusMap, StatusOf, WeightMap, WeightOf
  <2> QED
    BY <2>1 DEF Stutters
<1> QED
  BY <1>1, <1>2, <1>3, AcceptImplements, HandlerImplements DEF Next

LEMMA InitImplements == Init /\ TypeOK => Service!Init
<1> SUFFICES ASSUME Init, TypeOK PROVE Service!Init
  OBVIOUS
<1>1. StatusMap = [c \in Conns |-> "none"]
  BY DEF Init, StatusMap, StatusOf
<1> QED
  BY <1>1, WeightTyped DEF Service!Init, StatusMap, WeightMap, TypeOK

\* Whatever order the threads take, however the resolver answers and whoever
\* else edits the table, the handlers of handle_post_request keep the promise
\* of WeightService: what they do under ipvs_mutex is one atomic step, on a
\* destination the request names, the answer tells whether it was taken, and
\* a weight that changes otherwise is another program's doing.
THEOREM ServerImplements == Spec => ImplementsWeightService
<1>1. Init => TypeOK /\ MutexDiscipline /\ OwnInv /\ Track
  BY InitTyped, InitDiscipline, InitOwn, InitTrack
<1>2. TypeOK /\ MutexDiscipline /\ OwnInv /\ Track /\ [Next]_vars
        => (TypeOK /\ MutexDiscipline /\ OwnInv /\ Track)'
  BY NextTyped, NextDiscipline, NextOwn, NextTrack
<1>3. TypeOK /\ Track /\ (TypeOK /\ Track)' /\ [Next]_vars
        => /\ [Service!Next]_(Service!serviceVars)
           /\ [Service!Serve \/ OtherProgram]_(Service!serviceVars)
  <2>1. Stutters => UNCHANGED Service!serviceVars
    BY DEF Stutters, StatusMap, WeightMap, Service!serviceVars
  <2> QED
    BY <2>1, NextImplements DEF Service!Next
<1>4. Init => Service!Init
  BY <1>1, InitImplements
<1> QED
  BY <1>1, <1>2, <1>3, <1>4, PTL DEF Spec, ImplementsWeightService, Service!Spec
=============================================================================
