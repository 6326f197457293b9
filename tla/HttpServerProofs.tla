--------------------------- MODULE HttpServerProofs ---------------------------
(***************************************************************************)
(* For any number of connections, workers and requests, any texts, any     *)
(* resolver and any table: what HttpServer's handlers keep true.           *)
(***************************************************************************)
EXTENDS HttpServer, IpvsInterfaceProofs

AllPcs == Waiting \cup Running \cup Ended

-----------------------------------------------------------------------------
(* Types.                                                                  *)

LEMMA GotoTyped ==
  ASSUME TypeOK, NEW c \in Conns, NEW from, NEW to \in AllPcs, Goto(c, from, to)
  PROVE  pc' \in [Conns -> AllPcs]
  BY DEF TypeOK, Goto, AllPcs

LEMMA InitTyped == Init => TypeOK
<1> SUFFICES ASSUME Init PROVE TypeOK
  OBVIOUS
<1>1. svc \in [Conns -> Services] /\ target \in [Conns -> Targets]
  BY ClearedServiceTyped, NoTargetTyped DEF Init
<1>2. table \in [Destinations -> Entries \cup {NoEntry}]
  BY ServerAssumption DEF Init
<1>3. success \in [Conns -> BOOLEAN] /\ aborted \in BOOLEAN
  BY DEF Init
<1>4. pc \in [Conns -> AllPcs]
  BY DEF Init, AllPcs, Waiting
<1>5. QED
  BY <1>1, <1>2, <1>3, <1>4 DEF Init, TypeOK, AllPcs

\* A step that only moves a handler, and at most the owners of the mutexes.
LEMMA MoveTyped ==
  ASSUME TypeOK, pc' \in [Conns -> AllPcs],
         configuration_mutex' \in Conns \cup {None}, ipvs_mutex' \in Conns \cup {None},
         aborted' \in BOOLEAN,
         UNCHANGED <<request, frame, reply, hostent, table>>
  PROVE  TypeOK'
  BY DEF TypeOK, AllPcs, frame

\* The same, when the frame or the reply changes with it.
LEMMA FrameTyped ==
  ASSUME TypeOK, pc' \in [Conns -> AllPcs],
         svc' \in [Conns -> Services], target' \in [Conns -> Targets],
         success' \in [Conns -> BOOLEAN], reply' \in [Conns -> {0, 200, 400, 401, 500}],
         ipvs_mutex' \in Conns \cup {None}, aborted' \in BOOLEAN,
         UNCHANGED <<request, configuration_mutex, hostent, table>>
  PROVE  TypeOK'
  BY DEF TypeOK, AllPcs

LEMMA PopFrameTyped ==
  ASSUME TypeOK, NEW c \in Conns, PopFrame(c)
  PROVE  /\ svc' \in [Conns -> Services]
         /\ target' \in [Conns -> Targets]
         /\ success' \in [Conns -> BOOLEAN]
<1>1. svc' \in [Conns -> Services]
  BY ClearedServiceTyped DEF PopFrame, TypeOK
<1>2. target' \in [Conns -> Targets]
  BY NoTargetTyped DEF PopFrame, TypeOK
<1>3. success' \in [Conns -> BOOLEAN]
  BY DEF PopFrame, TypeOK
<1>4. QED
  BY <1>1, <1>2, <1>3

LEMMA ThrowTyped ==
  ASSUME TypeOK, NEW c \in Conns, NEW from, Throw(c, from)
  PROVE  TypeOK'
<1>1. pc' \in [Conns -> AllPcs]
  BY GotoTyped DEF Throw, AllPcs, Ended
<1>2. aborted' \in BOOLEAN
  BY Zenon DEF Throw
<1>3. QED
  BY <1>1, <1>2, PopFrameTyped, FrameTyped DEF Throw, TypeOK, mutexes

LEMMA LookupTyped ==
  ASSUME TypeOK, NEW c \in Conns, NEW text, NEW from, NEW to \in AllPcs,
         Lookup(c, text, from, to)
  PROVE  TypeOK'
<1>1. pc' \in [Conns -> AllPcs]
  BY GotoTyped DEF Lookup, AllPcs, Running, Locked
<1>2. hostent' \in Addr4 \cup {NoAddr}
  BY AddressAssumption DEF Lookup, TypeOK
<1>3. QED
  BY <1>1, <1>2 DEF Lookup, TypeOK, AllPcs, frame, mutexes

\* The steps of one handler, an action at a time.
LEMMA HandlerTyped ==
  ASSUME TypeOK, NEW c \in Conns, Handler(c)
  PROVE  TypeOK'
<1>1. CASE Dispatch(c)
  BY <1>1, GotoTyped, MoveTyped DEF Dispatch, AllPcs, Waiting, mutexes, TypeOK
<1>2. CASE HandlePostRead(c)
  <2>1. pc' \in [Conns -> AllPcs]
    BY <1>2, GotoTyped DEF HandlePostRead, AllPcs, Waiting, Running, Ended
  <2>2. QED
    BY <1>2, <2>1, MoveTyped DEF HandlePostRead, mutexes, TypeOK
<1>3. CASE LockConfiguration(c)
  BY <1>3, GotoTyped, MoveTyped DEF LockConfiguration, AllPcs, Running, TypeOK
<1>4. CASE UnlockConfiguration(c)
  BY <1>4, GotoTyped, MoveTyped DEF UnlockConfiguration, AllPcs, Running, TypeOK
<1>5. CASE CheckPasses(c)
  BY <1>5, GotoTyped, MoveTyped DEF CheckPasses, AllPcs, Running, mutexes, TypeOK
<1>6. CASE CheckFails(c)
  <2>1. pc' \in [Conns -> AllPcs]
    BY <1>6, GotoTyped DEF CheckFails, AllPcs, Ended
  <2>2. reply' \in [Conns -> {0, 200, 400, 401, 500}]
    BY <1>6 DEF CheckFails, ErrorStatus, TypeOK
  <2>3. QED
    BY <1>6, <2>1, <2>2, FrameTyped DEF CheckFails, TypeOK, frame, mutexes
<1>7. CASE CheckThrows(c)
  BY <1>7, ThrowTyped DEF CheckThrows
<1>8. CASE LockIpvs(c)
  BY <1>8, GotoTyped, MoveTyped DEF LockIpvs, AllPcs, Running, Locked, TypeOK
<1>9. CASE ConvertHost(c)
  BY <1>9, GotoTyped, MoveTyped DEF ConvertHost, AllPcs, Running, Locked, mutexes, TypeOK
<1>10. CASE ConvertThrows(c)
  BY <1>10, ThrowTyped DEF ConvertThrows
<1>11. CASE LookupVip(c)
  BY <1>11, LookupTyped DEF LookupVip, AllPcs, Running, Locked
<1>12. CASE ParseVipText(c)
  <2>1. pc' \in [Conns -> AllPcs]
    BY <1>12, GotoTyped DEF ParseVipText, AllPcs, Running, Locked
  <2>2. svc' \in [Conns -> Services]
    BY <1>12, ClearedServiceTyped, ParseTyped DEF ParseVipText, ParseVip, TypeOK
  <2>3. QED
    BY <1>12, <2>1, <2>2, FrameTyped DEF ParseVipText, TypeOK, mutexes
<1>13. CASE LookupServer(c)
  BY <1>13, LookupTyped DEF LookupServer, AllPcs, Running, Locked
<1>14. CASE ParseServerText(c)
  <2>1. pc' \in [Conns -> AllPcs]
    BY <1>14, GotoTyped DEF ParseServerText, AllPcs, Running, Locked
  <2>2. target' \in [Conns -> Targets]
    BY <1>14, TargetTyped DEF ParseServerText, TypeOK
  <2>3. QED
    BY <1>14, <2>1, <2>2, FrameTyped DEF ParseServerText, TypeOK, mutexes
<1>15. CASE UpdateDest(c)
  <2>1. pc' \in [Conns -> AllPcs]
    BY <1>15, GotoTyped DEF UpdateDest, AllPcs, Running, Locked
  <2>2. table' \in [Destinations -> Entries \cup {NoEntry}]
    <3>1. request[c].kernels \in Int
      BY ServerAssumption DEF TypeOK, RequestOK
    <3>2. QED
      BY <1>15, <3>1, EditDestTyped DEF UpdateDest, TypeOK
  <2>3. success' \in [Conns -> BOOLEAN]
    BY <1>15 DEF UpdateDest, TypeOK
  <2>4. QED
    BY <1>15, <2>1, <2>2, <2>3 DEF UpdateDest, TypeOK, AllPcs, mutexes
<1>16. CASE UpdateFails(c)
  BY <1>16, GotoTyped, MoveTyped DEF UpdateFails, AllPcs, Running, Locked, mutexes, TypeOK
<1>17. CASE Respond(c)
  <2>1. pc' \in [Conns -> AllPcs]
    BY <1>17, GotoTyped DEF Respond, AllPcs, Running, Locked
  <2>2. reply' \in [Conns -> {0, 200, 400, 401, 500}]
    BY <1>17 DEF Respond, TypeOK
  <2>3. QED
    BY <1>17, <2>1, <2>2, FrameTyped DEF Respond, TypeOK, frame, mutexes
<1>18. CASE RespondThrows(c)
  BY <1>18, ThrowTyped DEF RespondThrows
<1>19. CASE UnlockIpvs(c)
  <2>1. pc' \in [Conns -> AllPcs]
    BY <1>19, GotoTyped DEF UnlockIpvs, AllPcs, Ended
  <2>2. QED
    BY <1>19, <2>1, PopFrameTyped, FrameTyped DEF UnlockIpvs, TypeOK
<1>20. QED
  BY <1>1, <1>2, <1>3, <1>4, <1>5, <1>6, <1>7, <1>8, <1>9, <1>10, <1>11, <1>12, <1>13,
     <1>14, <1>15, <1>16, <1>17, <1>18, <1>19 DEF Handler

LEMMA NextTyped == TypeOK /\ [Next]_vars => TypeOK'
<1> SUFFICES ASSUME TypeOK, [Next]_vars PROVE TypeOK'
  OBVIOUS
<1>1. ASSUME NEW c \in Conns, Accept(c) PROVE TypeOK'
  BY <1>1, GotoTyped, MoveTyped DEF Accept, AllPcs, Waiting, mutexes, TypeOK
<1>2. ASSUME NEW c \in Conns, ReadCompletes(c) PROVE TypeOK'
  BY <1>2, GotoTyped, MoveTyped DEF ReadCompletes, AllPcs, Waiting, mutexes, TypeOK
<1>3. CASE OtherProgram
  BY <1>3, ServerAssumption DEF OtherProgram, TypeOK, frame, mutexes
<1>4. CASE UNCHANGED vars
  BY <1>4 DEF TypeOK, vars
<1>5. QED
  BY <1>1, <1>2, <1>3, <1>4, HandlerTyped DEF Next

\* Every variable of the handlers keeps its range: a port that was parsed has
\* 16 bits, a reply is one of the statuses the code sends, the table only ever
\* holds entries.
THEOREM ServerTyped == Spec => []TypeOK
  BY InitTyped, NextTyped, PTL DEF Spec

-----------------------------------------------------------------------------
(* The mutexes.                                                            *)

\* A handler that moves without touching a mutex, and crosses no lock or
\* unlock of one on the way.
SameSide(from, to) ==
  /\ from \notin {"configLocked", "threw"} /\ to # "configLocked"
  /\ to \in Locked => from \in Locked
  /\ from \in Locked => to \in Locked \cup {"threw"}

LEMMA KeepsDiscipline ==
  ASSUME TypeOK, MutexDiscipline, NEW c \in Conns, NEW from, NEW to,
         Goto(c, from, to), SameSide(from, to), UNCHANGED mutexes
  PROVE  MutexDiscipline'
<1>1. /\ pc[c] = from /\ pc' = [pc EXCEPT ![c] = to] /\ pc \in [Conns -> AllPcs]
      /\ configuration_mutex' = configuration_mutex /\ ipvs_mutex' = ipvs_mutex
  BY DEF Goto, TypeOK, AllPcs, mutexes
<1> SUFFICES ASSUME NEW d \in Conns
             PROVE  /\ pc'[d] \in Locked => ipvs_mutex = d
                    /\ ipvs_mutex = d => pc'[d] \in Locked \cup {"threw"}
                    /\ pc'[d] = "configLocked" <=> configuration_mutex = d
  BY <1>1, Zenon DEF MutexDiscipline
<1>2. CASE d = c
  BY <1>1, <1>2 DEF SameSide, MutexDiscipline
<1>3. CASE d # c
  BY <1>1, <1>3 DEF MutexDiscipline
<1>4. QED
  BY <1>2, <1>3

LEMMA ThrowDiscipline ==
  ASSUME TypeOK, MutexDiscipline, NEW c \in Conns,
         NEW from \in {"check", "convert", "respond"}, Throw(c, from)
  PROVE  MutexDiscipline'
  BY KeepsDiscipline DEF Throw, SameSide, Locked

LEMMA LookupDiscipline ==
  ASSUME TypeOK, MutexDiscipline, NEW c \in Conns, NEW text,
         NEW from \in Locked, NEW to \in Locked, Lookup(c, text, from, to)
  PROVE  MutexDiscipline'
<1>1. SameSide(from, to) /\ SameSide(from, "respond")
  BY DEF SameSide, Locked
<1>2. QED
  BY <1>1, KeepsDiscipline DEF Lookup

LEMMA HandlerDiscipline ==
  ASSUME TypeOK, MutexDiscipline, NEW c \in Conns, Handler(c)
  PROVE  MutexDiscipline'
<1>1. CASE Dispatch(c)
  BY <1>1, KeepsDiscipline DEF Dispatch, SameSide, Locked
<1>2. CASE HandlePostRead(c)
  BY <1>2, KeepsDiscipline DEF HandlePostRead, SameSide, Locked
<1>3. CASE LockConfiguration(c)
  <2>1. \A d \in Conns : d # c => pc[d] # "configLocked"
    BY <1>3, ServerAssumption DEF LockConfiguration, MutexDiscipline
  <2>2. QED
    BY <1>3, <2>1 DEF LockConfiguration, Goto, MutexDiscipline, TypeOK, Locked
<1>4. CASE UnlockConfiguration(c)
  BY <1>4, ServerAssumption DEF UnlockConfiguration, Goto, MutexDiscipline, TypeOK, Locked
<1>5. CASE CheckPasses(c)
  BY <1>5, KeepsDiscipline DEF CheckPasses, SameSide, Locked
<1>6. CASE CheckFails(c)
  BY <1>6, KeepsDiscipline DEF CheckFails, SameSide, Locked
<1>7. CASE CheckThrows(c)
  BY <1>7, ThrowDiscipline DEF CheckThrows
<1>8. CASE LockIpvs(c)
  <2>1. \A d \in Conns : pc[d] \notin Locked
    BY <1>8, ServerAssumption DEF LockIpvs, MutexDiscipline
  <2>2. QED
    BY <1>8, <2>1 DEF LockIpvs, Goto, MutexDiscipline, TypeOK, Locked
<1>9. CASE ConvertHost(c)
  BY <1>9, KeepsDiscipline DEF ConvertHost, SameSide, Locked
<1>10. CASE ConvertThrows(c)
  BY <1>10, ThrowDiscipline DEF ConvertThrows
<1>11. CASE LookupVip(c)
  BY <1>11, LookupDiscipline DEF LookupVip, Locked
<1>12. CASE ParseVipText(c)
  BY <1>12, KeepsDiscipline DEF ParseVipText, SameSide, Locked
<1>13. CASE LookupServer(c)
  BY <1>13, LookupDiscipline DEF LookupServer, Locked
<1>14. CASE ParseServerText(c)
  BY <1>14, KeepsDiscipline DEF ParseServerText, SameSide, Locked
<1>15. CASE UpdateDest(c)
  BY <1>15, KeepsDiscipline DEF UpdateDest, SameSide, Locked
<1>16. CASE UpdateFails(c)
  BY <1>16, KeepsDiscipline DEF UpdateFails, SameSide, Locked
<1>17. CASE Respond(c)
  BY <1>17, KeepsDiscipline DEF Respond, SameSide, Locked
<1>18. CASE RespondThrows(c)
  BY <1>18, ThrowDiscipline DEF RespondThrows
<1>19. CASE UnlockIpvs(c)
  <2>1. \A d \in Conns : d # c => pc[d] \notin Locked
    BY <1>19 DEF UnlockIpvs, Goto, MutexDiscipline, Locked
  <2>2. QED
    BY <1>19, <2>1, ServerAssumption DEF UnlockIpvs, Goto, MutexDiscipline, TypeOK, Locked
<1>20. QED
  BY <1>1, <1>2, <1>3, <1>4, <1>5, <1>6, <1>7, <1>8, <1>9, <1>10, <1>11, <1>12, <1>13,
     <1>14, <1>15, <1>16, <1>17, <1>18, <1>19 DEF Handler

LEMMA InitDiscipline == Init => MutexDiscipline
  BY ServerAssumption DEF Init, MutexDiscipline, Locked

LEMMA NextDiscipline == TypeOK /\ MutexDiscipline /\ [Next]_vars => MutexDiscipline'
<1> SUFFICES ASSUME TypeOK, MutexDiscipline, [Next]_vars PROVE MutexDiscipline'
  OBVIOUS
<1>1. ASSUME NEW c \in Conns, Accept(c) PROVE MutexDiscipline'
  BY <1>1, KeepsDiscipline DEF Accept, SameSide, Locked
<1>2. ASSUME NEW c \in Conns, ReadCompletes(c) PROVE MutexDiscipline'
  BY <1>2, KeepsDiscipline DEF ReadCompletes, SameSide, Locked
<1>3. CASE OtherProgram
  BY <1>3 DEF OtherProgram, MutexDiscipline, mutexes
<1>4. CASE UNCHANGED vars
  BY <1>4 DEF MutexDiscipline, vars
<1>5. QED
  BY <1>1, <1>2, <1>3, <1>4, HandlerDiscipline DEF Next

\* No two handlers are between the lock and the unlock of ipvs_mutex, so
\* set_weight never runs twice at a time; nobody but a handler inside, or one
\* that left by an exception, holds it.
THEOREM ServerDiscipline == Spec => []MutexDiscipline
  BY InitTyped, NextTyped, InitDiscipline, NextDiscipline, PTL DEF Spec

-----------------------------------------------------------------------------
(* The resolver's static buffer.                                           *)

\* OwnAddress says nothing of the buffer, so no step from a lookup to its copy
\* could be shown to keep it.  This does: while a handler is between the two,
\* the buffer holds the answer for its own text.
OwnOf(c) ==
  /\ pc[c] = "vipCopy" => NeedsLookup(Vip) /\ hostent \in Answers(Vip)
  /\ pc[c] \in {"server", "serverCopy", "update"} => svc[c].addr \in Answers(Vip)
  /\ pc[c] = "serverCopy" =>
       NeedsLookup(request[c].host) /\ hostent \in Answers(request[c].host)
  /\ pc[c] = "update" => target[c].addr \in Answers(request[c].host)

OwnInv == \A c \in Conns : OwnOf(c)

Looking == {"vipCopy", "server", "serverCopy", "update"}

\* A text that parses has the address of its literal, or the answer given.
LEMMA ParsedAddress ==
  ASSUME NEW text, NEW s, NEW answer,
         m_parse_service(text, s, answer).flags # SERVICE_NONE
  PROVE  /\ ~ Malformed(text)
         /\ m_parse_service(text, s, answer).svc.addr = HostAddress(text, answer)
<1> DEFINE addr == HostAddress(text, answer)
           port == PortText(text)
           found(p) == [addr |-> addr, port |-> p]
<1>1. CASE Malformed(text) \/ addr = NoAddr
  BY <1>1 DEF m_parse_service
<1>2. CASE ~ Malformed(text) /\ addr # NoAddr
  <2>1. m_parse_service(text, s, answer) \in
          {[flags |-> SERVICE_ADDR, svc |-> found(s.port)],
           [flags |-> SERVICE_NONE, svc |-> found(s.port)],
           [flags |-> SERVICE_BOTH, svc |-> found(PortValue(port))]}
    BY <1>2 DEF m_parse_service
  <2> HIDE DEF addr, port
  <2>2. m_parse_service(text, s, answer).svc.addr = addr
    BY <2>1
  <2>3. QED
    BY <1>2, <2>2 DEF addr
<1>3. QED
  BY <1>1, <1>2

\* That address is one the text may turn out to mean.
LEMMA AddressIsAnswer ==
  ASSUME NEW text, NEW answer, ~ Malformed(text),
         NeedsLookup(text) => answer \in Answers(text)
  PROVE  HostAddress(text, answer) \in Answers(text)
<1>1. CASE NeedsLookup(text)
  BY <1>1 DEF NeedsLookup, HostAddress
<1>2. CASE ~ NeedsLookup(text)
  BY <1>2 DEF NeedsLookup, HostAddress, Answers
<1>3. QED
  BY <1>1, <1>2

\* A step of c that leaves the buffer alone, or is taken by the mutex's owner,
\* disturbs no other handler.
LEMMA OthersKeepOwn ==
  ASSUME TypeOK, MutexDiscipline, OwnInv, NEW c \in Conns, NEW d \in Conns, d # c,
         pc'[d] = pc[d], svc'[d] = svc[d], target'[d] = target[d],
         request' = request,
         hostent' = hostent \/ pc[c] \in Locked
  PROVE  OwnOf(d)'
<1>1. CASE hostent' = hostent
  BY <1>1 DEF OwnInv, OwnOf
<1>2. CASE pc[c] \in Locked
  <2>1. pc[d] \notin Looking
    BY <1>2 DEF MutexDiscipline, Looking, Locked
  <2>2. QED
    BY <2>1 DEF OwnOf, Looking
<1>3. QED
  BY <1>1, <1>2

\* A step of c that takes it out of set_weight, or leaves it outside.
LEMMA OutsideKeepsOwn ==
  ASSUME TypeOK, MutexDiscipline, OwnInv, NEW c \in Conns, NEW from, NEW to,
         Goto(c, from, to), to \notin Looking, request' = request, hostent' = hostent,
         \/ UNCHANGED frame
         \/ PopFrame(c)
  PROVE  OwnInv'
<1>1. OwnOf(c)'
  BY DEF Goto, TypeOK, OwnOf, Looking
<1>2. ASSUME NEW d \in Conns, d # c PROVE OwnOf(d)'
  BY <1>2, OthersKeepOwn DEF Goto, TypeOK, PopFrame, frame
<1>3. QED
  BY <1>1, <1>2 DEF OwnInv

LEMMA ThrowOwn ==
  ASSUME TypeOK, MutexDiscipline, OwnInv, NEW c \in Conns, NEW from, Throw(c, from)
  PROVE  OwnInv'
  BY OutsideKeepsOwn DEF Throw, Looking

LEMMA LookupVipOwn ==
  ASSUME TypeOK, MutexDiscipline, OwnInv, NEW c \in Conns, LookupVip(c)
  PROVE  OwnInv'
<1>1. CASE Goto(c, "vip", "respond") /\ UNCHANGED hostent
  BY <1>1, OutsideKeepsOwn DEF LookupVip, Lookup, Looking
<1>2. CASE /\ Vip.host \in DOMAIN Resolver
           /\ hostent' \in Resolver[Vip.host]
           /\ Goto(c, "vip", "vipCopy")
  <2>1. OwnOf(c)'
    BY <1>2 DEF LookupVip, Lookup, Goto, TypeOK, OwnOf, Answers
  <2>2. ASSUME NEW d \in Conns, d # c PROVE OwnOf(d)'
    BY <1>2, <2>2, OthersKeepOwn DEF LookupVip, Lookup, Goto, TypeOK, frame, Locked
  <2>3. QED
    BY <2>1, <2>2 DEF OwnInv
<1>3. QED
  BY <1>1, <1>2 DEF LookupVip, Lookup

LEMMA ParseVipOwn ==
  ASSUME TypeOK, MutexDiscipline, OwnInv, NEW c \in Conns, ParseVipText(c)
  PROVE  OwnInv'
<1> DEFINE from  == IF NeedsLookup(Vip) THEN "vipCopy" ELSE "vip"
           parse == ParseVip(Vip, hostent)
<1>1. /\ Goto(c, from, IF parse.flags = SERVICE_NONE THEN "respond" ELSE "server")
      /\ svc' = [svc EXCEPT ![c] = parse.svc]
      /\ target' = target /\ request' = request /\ hostent' = hostent
  BY Zenon DEF ParseVipText
<1>2. OwnOf(c)'
  <2>1. CASE parse.flags = SERVICE_NONE
    BY <1>1, <2>1 DEF Goto, TypeOK, OwnOf
  <2>2. CASE parse.flags # SERVICE_NONE
    <3>1. ~ Malformed(Vip) /\ parse.svc.addr = HostAddress(Vip, hostent)
      BY <2>2, ParsedAddress DEF ParseVip
    <3>2. NeedsLookup(Vip) => hostent \in Answers(Vip)
      BY <1>1 DEF Goto, OwnInv, OwnOf
    <3>3. parse.svc.addr \in Answers(Vip)
      BY <3>1, <3>2, AddressIsAnswer
    <3> HIDE DEF parse, from
    <3>4. QED
      BY <1>1, <2>2, <3>3 DEF Goto, TypeOK, OwnOf
  <2>3. QED
    BY <2>1, <2>2
<1>3. ASSUME NEW d \in Conns, d # c PROVE OwnOf(d)'
  <2> HIDE DEF parse, from
  <2>1. QED
    BY <1>1, <1>3, OthersKeepOwn DEF Goto, TypeOK
<1>4. QED
  BY <1>2, <1>3 DEF OwnInv

LEMMA LookupServerOwn ==
  ASSUME TypeOK, MutexDiscipline, OwnInv, NEW c \in Conns, LookupServer(c)
  PROVE  OwnInv'
<1> DEFINE text == request[c].host
<1>1. CASE Goto(c, "server", "respond") /\ UNCHANGED hostent
  BY <1>1, OutsideKeepsOwn DEF LookupServer, Lookup, Looking
<1>2. CASE /\ text.host \in DOMAIN Resolver
           /\ hostent' \in Resolver[text.host]
           /\ Goto(c, "server", "serverCopy")
  <2>1. OwnOf(c)'
    <3>1. NeedsLookup(text) /\ request' = request /\ svc' = svc
      BY DEF LookupServer, Lookup, frame
    <3>2. hostent' \in Answers(text)
      BY <1>2, <3>1 DEF Answers
    <3>3. svc[c].addr \in Answers(Vip)
      BY <1>2 DEF Goto, OwnInv, OwnOf
    <3>4. pc'[c] = "serverCopy"
      BY <1>2 DEF Goto, TypeOK
    <3> HIDE DEF text
    <3>5. OwnOf(c)' <=> /\ svc'[c].addr \in Answers(Vip)
                        /\ NeedsLookup(request'[c].host)
                        /\ hostent' \in Answers(request'[c].host)
      BY <3>4 DEF OwnOf
    <3>6. QED
      BY <3>1, <3>2, <3>3, <3>5, Zenon DEF text
  <2>2. ASSUME NEW d \in Conns, d # c PROVE OwnOf(d)'
    BY <1>2, <2>2, OthersKeepOwn DEF LookupServer, Lookup, Goto, TypeOK, frame, Locked
  <2>3. QED
    BY <2>1, <2>2 DEF OwnInv
<1>3. QED
  BY <1>1, <1>2 DEF LookupServer, Lookup

LEMMA ParseServerOwn ==
  ASSUME TypeOK, MutexDiscipline, OwnInv, NEW c \in Conns, ParseServerText(c)
  PROVE  OwnInv'
<1> DEFINE text  == request[c].host
           from  == IF NeedsLookup(text) THEN "serverCopy" ELSE "server"
           parse == ParseServer(text, svc[c], hostent)
           to    == IF Reaches(svc[c], parse) THEN "update" ELSE "respond"
<1>1. /\ Goto(c, from, to)
      /\ target' = [target EXCEPT ![c] = Target(svc[c], parse)]
      /\ svc' = svc /\ request' = request /\ hostent' = hostent
  BY Zenon DEF ParseServerText
<1>2. OwnOf(c)'
  <2>1. CASE to = "respond"
    BY <1>1, <2>1 DEF Goto, TypeOK, OwnOf
  <2>2. CASE Reaches(svc[c], parse)
    <3>1. ~ Malformed(text) /\ parse.svc.addr = HostAddress(text, hostent)
      BY <2>2, ParsedAddress DEF ParseServer, Reaches
    <3>2. NeedsLookup(text) => hostent \in Answers(text)
      BY <1>1 DEF Goto, OwnInv, OwnOf
    <3>3. parse.svc.addr \in Answers(text)
      BY <3>1, <3>2, AddressIsAnswer
    <3>4. Target(svc[c], parse).addr \in Answers(text)
      BY <3>3 DEF Target
    <3>5. svc[c].addr \in Answers(Vip)
      BY <1>1 DEF Goto, OwnInv, OwnOf
    <3>6. to = "update"
      BY <2>2
    <3> HIDE DEF parse, from, to
    <3>7. QED
      BY <1>1, <3>4, <3>5, <3>6 DEF Goto, TypeOK, OwnOf
  <2>3. QED
    BY <2>1, <2>2
<1>3. ASSUME NEW d \in Conns, d # c PROVE OwnOf(d)'
  <2> HIDE DEF parse, from, to
  <2>1. QED
    BY <1>1, <1>3, OthersKeepOwn DEF Goto, TypeOK
<1>4. QED
  BY <1>2, <1>3 DEF OwnInv

\* The steps of one handler that look nothing up stay outside, or leave.
LEMMA HandlerOwn ==
  ASSUME TypeOK, MutexDiscipline, OwnInv, NEW c \in Conns, Handler(c)
  PROVE  OwnInv'
<1>1. CASE Dispatch(c)
  BY <1>1, OutsideKeepsOwn DEF Dispatch, Looking
<1>2. CASE HandlePostRead(c)
  BY <1>2, OutsideKeepsOwn DEF HandlePostRead, Looking
<1>3. CASE LockConfiguration(c)
  BY <1>3, OutsideKeepsOwn DEF LockConfiguration, Looking
<1>4. CASE UnlockConfiguration(c)
  BY <1>4, OutsideKeepsOwn DEF UnlockConfiguration, Looking
<1>5. CASE CheckPasses(c)
  BY <1>5, OutsideKeepsOwn DEF CheckPasses, Looking
<1>6. CASE CheckFails(c)
  BY <1>6, OutsideKeepsOwn DEF CheckFails, Looking
<1>7. CASE CheckThrows(c)
  BY <1>7, ThrowOwn DEF CheckThrows
<1>8. CASE LockIpvs(c)
  BY <1>8, OutsideKeepsOwn DEF LockIpvs, Looking
<1>9. CASE ConvertHost(c)
  BY <1>9, OutsideKeepsOwn DEF ConvertHost, Looking
<1>10. CASE ConvertThrows(c)
  BY <1>10, ThrowOwn DEF ConvertThrows
<1>11. CASE UpdateDest(c)
  <2>1. OwnOf(c)'
    BY <1>11 DEF UpdateDest, Goto, TypeOK, OwnOf
  <2>2. ASSUME NEW d \in Conns, d # c PROVE OwnOf(d)'
    BY <1>11, <2>2, OthersKeepOwn DEF UpdateDest, Goto, TypeOK
  <2>3. QED
    BY <2>1, <2>2 DEF OwnInv
<1>12. CASE UpdateFails(c)
  BY <1>12, OutsideKeepsOwn DEF UpdateFails, Looking
<1>13. CASE Respond(c)
  BY <1>13, OutsideKeepsOwn DEF Respond, Looking
<1>14. CASE RespondThrows(c)
  BY <1>14, ThrowOwn DEF RespondThrows
<1>15. CASE UnlockIpvs(c)
  BY <1>15, OutsideKeepsOwn DEF UnlockIpvs, Looking
<1>16. QED
  BY <1>1, <1>2, <1>3, <1>4, <1>5, <1>6, <1>7, <1>8, <1>9, <1>10, <1>11, <1>12, <1>13,
     <1>14, <1>15, LookupVipOwn, ParseVipOwn, LookupServerOwn, ParseServerOwn DEF Handler

LEMMA InitOwn == Init => OwnInv
  BY DEF Init, OwnInv, OwnOf

LEMMA NextOwn == TypeOK /\ MutexDiscipline /\ OwnInv /\ [Next]_vars => OwnInv'
<1> SUFFICES ASSUME TypeOK, MutexDiscipline, OwnInv, [Next]_vars PROVE OwnInv'
  OBVIOUS
<1>1. ASSUME NEW c \in Conns, Accept(c) PROVE OwnInv'
  BY <1>1, OutsideKeepsOwn DEF Accept, Looking
<1>2. ASSUME NEW c \in Conns, ReadCompletes(c) PROVE OwnInv'
  BY <1>2, OutsideKeepsOwn DEF ReadCompletes, Looking
<1>3. CASE OtherProgram
  BY <1>3 DEF OtherProgram, OwnInv, OwnOf, frame
<1>4. CASE UNCHANGED vars
  BY <1>4 DEF OwnInv, OwnOf, vars
<1>5. QED
  BY <1>1, <1>2, <1>3, <1>4, HandlerOwn DEF Next

\* Though gethostbyname has one result for the whole process, every address a
\* handler asks the kernel for is one its own two texts may mean.
THEOREM ServerOwnAddress == Spec => []OwnAddress
<1>1. OwnInv => OwnAddress
  BY DEF OwnInv, OwnOf, OwnAddress
<1>2. QED
  BY <1>1, InitTyped, NextTyped, InitDiscipline, NextDiscipline, InitOwn, NextOwn, PTL DEF Spec

-----------------------------------------------------------------------------
(* What an exception under the mutex leaves.                               *)

LeakStep ==
  Leaked => /\ ipvs_mutex' = ipvs_mutex
            /\ \A c \in Conns : reply'[c] = 200 => reply[c] = 200

\* The owner has thrown, so no handler is where only the owner can be.
LEMMA LeakedNobodyInside ==
  ASSUME MutexDiscipline, Leaked, NEW c \in Conns
  PROVE  pc[c] \notin Locked /\ ipvs_mutex # None
  BY ServerAssumption DEF MutexDiscipline, Leaked, Locked

LEMMA HandlerLeak ==
  ASSUME TypeOK, MutexDiscipline, Leaked, NEW c \in Conns, Handler(c)
  PROVE  ipvs_mutex' = ipvs_mutex /\ (\A d \in Conns : reply'[d] = 200 => reply[d] = 200)
<1>1. pc[c] \notin Locked /\ ipvs_mutex # None
  BY LeakedNobodyInside
<1>2. CASE Dispatch(c) \/ HandlePostRead(c) \/ UnlockConfiguration(c) \/ CheckPasses(c)
  BY <1>2 DEF Dispatch, HandlePostRead, UnlockConfiguration, CheckPasses, mutexes
<1>3. CASE LockConfiguration(c)
  BY <1>3 DEF LockConfiguration
<1>4. CASE CheckFails(c)
  BY <1>4 DEF CheckFails, ErrorStatus, TypeOK, mutexes
<1>5. CASE CheckThrows(c)
  BY <1>5 DEF CheckThrows, Throw, mutexes
<1>6. CASE LockIpvs(c)
  BY <1>1, <1>6 DEF LockIpvs
<1>7. CASE ConvertHost(c) \/ ConvertThrows(c)
  BY <1>1, <1>7 DEF ConvertHost, ConvertThrows, Throw, Goto, Locked
<1>8. CASE LookupVip(c) \/ LookupServer(c)
  BY <1>1, <1>8 DEF LookupVip, LookupServer, Lookup, Goto, Locked
<1>9. CASE ParseVipText(c)
  BY <1>1, <1>9 DEF ParseVipText, Goto, Locked
<1>10. CASE ParseServerText(c)
  BY <1>1, <1>10 DEF ParseServerText, Goto, Locked
<1>11. CASE UpdateDest(c) \/ UpdateFails(c) \/ Respond(c) \/ RespondThrows(c) \/ UnlockIpvs(c)
  BY <1>1, <1>11 DEF UpdateDest, UpdateFails, Respond, RespondThrows, UnlockIpvs, Throw, Goto, Locked
<1>12. QED
  BY <1>2, <1>3, <1>4, <1>5, <1>6, <1>7, <1>8, <1>9, <1>10, <1>11 DEF Handler

LEMMA NextLeak == TypeOK /\ MutexDiscipline /\ [Next]_vars => LeakStep
<1> SUFFICES ASSUME TypeOK, MutexDiscipline, [Next]_vars, Leaked
             PROVE  /\ ipvs_mutex' = ipvs_mutex
                    /\ \A d \in Conns : reply'[d] = 200 => reply[d] = 200
  BY DEF LeakStep
<1>1. CASE \E c \in Conns : Accept(c) \/ ReadCompletes(c)
  BY <1>1 DEF Accept, ReadCompletes, mutexes
<1>2. CASE \E c \in Conns : Handler(c)
  BY <1>2, HandlerLeak
<1>3. CASE OtherProgram
  BY <1>3 DEF OtherProgram, mutexes
<1>4. CASE UNCHANGED vars
  BY <1>4 DEF vars
<1>5. QED
  BY <1>1, <1>2, <1>3, <1>4 DEF Next

\* One exception under ipvs_mutex, from whichever request, and no request is
\* ever answered 200 again.
THEOREM ServerLeakIsFinal == Spec => LeakIsFinal
<1>1. TypeOK /\ MutexDiscipline /\ [Next]_vars => [LeakStep]_vars
  BY NextLeak
<1>2. LeakIsFinal <=> [][LeakStep]_vars
  BY PTL DEF LeakIsFinal, LeakStep
<1>3. QED
  BY <1>1, <1>2, ServerTyped, ServerDiscipline, PTL DEF Spec
=============================================================================
