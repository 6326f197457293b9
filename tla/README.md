# ipvshttpd in TLA+

ipvshttpd is an HTTP(S) daemon. A POST with a JSON object
`{"api_key": ..., "host": ..., "kernels": n}` sets the weight of one
destination of one virtual service (the configured `vip`) in the kernel's
IPVS table. `rate_test` does the same once, from the command line. Both call
the vendored library libipvs. The modules in this directory describe the two
programs, the init script and the library; TLC checks them on small instances,
and TLAPS proves their invariants, and both refinements, for every instance.

Paths below are relative to the repository.

## 1. Inventory

| Part | Source | State | Operations |
|---|---|---|---|
| request handling | `src/http_server.cpp` 120-287 | two global mutexes, one `connection_handler` per connection, the worker threads | `async_http_server::operator()`, `handle_post_request`, `report_error` |
| body reading | `src/http_server.cpp` 143-193 | `m_request_body`, what is left to read | `operator()`, `read_chunk`, `handle_post_read` |
| IPVS interface | `src/ipvs_interface.cpp` | `m_initialized`, the library's socket | `init`, `m_modprobe_ipvs`, `m_parse_service`, `set_weight`, the destructor |
| name resolution | `src/net_tools.cpp` | the static result of `gethostbyname` | `host_to_addr` |
| libipvs: commands and transports | `depend/libipvs/libipvs.c` 40-586, 1255-1263 | global sockets, `try_nl`, netlink `family`, `ipvs_info` | `ipvs_init`, `ipvs_getinfo`, `ipvs_close`, `ipvs_nl_message`, `ipvs_nl_send_message`; add, update, delete and zero of services and destinations, flush, timeouts, daemons |
| libipvs: dumps and questions | `depend/libipvs/libipvs.c` 588-1252 | the array of the dump in progress | `ipvs_get_services`, `_dests`, `_service`, `_timeout`, `_daemon`, and their callbacks |
| rate_test | `src/rate_test.cpp` | exit status | `main` |
| server lifecycle | `src/http_server.cpp` 31-116 | `m_server`, the signal set | `start`, `stop` |
| process lifecycle | `src/ipvshttpd.cpp` 231-275 | the PID file | fork, write, remove, exit |
| init script | `dist/ipvshttpd.init` | none of its own: PID file and process table | `start`, `stop`, `restart`, `status` |
| command line, configuration | `src/ipvshttpd.cpp` 18-225, `src/configuration.cpp` | the global `config`, locals of `main` | option loop, `configuration_manager::open` |
| logging | `src/logging.cpp` | `logging_level`, `active_log_sinks` | `log_start`, `log_error`, `log_message`, `log_debug`, `log_stop` |
| string and file tools | `src/string_tools.cpp`, `src/file_tools.cpp` | none | `str_split` and the conversions, `file_exists` |
| health check | `src/health_check.h` | none | an empty class |

How they interact. `main` fills `config` and the logging globals, constructs
the server, forks and calls `start`, which opens the IPVS interface and runs
cpp-netlib's server on the main thread. For each connection the library posts
a handler to its thread pool. A handler reads the body in callbacks, then runs
`handle_post_request` to its end on one worker: under `configuration_mutex` it
copies the API key and the VIP, checks the request without a mutex, and under
`ipvs_mutex` resolves both texts and calls `ipvs_update_dest`, that is
`setsockopt`. Other programs write the same kernel table. The init script
reaches the daemon only through the PID file and SIGTERM. Of libipvs the two
programs use only `ipvs_init`, `ipvs_update_dest` and `ipvs_close`, built without
netlink; the rest of the library is modelled as it stands in the tree.

What is hard. The mutexes are taken and released by hand, so that every exit
of a handler counts, exceptions of JsonCpp and of the connection included.
`gethostbyname` has one result for the process. The body's length is a
`size_t` computed from an `int`. The signal handler deletes the server that is
running. PID file, fork and signals race with the script, which may also run
again before the first daemon is up. Options, file and defaults overlap.
libipvs has two transports in one set of globals, puts the family of the last
call into the next message, loses answers, and fills arrays sized by an earlier
count while the table changes.

What makes each part correct:

* request handling: mutual exclusion on the table and on the resolver, no
  address from another request, an answer that tells what happened, at most
  one update per request, permitted and addressed as the texts say; progress
  as long as no exception leaks a mutex;
* body reading: exactly the declared body is handled, and an exact body is;
* IPVS interface and rate_test: the destination that is changed is the one the
  texts stand for, and the exit status says so;
* lifecycle and script: the PID file names the daemon that serves, an orderly
  exit removes it, what the script says of the daemon holds, `stop` ends;
* start-up: options beat the file and the file beats the defaults, and the
  server starts exactly when command line and file are in order;
* libipvs: a command changes the table at most once, between its call and its
  return, and 0 says that it did; a dump shows the table and stays within its
  array; a reloaded module costs a bounded number of calls.

`PROJECT.json` lists the components, the hazards of the code line by line with
the properties that cover them, the map from definitions to source lines, the
runs, the mutants and the theorems.

## 2. Modules

| Module | Models | Built on |
|---|---|---|
| `IpvsInterface` | `m_parse_service`, `set_weight`'s decisions, the kernel's edit, as operators | |
| `HttpServer` | the handlers on the worker threads | `IpvsInterface`, `WeightService` |
| `WeightService` | what the daemon promises clients (abstract) | |
| `BodyReader` | one handler's body arithmetic | |
| `RateTest` | the whole of `rate_test`, with `init` | `IpvsInterface` |
| `Startup` | `main` up to `log_start`, configuration file, logging, the string and file tools | |
| `Daemon` | fork, PID file, signals, `start`/`stop`, the init script | |
| `IpvsKernel` | the kernel's table of services, destinations, daemons and timeouts, and what each command makes of it, as operators | |
| `Libipvs` | the library over both transports, with what goes on around its caller | `IpvsKernel`, `IpvsTable` |
| `IpvsTable` | what libipvs promises its caller (abstract) | |
| `IpvsInterfaceProofs` | lemmas about parsing and edit, for the next three | `IpvsInterface`, `TLAPS` |
| `HttpServerProofs`, `WeightServiceProofs` | theorems about the handlers; that they implement `WeightService` | `HttpServer`, and the second on the first |
| `RateTestProofs`, `BodyReaderProofs`, `DaemonProofs`, `StartupProofs`, `LibipvsProofs` | theorems | the module of the same name, `TLAPS` |
| `MC...` | instances for TLC (`Daemon` needs none: its configuration names model values) | the module of the same name |

Operators whose names end in a word after an underscore and whose comment
starts with "Mutation" (`LockIpvs_timed`, `Target_vport`, ...) are plausible
bugs. No specification uses them; put in the place of the definition after
them they make TLC refute the property `PROJECT.json` names with them.

### IpvsInterface

Texts `address[:port]` are records of the pieces the parser cuts them into:
whether they begin with a bracket and how it closes, the host, what follows
the last colon, what follows `]:`. What libc makes of a piece (`inet_aton`,
`inet_pton`, `gethostbyname`, `strtol`, `getservbyname`) is a constant, so an
instance chooses its spellings. `m_parse_service` gives the flags and the
service, keeping what the caller's structure held where the code does. The
zero address stands for "no answer"; a literal 0.0.0.0 is left out. `EditDest`
is the kernel's side of `IP_VS_SO_SET_EDITDEST`: the command carries the
forwarding method and the thresholds as well as the weight, and `set_weight`
fills these with direct routing and zero.

### HttpServer

Each connection carries one request. `pc[c]` follows its handler: `Accept` and
`Dispatch` (the library and `operator()`), `ReadCompletes` and
`HandlePostRead`, `LockConfiguration` and `UnlockConfiguration`, `CheckPasses`,
`CheckFails` and `CheckThrows` (the JSON, key and field tests, in the order of
the code), `LockIpvs`, `ConvertHost` and `ConvertThrows` (`asString`), two
lookups each followed by the parse that copies the static buffer,
`UpdateDest` and `UpdateFails`, `Respond` and `RespondThrows`, `UnlockIpvs`. A
handler that may block or compute holds one of `Threads` workers. An exception
ends the handler with its locks as they are; whether the library swallows it
or the process aborts is `OnThrow`. `OtherProgram` is ipvsadm or keepalived.
`BodyReader` settles how the body arrives; here it has arrived, or the read
has failed.

`WeightService` is the abstract specification: a request is submitted, applied
in one step or refused, and answered (`Serve`); other programs change the table
(`Administer`). The refinement mapping takes the table's weights, and derives a
request's status from `pc`, `success` and `reply`. `ImplementsWeightService` also
says which steps may pass for other programs': those of `OtherProgram` only, so
that an update the daemon did not report, or did twice, has no place.

### BodyReader

The body is its length. `content_length` is an `int`, `left_to_read` a
`size_t` of modulus `SizeMod`; every read subtracts its size. The read buffer,
the bytes that came with the headers (whose delivery may be empty), and a
client that sends less, more, or closes are all choices. There is one wrap at
most: `SizeAssumption` says that lengths and bodies are far from 2^64.

### RateTest

One run of `main`: usage, `ipvs_interface::init` with the first `ipvs_init`,
`modprobe` and the second `ipvs_init`, `set_weight`, the destructor, the exit
status. The number of open sockets shows what a failed `ipvs_init` forgets.
The meaning of the two arguments is written a second time, from the usage and
the header (`Meant`), without the parser; `ExitTells` uses all of it but the
ports of texts in brackets (`MeantBesidesPorts`).

### Startup

One action per option and per line of the file, and one each for the end of
the options, the end of the file, and what `main` takes from it. A text is the
sequence of its words, blanks and punctuation marks, so that the string tools
(`str_split`, the trims, `str_to_lower`, `str_starts_with`) are operators that
do what the code does, limit and all; `atoi` and the lower case of a word are
constants. `str_split` is a recursive function of the place where what is left
begins and of the pieces so far. `active_log_sinks` is the set of its bits, in which LOG_SINK_NONE,
being 0, has none. The invariants compare the outcome with a reading of the
whole command line and file at once, which finds the delimiters without the
loops.

### Daemon

`state[p]` follows the main thread of each daemon: forked, PID file open,
written, IPVS open, signal set in place, serving, stopped (port closed),
deleted, returned from `start`, PID file removed, exited. SIGTERM is caught
from the signal set's construction to the end of `start` and ends the process
before and after. `opened` remembers whose open file is still the one under
the name, because `remove` may come between another's open and write. After
the deletion of the running server the behaviour is undefined: `run` returns
or the process dies. `delete` waits for the pool's workers, so a worker stuck
on `ipvs_mutex` (`Wedge`, from `HttpServer`) keeps the process. The script
runs as root, one run at a time, one action per command that looks at the file
or the process. `patient` is chosen once per behaviour: whether runs of the
script wait for daemons that are starting.

External code is modelled from its use: cpp-netlib binds the port in `run` and
throws when it cannot, and its pool joins its workers when it is destroyed.

### IpvsKernel and Libipvs

A service is a name: its address, protocol and port, or its mark. `V4` says
whose address is IPv4, `WithPe` who has a persistence engine. Settings
(scheduler, flags, weight, method) are one option of a small set, and one
connection counter stands for all the statistics of an entry, read in full or
modulo `Word` as each parser does. A destination belongs to a service of its
own address family.

A socket option is one step of the kernel. A netlink call is several, and the
table may change between them: `NlCall` builds the message with the `family` of
the call before (`Message`), `NlResolve` opens a socket and resolves the family
anew, `NlCommand`, `NlQuestion` or `NlDump` is the arrival at the kernel, if the
message's family is still that of the module, `NlDumpEntry` one message of a
dump with its parse callback and the `realloc` for the next, and `NlReceive` or
`NlReceiveFails` the answer or its loss. `ipvs_init` sends an empty message
first and falls back to the socket options when that fails; a later `ipvs_init`
tries netlink again. The functions that read over a socket option are given the count
the code gives them: `ipvs_info.num_services` of the last count, `num_dests` of
the caller's entry. Entries beyond those the kernel filled are counted as
`garbage`. Writing behind an array leads to `pc = "undefined"`, from where
nothing follows.

`caller` is chosen once per behaviour: the functions a process uses, the
commands other programs give meanwhile, and the names that come up. `Unload`
and `Load` reload the module, which then has another family. `fresh` and
`strikes` are read by properties only.

`IpvsTable` is the abstract specification: a command is asked for, applied in
one step or not, and returns 0 after it was applied, or -1 in any case, and a
question changes nothing (`Serve`); other programs change the table
(`Administer`). The refinement mapping reads phase and command from `pc`, `call`
and `result`. `ImplementsIpvsTable` also says that only the steps of
`Surroundings` (`OtherProgram`, `Traffic`, `Unload` and `Load`) pass for those of
others.

## 3. Runs

| Run | Shows | Bounds, and why they are enough |
|---|---|---|
| `http_service` | `TypeOK`, `MutexDiscipline`, `OwnAddress`, `LeakIsFinal`, `ImplementsWeightService` | two connections, two workers, ten requests that between them take every branch; two destinations; another program that drains or removes one. Two handlers are enough to interleave any two critical sections; the theorems cover more. |
| `http_served` | `Served` under fairness | three connections on two workers, so that a handler also waits for a worker; a good request and one that leaks the mutex |
| `http_leak` | violates `AlwaysHandled` | two connections, two workers, exceptions swallowed by the library, the requests of `http_served` |
| `body_exact` | `TypeOK`, `ExactBody`, `CompleteIsHandled` | bodies up to 7 bytes in reads of up to 3, modulus 32, lengths negative, 0 (or no header), positive and too large: every way to hit zero, pass it, or stop short |
| `body_overshoot` | violates `AllReadIsHandled` | the same |
| `rate_exit` | `TypeOK`, `Initialised`, `ExitTells` | every shape of the two texts with literals of both families, names with two addresses, ports that are numbers, services, too large or nonsense |
| `rate_port` | violates `OnlyMeant` | a plain service and an address as server, with a port, in brackets with one, or without |
| `startup` | `TypeOK`, `OptionsRule`, `Precedence`, `WholeFile`, `Judged` | all command lines of up to four words of eleven: enough for two options with arguments, repeated, in either order; nine file systems, right and wrong |
| `startup_syslog` | violates `ErrorsToSyslogOnly` | the same, of which one file names syslog alone |
| `daemon` | `TypeOK`, `NamedServer`, `CleanExit`, `StoppedIsOut`, `StopEnds` | three runs of the script and three processes: start, an operation that races with it, and one that meets what it left; crashes and reused PIDs |
| `daemon_error` | violates `ErrorMeansDown` | two runs, two processes, no crash |
| `libipvs` | `TypeOK`, `TwoStrikes`, `ExactServices`, `ExactDests`, `ExactDaemons`, `InBounds`, `ImplementsIpvsTable` | both builds; five callers that between them use every function; two services, one of which only netlink can name, and three destinations, so that a dump may have two entries, lose one or gain one; two settings; counters of 0 or 3 with `Word` 2, so that a 32-bit parser is told from a 64-bit one; two loads of the module, so that a stale family exists |

The configurations `body_*`, `rate_*`, `startup*`, `daemon*` and `libipvs`
switch the deadlock check off: they model programs that end, or a caller that
may be done or whose array was overrun. `HttpServer` is
checked for deadlock, though with the other program always able to write the
table that check is weak; `Served` is what says that handlers go on.

Symmetry: connections are interchangeable in `http_service`, whose properties
are invariants, an action property and a refinement without fairness.

### What the violations show

* `http_leak`: `hostname.asString()` (`src/http_server.cpp:275`) throws for an
  array or object while `ipvs_mutex` is locked by hand. The mutex stays locked
  and, if the process survives, no request is handled any more. `LeakIsFinal`
  is the positive form: after a leak no request is ever answered 200.
* `body_overshoot`: `left_to_read - size` wraps when more arrives than was
  declared, and the handler waits for some 2^64 bytes.
* `rate_port`: for the server `[10.0.0.1]:8080`, and for any other text in
  brackets that is no IPv6 literal, the parser's pointer to the port is
  overwritten (`src/ipvs_interface.cpp:125`), and the destination on the virtual
  port is changed instead.
* `startup_syslog`: with `log_sinks: syslog` an error goes to stdout and not to
  syslog. `&&` for `&` in `log_error` keeps every error out of syslog
  (`src/logging.cpp:39`), and the sinks that are named are or-ed to stdout, which
  `main` has set before (`src/ipvshttpd.cpp:55-63` and 102). By the second,
  `none` disables nothing either, though `doc/ipvshttpd-example.conf:9` says
  "disables logging". `Precedence` says what holds of the sinks all the same.
* `daemon_error`: `start` looks for the PID file before the child has written
  it and reports an error for a daemon that goes on to serve.

Other places where code and comments part, visible in the models though no run
is spent on them: `use_ssl` is not turned off by a later line, as any other key
would be (`WholeFile` leaves the case open); an update of the weight also resets forwarding and thresholds; the script's "make sure it's dead"
takes the removed PID file for a dead process (`StoppedIsOut` states what does
hold); the PID file stays behind after an exception of `start` or an early
SIGTERM; a second start before the first child has written its PID leaves a
daemon that serves and that the script no longer sees; a bracketed address text
with another ':' inside loses its port as in `rate_port`; `libipvs.h` says "get all the ipvs
services" of a function that gets as many as were counted when the library was
opened (`ExactServices` names the condition); the 64-bit statistics of a
destination are read by the parser of the 32-bit ones; `ipvs_get_dests` may
write behind its array when the entry that sizes it came over the other
transport (`InBounds` names that one case).

### Fairness

* `HttpServer!FairSpec`: weak fairness of each handler's steps on a worker.
  The pool runs the tasks posted to it, the mutexes are taken by threads that
  wait for them, and libc, JsonCpp and the kernel return. Reads are not fair: a
  client may never send. Accepting is not fair either. Weak fairness is enough
  in the instance, because a mutex that is held without a leak is released by a
  thread that is itself fair and each connection has one request.
* `BodyReader`: weak fairness of the handler's callback for a read that can
  complete; the client owes nothing.
* `Daemon!FairSpec`: weak fairness of each daemon's main thread and of the
  script. Crashes, stuck workers, reused PIDs and new runs of the script are
  never owed. `StopEnds` is stated for runs that wait for starting daemons:
  otherwise a second daemon may write its PID while `stop` waits for the first,
  and the script then waits for the wrong one.

## 4. Proofs

All theorems hold for every value of the constants that satisfies the named
assumptions, which TLC evaluates in the runs.

| Theorem | States | From |
|---|---|---|
| `ServerTyped`, `ServerDiscipline`, `ServerOwnAddress`, `ServerLeakIsFinal` | `HttpServer`'s `TypeOK`, `MutexDiscipline`, `OwnAddress`, `LeakIsFinal` | `AddressAssumption`, `PortAssumption`, `ServerAssumption` |
| `ServerImplements` | `HttpServer` implements `WeightService` | the same and `SpellingAssumption` |
| `RateTyped`, `RateInitialised`, `RateExitTells` | `RateTest`'s `TypeOK`, `Initialised`, `ExitTells` | `AddressAssumption`, `SpellingAssumption`, `PortAssumption`, `RateAssumption` |
| `BodyReaderTyped`, `BodyIsExact` | `BodyReader`'s `TypeOK`, `ExactBody` | `SizeAssumption` |
| `StartTyped`, `StartOptions`, `StartPrecedence`, `StartWholeFile`, `StartJudged` | `Startup`'s `TypeOK`, `OptionsRule`, `Precedence`, `WholeFile`, `Judged` | `TextAssumption` |
| `RestsDefined`, `SplitLists`, `KvpCut` | `str_split` ends on every text; it lists what is between the delimiters; with a limit of two it cuts at the first one only | |
| `LineRead` | the file reader's judgement of a line, its key and its value are those of the rules | `TextAssumption` |
| `DaemonTyped`, `DaemonCleanExit`, `DaemonNamedServer`, `DaemonStoppedIsOut` | `Daemon`'s `TypeOK`, `CleanExit`, `NamedServer`, `StoppedIsOut` | `PidAssumption` |
| `Typed`, `ReloadCost`, `DumpBounds` | `Libipvs`'s `TypeOK`, `TwoStrikes`, `InBounds` | `KernelAssumption`, `LibraryAssumption` |
| `ServicesExact`, `DestsExact`, `DaemonsExact` | `Libipvs`'s `ExactServices`, `ExactDests`, `ExactDaemons` | the same |
| `Refinement` | `Libipvs` implements `IpvsTable` | the same |

`SpellingAssumption` says that no IPv6 spelling is also one of `inet_aton` or a
host name (it has a ':'); `NoEntry` in `ServerAssumption` is a mark for an
absent destination and no weight. The others are types of constants.

The arguments:

* `MutexDiscipline` is inductive with `TypeOK`. Every action either stays on
  its side of each lock (lemmas about `SameSide`) or is the lock or unlock.
* `OwnAddress` says nothing of the resolver's buffer, so the step that copies
  it could not be shown to keep it. `OwnInv` adds that while a handler is
  between lookup and copy the buffer holds an answer for its own text; mutual
  exclusion says no other handler writes the buffer then.
* `LeakIsFinal` is an action property: by `MutexDiscipline` a step to a reply
  of 200 is a step of the mutex's owner, and the owner has left.
* `ExactBody` needs `LeftIsDue`: what is left and what was read add up to the
  declared length, modulo the wrap that can only have happened once.
* `NamedServer` needs five facts about `patient` behaviours (`FileInv`): a
  daemon between its write and its removal is named in the file; one about to
  write has no rival; an open file is the one under the name; a run of the
  script that has begun finds no daemon about to write; and when it is about to
  fork there is no daemon at all, because `check_proc` would have found it. The
  sixth, `Told`, gives `StoppedIsOut`.
* `CleanExit` needs that a daemon that has removed the file stays out of it,
  whoever writes next.

* `ServerImplements` adds `Track` to the invariants above: how far a handler
  has come shows in its locals (`success`, `reply`), and what it has parsed is a
  parse of its own texts under an answer of the resolver, so that the target it
  asks for is one its request names. With it every step is of one of three
  kinds, a lemma each: it changes nothing clients see, it moves one client's
  status, or it is the kernel's update; and `OtherProgram` is the only one left
  for `Administer`. `MutexDiscipline` is not needed for the
  update to be atomic, only, through `OwnInv`, for its address.
* `ExitTells` is a statement about the end of a run. `RunInv` says what leads
  there: before each call, what `main` has parsed so far is what the texts mean
  (`ParseInv`), and the table has changed exactly if `set` (`EffectInv`).
  `ParseMeaning` relates the parser to the independent reading of the texts:
  addresses for all texts, ports for those without brackets; for the ports of
  the others `rate_port` shows they differ.
* `OptionsRule` is about the last occurrence on the command line, the loop about
  the words so far: the invariant says that each local holds the argument of the
  last option among the words already read, and one lemma per option moves that
  past the option, and past its argument, which `HasArgument` shows to be none.
* `TwoStrikes`: after one failure the global family is that of the loaded
  module, unless it was reloaded since; after two, the message in progress
  carries it as well, and arrives (`StrikeInv`). The empty message of
  `ipvs_init` is excepted, because it is never sent.
* `InBounds`: the array of a dump has room for one more entry at every callback
  (`Sized`), which the callbacks restore, if it had when the dump began; that
  depends on `num_dests` of the caller's entry, 0 if netlink gave it.
* `ExactServices`, `ExactDests` and `ExactDaemons` speak of the array that is
  returned; `EInv` says what leads there. `FlightInv`: a message is under way
  over netlink only, its function asks what it says, and its array counts the
  entries that were received. `DumpInv`: as long as the table keeps still during
  the call, those are the first entries of what the kernel goes through, so that
  at the end of the dump they are all of it. `FreshInv`: as long as nothing has
  come or gone since they were counted, `num_services` and the `num_dests` of the
  caller's entry are what the socket options will find, so that the array has the
  right size and no garbage.
* `Refinement`: every call, failure and arrival maps to a step of `IpvsTable`'s
  `Serve` or to a stutter, from the shape of the message in progress (`CallInv`),
  and `Surroundings` to one of `Administer`.

* Texts are proved about by induction on what is left of them. The induction
  theorems of the library take an operator as parameter, which no backend
  instantiates; instead a statement about all rests is proved by its shortest
  counterexample, which `LeastExists` gives from the well-foundedness of the
  naturals. So `RestsDefined` (the recursive function of `str_split` is what its
  equation says), `SplitLists`, and from it `SinksAsked`: `parse_log_sinks`
  sets the bits of the words between the commas, and stops exactly when one of
  them is no sink.
* `Precedence`, `WholeFile` and `Judged` are about the whole command line and the
  whole file, main about a word or a line at a time. `WholeInv` says that up to
  where main has come the two agree. `WordInv`: the words that were passed are
  good, the last one takes no argument, and levels and sinks among them have a
  meaning. `ReadInv`: the lines that were read are good, and each setting is that
  of the last of them with its key, or the default; `use_ssl` is on if one of them
  said so (`SslInv`), which `LastLine` turns into what `WholeFile` says. `LogInv`: level and sinks are
  what options and file ask for, as far as they have been taken. `Judged` is not
  inductive without them: that main starts on nothing wrong needs that all it
  has accepted so far is good, and that it gave up on something wrong is a
  property of the step in which it did.

Only model-checked: liveness (`CompleteIsHandled`, `Served`, `StopEnds`), which
the prover does not reach. Every invariant and safety property of the passing
runs is a theorem.

## 5. Not modelled

* The error texts of libipvs and the pointer `ipvs_func` they depend on; without
  netlink `ipvs_add_dest` does not set it, so its error is explained as that of
  the call before. `ipvs_cmp_services` and `ipvs_cmp_dests`, which nothing
  calls and which return an unsigned difference as an `int`.
* Of libipvs, memory that runs out; destinations of another address family
  than their service's; the interface and synchronisation id of a daemon, which
  are settings like any other. `ip_vs_nl_policy.c` only says which attributes
  are well formed.
* `addr_to_host` and `addr_to_anyname`: nothing calls them.
* HTTP itself, TLS and JSON parsing: libraries, of which only the outcomes
  appear. GET and other methods reach the same handler.
* The text of log messages; `log_debug`, which is `log_message` one level up;
  `str_from_number`, which only serves messages.
* `health_check.h` (an empty class), build and packaging files.

## 6. Plan

Done, in this order of importance: `IpvsInterface`, `HttpServer` with
`WeightService`, `BodyReader`, `RateTest`, `Daemon`, `Startup`, `Libipvs` with
`IpvsTable`; and of the proofs all safety.

Considered and left: a composition of `BodyReader` with `HttpServer`. The two
meet in one place, whether a request is complete, which `HttpServer` leaves
open; a product would multiply states and say nothing that either does not.

Left for later: the error texts of libipvs, if a program comes to show them for
more than `ipvs_init` and `ipvs_update_dest`.
