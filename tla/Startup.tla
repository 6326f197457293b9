-------------------------------- MODULE Startup --------------------------------
(***************************************************************************)
(* main of src/src/ipvshttpd.cpp from the defaults to log_start, with the  *)
(* configuration file reader and the logging globals it fills in: one      *)
(* action per command line option, per line of the file and per setting    *)
(* taken from it.  A text is the sequence of its words, blanks and         *)
(* punctuation marks, as much as the code ever tells apart.                *)
(***************************************************************************)
EXTENDS Integers, Sequences, FiniteSetsExt

CONSTANTS
  CommandLines,  \* the values of argv[1..]
  FileSystems,   \* the values of files
  Unreadable,    \* stands for the lines of a file that cannot be opened
  LowerCase,     \* word -> the same in lower case, for words that are not
  Atoi,          \* text -> what atoi makes of it, for texts that are numbers
  DefaultFile    \* "/etc/sysconfig/ipvshttpd.conf"

ASSUME TextAssumption ==
  /\ CommandLines \subseteq Seq(Seq(STRING))
  /\ \A f \in FileSystems : \A path \in DOMAIN f :
       f[path] = Unreadable \/ f[path] \in Seq(Seq(STRING))
  /\ <<>> \notin DOMAIN Atoi /\ DefaultFile # <<>> /\ DefaultFile \in Seq(STRING)

VARIABLES
  files,             \* path -> lines of text, for every configuration file there is
  argv,
  pc,                \* the loop or call main is in
  argn,
  logging_level,
  active_log_sinks,  \* the bits that are set
  options,           \* the locals of main
  line_nr,           \* lines of the file already read
  config,            \* the settings of configuration_manager, keyed as in the file
  exit_status        \* -1 while the process runs

vars == <<files, argv, pc, argn, logging_level, active_log_sinks, options, line_nr, config,
          exit_status>>

logging == <<logging_level, active_log_sinks>>

-----------------------------------------------------------------------------
(* string_tools.cpp                                                        *)

Empty == <<>>

str_ltrim(text) ==
  LET kept == {i \in DOMAIN text : text[i] # " "}
  IN  IF kept = {} THEN Empty ELSE SubSeq(text, Min(kept), Len(text))

str_rtrim(text) == SubSeq(text, 1, Max({0} \cup {i \in DOMAIN text : text[i] # " "}))

str_trim(text) == str_ltrim(str_rtrim(text))

str_to_lower(text) ==
  [i \in DOMAIN text |-> IF text[i] \in DOMAIN LowerCase THEN LowerCase[text[i]] ELSE text[i]]

str_starts_with(needle, text) == text # Empty /\ Head(text) = needle

\* Mutation: the limit counts cuts, not pieces.
More_late(tokens, max_elem) == max_elem < 0 \/ tokens # max_elem + 1

\* The limit on the loop.
More(tokens, max_elem) == max_elem < 0 \/ tokens # max_elem

Cuts(text, delim, start) == {i \in start .. Len(text) : text[i] = delim}

\* Every caller's delimiter is one character.  The loop cuts what is left from
\* start on at its first delimiter.
str_split(text, delim, max_elem) ==
  LET pieces[start \in Nat] ==
        [tokens \in Nat |->
           LET cuts == Cuts(text, delim, start)
           IN  IF cuts # {} /\ More(tokens, max_elem)
               THEN <<SubSeq(text, start, Min(cuts) - 1)>> \o pieces[Min(cuts) + 1][tokens + 1]
               ELSE IF max_elem # 0 THEN <<SubSeq(text, start, Len(text))>> ELSE <<>>]
  IN  pieces[1][1]

atoi(text) == IF text \in DOMAIN Atoi THEN Atoi[text] ELSE 0

-----------------------------------------------------------------------------
(* logging.cpp                                                             *)

LOG_LEVEL_NONE  == 0
LOG_LEVEL_ERROR == 1
LOG_LEVEL_INFO  == 2
LOG_LEVEL_DEBUG == 3

LOG_SINK_SYSLOG == 2

LevelNames == [none |-> LOG_LEVEL_NONE, error |-> LOG_LEVEL_ERROR,
               info |-> LOG_LEVEL_INFO, debug |-> LOG_LEVEL_DEBUG]

Level == [text \in {<<name>> : name \in DOMAIN LevelNames} |-> LevelNames[text[1]]]

\* Where log_error writes.  Its test for syslog is a logical "and" of the two
\* numbers, 0 or 1, compared with the bit.
log_error(level, sinks) ==
  LET both == IF sinks # {} THEN 1 ELSE 0
  IN  IF level < LOG_LEVEL_ERROR THEN {}
      ELSE {s \in {"stdout", "syslog"} :
              \/ s = "stdout" /\ s \in sinks
              \/ s = "syslog" /\ both = LOG_SINK_SYSLOG}

log_message(level, sinks) == IF level < LOG_LEVEL_INFO THEN {} ELSE sinks

-----------------------------------------------------------------------------
(* main: leaving it, and its command line.                                 *)

\* main logs an error and returns 1.
Fail == pc' = "exited" /\ exit_status' = 1

GoOn(to) == pc' = to /\ UNCHANGED exit_status

\* parse_log_level: the level a text names.
parse_log_level(text) ==
  /\ text \in DOMAIN Level
  /\ logging_level' = Level[text]

Sinks == {<<"none">>, <<"stdout">>, <<"syslog">>}

\* The loop over parse_log_sink: LOG_SINK_NONE has no bit, and bits that are
\* set stay set; a text that names no sink stops it after the ones before.
Named(list) == {i \in 1 .. Len(list) : \A j \in 1 .. i : str_to_lower(list[j]) \in Sinks}

SinksNamed(list) ==
  {name \in {"none", "stdout", "syslog"} : \E i \in Named(list) : str_to_lower(list[i]) = <<name>>}

\* Mutation: none is a sink like the others.
parse_log_sinks_none(list) ==
  active_log_sinks' = active_log_sinks \cup SinksNamed(list)

parse_log_sinks(list) ==
  active_log_sinks' = active_log_sinks \cup (SinksNamed(list) \ {"none"})

AllNamed(list) == Named(list) = 1 .. Len(list)

Option(letter) == <<"-", letter>>

WithArgument == {Option(letter) : letter \in {"l", "L", "c", "p"}}

curr_opt == argv[argn]

next_opt == IF argn < Len(argv) THEN argv[argn + 1] ELSE Empty

\* Mutation: another option passes for an argument.
HasArgument_any == next_opt # Empty

HasArgument == next_opt # Empty /\ ~ str_starts_with("-", next_opt)

\* The loop goes on behind the option and its argument, when it takes one.
Past(n) == argn' = argn + n /\ GoOn("args")

InArgs == pc = "args" /\ argn <= Len(argv)

OptionForeground ==
  /\ InArgs /\ curr_opt = Option("f")
  /\ options' = [options EXCEPT !.daemonize = FALSE]
  /\ Past(1)
  /\ UNCHANGED <<files, argv, logging, line_nr, config>>

OptionLevel ==
  /\ InArgs /\ curr_opt = Option("l") /\ HasArgument
  /\ parse_log_level(str_to_lower(next_opt))
  /\ options' = [options EXCEPT !.log_level_set = TRUE]
  /\ Past(2)
  /\ UNCHANGED <<files, argv, active_log_sinks, line_nr, config>>

OptionSinks ==
  /\ InArgs /\ curr_opt = Option("L") /\ HasArgument
  /\ AllNamed(str_split(next_opt, ",", -1))
  /\ parse_log_sinks(str_split(next_opt, ",", -1))
  /\ options' = [options EXCEPT !.log_sinks_set = TRUE]
  /\ Past(2)
  /\ UNCHANGED <<files, argv, logging_level, line_nr, config>>

OptionConfig ==
  /\ InArgs /\ curr_opt = Option("c") /\ HasArgument
  /\ options' = [options EXCEPT !.config_file = next_opt, !.config_set = TRUE]
  /\ Past(2)
  /\ UNCHANGED <<files, argv, logging, line_nr, config>>

OptionPidFile ==
  /\ InArgs /\ curr_opt = Option("p") /\ HasArgument
  /\ options' = [options EXCEPT !.pid_file = next_opt]
  /\ Past(2)
  /\ UNCHANGED <<files, argv, logging, line_nr, config>>

\* An unknown option, a missing argument, or a level or a sink of no meaning.
OptionFails ==
  /\ InArgs
  /\ \/ /\ \/ curr_opt \notin {Option("f")} \cup WithArgument
           \/ curr_opt \in WithArgument /\ ~ HasArgument
           \/ curr_opt = Option("l") /\ HasArgument /\ str_to_lower(next_opt) \notin DOMAIN Level
        /\ UNCHANGED active_log_sinks
     \/ /\ curr_opt = Option("L") /\ HasArgument /\ ~ AllNamed(str_split(next_opt, ",", -1))
        /\ parse_log_sinks(str_split(next_opt, ",", -1))
  /\ Fail
  /\ UNCHANGED <<files, argv, argn, logging_level, options, line_nr, config>>

-----------------------------------------------------------------------------
(* configuration_manager::open, and what main takes from it.               *)

Keys == {"port", "listen_address", "log_verbosity", "log_sinks", "threads", "api_key",
         "vip", "use_ssl", "ssl_key_file", "ssl_cert_chain_file", "ssl_dh_file"}

file_exists(path) == path \in DOMAIN files

CanOpen(path) == file_exists(path) /\ files[path] # Unreadable

ArgsEnd ==
  /\ pc = "args" /\ argn > Len(argv)
  /\ \/ CanOpen(options.config_file) /\ GoOn("file")
     \/ /\ options.config_set \/ file_exists(options.config_file)
        /\ ~ CanOpen(options.config_file)
        /\ Fail
     \/ ~ options.config_set /\ ~ file_exists(options.config_file) /\ GoOn("log_start")
  /\ UNCHANGED <<files, argv, argn, logging, options, line_nr, config>>

Lines == files[options.config_file]

CurrentLine == str_trim(Lines[line_nr + 1])

Skipped(line) == line = Empty \/ str_starts_with("#", line)

\* The key in lower case but not trimmed, and the trimmed value.
kvp(line) == str_split(line, ":", 2)

KeyOf(line) == str_to_lower(kvp(line)[1])

\* Mutation: the blank behind the ':' stays in the value.
ValueOf_untrimmed(line) == kvp(line)[2]

ValueOf(line) == str_trim(kvp(line)[2])

Valid(line) ==
  \/ Skipped(line)
  \/ Len(kvp(line)) = 2 /\ KeyOf(line) \in {<<key>> : key \in Keys}

\* What a key's value becomes: numbers through atoi, and use_ssl only ever
\* turns on.
Setting(old, key, value) ==
  CASE key \in {"port", "threads"} -> atoi(value)
    [] key = "use_ssl" -> old \/ str_to_lower(value) \in {<<"yes">>, <<"true">>}
    [] OTHER -> value

ReadLine ==
  /\ pc = "file" /\ line_nr < Len(Lines)
  /\ Valid(CurrentLine)
  /\ line_nr' = line_nr + 1
  /\ config' = IF Skipped(CurrentLine) THEN config
               ELSE LET key == KeyOf(CurrentLine)[1]
                    IN  [config EXCEPT ![key] = Setting(@, key, ValueOf(CurrentLine))]
  /\ UNCHANGED <<files, argv, pc, argn, logging, options, exit_status>>

\* The settings read so far stay, but main gives up.
ReadLineFails ==
  /\ pc = "file" /\ line_nr < Len(Lines)
  /\ ~ Valid(CurrentLine)
  /\ Fail
  /\ UNCHANGED <<files, argv, argn, logging, options, line_nr, config>>

FileEnd ==
  /\ pc = "file" /\ line_nr = Len(Lines)
  /\ GoOn("level")
  /\ UNCHANGED <<files, argv, argn, logging, options, line_nr, config>>

\* Mutation: the file overrides the option.
ApplyLevel_always ==
  /\ pc = "level"
  /\ IF config["log_verbosity"] = Empty
     THEN UNCHANGED logging_level /\ GoOn("sinks")
     ELSE \/ parse_log_level(config["log_verbosity"]) /\ GoOn("sinks")
          \/ /\ config["log_verbosity"] \notin DOMAIN Level
             /\ UNCHANGED logging_level /\ Fail
  /\ UNCHANGED <<files, argv, argn, active_log_sinks, options, line_nr, config>>

\* The file's level counts when no option gave one; it is not lower-cased.
ApplyLevel ==
  /\ pc = "level"
  /\ IF options.log_level_set \/ config["log_verbosity"] = Empty
     THEN UNCHANGED logging_level /\ GoOn("sinks")
     ELSE \/ parse_log_level(config["log_verbosity"]) /\ GoOn("sinks")
          \/ /\ config["log_verbosity"] \notin DOMAIN Level
             /\ UNCHANGED logging_level /\ Fail
  /\ UNCHANGED <<files, argv, argn, active_log_sinks, options, line_nr, config>>

\* Mutation: the file's sinks are added to those of the option.
ApplySinks_always ==
  /\ pc = "sinks"
  /\ IF config["log_sinks"] = Empty
     THEN UNCHANGED active_log_sinks /\ GoOn("log_start")
     ELSE /\ parse_log_sinks(str_split(config["log_sinks"], ",", -1))
          /\ IF AllNamed(str_split(config["log_sinks"], ",", -1)) THEN GoOn("log_start") ELSE Fail
  /\ UNCHANGED <<files, argv, argn, logging_level, options, line_nr, config>>

\* The file's sinks count when no option gave any.
ApplySinks ==
  /\ pc = "sinks"
  /\ IF options.log_sinks_set \/ config["log_sinks"] = Empty
     THEN UNCHANGED active_log_sinks /\ GoOn("log_start")
     ELSE /\ parse_log_sinks(str_split(config["log_sinks"], ",", -1))
          /\ IF AllNamed(str_split(config["log_sinks"], ",", -1)) THEN GoOn("log_start") ELSE Fail
  /\ UNCHANGED <<files, argv, argn, logging_level, options, line_nr, config>>

\* log_start, and on with the server.
LogStart ==
  /\ pc = "log_start"
  /\ GoOn("running")
  /\ UNCHANGED <<files, argv, argn, logging, options, line_nr, config>>

AnyAddress == <<"0.0.0.0">>

Defaults ==
  [k \in Keys |-> CASE k = "port" -> 8080 [] k = "listen_address" -> AnyAddress
                    [] k = "threads" -> 2 [] k = "use_ssl" -> FALSE [] OTHER -> Empty]

Init ==
  /\ files \in FileSystems
  /\ argv \in CommandLines
  /\ pc = "args"
  /\ argn = 1
  /\ logging_level = LOG_LEVEL_ERROR
  /\ active_log_sinks = {"stdout"}
  /\ options = [config_file |-> DefaultFile, pid_file |-> Empty, config_set |-> FALSE,
                log_level_set |-> FALSE, log_sinks_set |-> FALSE, daemonize |-> TRUE]
  /\ line_nr = 0
  /\ config = Defaults
  /\ exit_status = -1

Next ==
  \/ OptionForeground \/ OptionLevel \/ OptionSinks \/ OptionConfig \/ OptionPidFile
  \/ OptionFails \/ ArgsEnd
  \/ ReadLine \/ ReadLineFails \/ FileEnd
  \/ ApplyLevel \/ ApplySinks \/ LogStart

Spec == Init /\ [][Next]_vars
-----------------------------------------------------------------------------
(* What a command line and a file ask for, read without the loops: the     *)
(* last -l, -c and -p count, every -L counts, and so does the last line of *)
(* each key; a key ends at its line's first ':', and a list of sinks names *)
(* what is between its commas.                                             *)

Running == pc = "running"

At(option) == {i \in 1 .. Len(argv) : argv[i] = option}

LastOf(places) == CHOOSE i \in places : \A j \in places : j <= i

Argument(option, default) ==
  IF At(option) = {} THEN default ELSE argv[LastOf(At(option)) + 1]

Ends(text) == {0, Len(text) + 1} \cup {i \in DOMAIN text : text[i] = ","}

Pieces(text) ==
  {e \in Ends(text) \X Ends(text) : e[1] < e[2] /\ \A k \in Ends(text) : k <= e[1] \/ e[2] <= k}

Asked(text) == {str_to_lower(SubSeq(text, e[1] + 1, e[2] - 1)) : e \in Pieces(text)}

FileWanted == Argument(Option("c"), DefaultFile)

Given == IF CanOpen(FileWanted) THEN files[FileWanted] ELSE <<>>

Line(i) == str_trim(Given[i])

Colons(text) == {n \in DOMAIN text : text[n] = ":"}

Sets(i, key) ==
  /\ ~ Skipped(Line(i)) /\ Colons(Line(i)) # {}
  /\ str_to_lower(SubSeq(Line(i), 1, Min(Colons(Line(i))) - 1)) = <<key>>

LinesOf(key) == {i \in 1 .. Len(Given) : Sets(i, key)}

ValueAt(i) == str_trim(SubSeq(Line(i), Min(Colons(Line(i))) + 1, Len(Line(i))))

FileValue(key) == IF LinesOf(key) = {} THEN Empty ELSE ValueAt(LastOf(LinesOf(key)))

SaysYes(value) == str_to_lower(value) \in {<<"yes">>, <<"true">>}

LevelWanted ==
  IF At(Option("l")) # {} THEN Level[str_to_lower(Argument(Option("l"), Empty))]
  ELSE IF FileValue("log_verbosity") # Empty THEN Level[FileValue("log_verbosity")]
  ELSE LOG_LEVEL_ERROR

SinksWanted ==
  IF At(Option("L")) # {} THEN UNION {Asked(argv[i + 1]) : i \in At(Option("L"))}
  ELSE IF FileValue("log_sinks") # Empty THEN Asked(FileValue("log_sinks")) ELSE {}

\* Every word is -f, an option with its argument behind it, or that argument.
GoodCommand ==
  /\ \A i \in 1 .. Len(argv) :
       \/ argv[i] = Option("f")
       \/ argv[i] \in WithArgument /\ i < Len(argv) /\ argv[i + 1] # Empty
          /\ ~ str_starts_with("-", argv[i + 1])
       \/ ~ str_starts_with("-", argv[i]) /\ i > 1 /\ argv[i - 1] \in WithArgument
  /\ \A i \in At(Option("l")) : str_to_lower(argv[i + 1]) \in DOMAIN Level
  /\ \A i \in At(Option("L")) : Asked(argv[i + 1]) \subseteq Sinks

GoodFile ==
  /\ CanOpen(FileWanted) \/ (At(Option("c")) = {} /\ ~ file_exists(FileWanted))
  /\ \A i \in 1 .. Len(Given) : Skipped(Line(i)) \/ \E key \in Keys : Sets(i, key)
  /\ At(Option("l")) = {} => FileValue("log_verbosity") \in DOMAIN Level \cup {Empty}
  /\ (At(Option("L")) = {} /\ FileValue("log_sinks") # Empty)
       => Asked(FileValue("log_sinks")) \subseteq Sinks

-----------------------------------------------------------------------------
(* Properties.                                                             *)

\* The type invariant.
TypeOK ==
  /\ pc \in {"args", "file", "level", "sinks", "log_start", "running", "exited"}
  /\ argn \in 1 .. Len(argv) + 1
  /\ logging_level \in LOG_LEVEL_NONE .. LOG_LEVEL_DEBUG
  /\ active_log_sinks \subseteq {"stdout", "syslog"}
  /\ line_nr \in Nat
  /\ exit_status \in {-1, 1}

\* Of the options that take one value the last one counts, whatever comes
\* between and behind it, and the file has no say in them.
OptionsRule ==
  Running =>
    /\ options.config_file = FileWanted
    /\ options.pid_file = Argument(Option("p"), Empty)
    /\ options.daemonize <=> At(Option("f")) = {}
    /\ At(Option("l")) # {} => logging_level = LevelWanted

\* An option beats the file and the file beats the default, for the level and
\* for the sinks: one that is named is on, and syslog is on only when named.
\* That the others are off is ErrorsToSyslogOnly, which the code does not keep.
Precedence ==
  Running =>
    /\ logging_level = LevelWanted
    /\ \A sink \in {"stdout", "syslog"} : <<sink>> \in SinksWanted => sink \in active_log_sinks
    /\ "syslog" \in active_log_sinks => <<"syslog">> \in SinksWanted

\* The server starts with the last value the file gives each key, whatever the
\* lines between, and with the default of a key it does not mention.  use_ssl is
\* on when its last line says so and off when no line does; after a yes that a
\* later line takes back it may be either.
WholeFile ==
  Running =>
    /\ \A k \in Keys \ {"use_ssl"} :
         config[k] = IF LinesOf(k) = {} THEN Defaults[k]
                     ELSE IF k \in {"port", "threads"} THEN atoi(FileValue(k)) ELSE FileValue(k)
    /\ SaysYes(FileValue("use_ssl")) => config["use_ssl"]
    /\ config["use_ssl"] => \E i \in LinesOf("use_ssl") : SaysYes(ValueAt(i))

\* main gives up exactly on what is wrong in the command line as a whole, in the
\* file it names or in what the file says of logging, and on nothing else.
Judged ==
  /\ Running => GoodCommand /\ GoodFile
  /\ exit_status = 1 => ~ (GoodCommand /\ GoodFile)

\* doc/ipvshttpd-example.conf:5-8, log_sinks "Determines where log messages go",
\* "syslog : logs to syslog": asked for syslog alone, errors go there alone.
ErrorsToSyslogOnly ==
  Running /\ SinksWanted = {<<"syslog">>} /\ logging_level >= LOG_LEVEL_ERROR
    => log_error(logging_level, active_log_sinks) = {"syslog"}
=============================================================================
