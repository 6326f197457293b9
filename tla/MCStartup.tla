------------------------------ MODULE MCStartup -------------------------------
(***************************************************************************)
(* A small instance of Startup: every command line of up to four words of  *)
(* a vocabulary with every option; good, bad and missing arguments.  The   *)
(* file of -c sets keys twice; the default file is absent, unreadable, or  *)
(* one of those that are right or wrong in every way a file can be.        *)
(***************************************************************************)
EXTENDS Startup

Words ==
  {Option(letter) : letter \in {"f", "l", "L", "c", "p"}}
    \cup {Empty, <<"DEBUG">>, <<"none">>, <<"stdout", ",", "syslog">>,
          <<"syslog", ",", "tty">>, <<"a.conf">>}

MCCommandLines == UNION {[1 .. n -> Words] : n \in 0 .. 4}

Pair(key, value) == key \o <<":", " ">> \o value

AFile ==
  <<<<" ">>, <<"#", "port", ":", "80">>, Pair(<<"port">>, <<"8443">>),
    Pair(<<" ", "use_ssl">>, <<"Yes", " ">>), Pair(<<"log_sinks">>, <<"none">>),
    Pair(<<"use_ssl">>, <<"no">>), Pair(<<"PORT">>, <<"https">>),
    Pair(<<"vip">>, <<"web", ":", "80">>), Pair(<<"log_verbosity">>, <<"info">>)>>

\* The last three are wrong: no ':', a blank before it, an unknown key.
OtherFiles ==
  {<<Pair(<<"log_verbosity">>, <<"DEBUG">>)>>,
   <<Pair(<<"log_sinks">>, <<"syslog">>)>>,
   <<Pair(<<"log_sinks">>, <<"STDOUT", ",", "syslog">>), Pair(<<"threads">>, <<"8443">>)>>,
   <<Pair(<<"log_sinks">>, <<"syslog", ",">>)>>,
   <<Pair(<<"vip">>, <<"web">>), <<"threads">>>>,
   <<Pair(<<"port", " ">>, <<"8443">>)>>,
   <<Pair(<<"server">>, <<"web">>)>>}

Default == <<"default.conf">>

MCFileSystems ==
  {[path \in {<<"a.conf">>} |-> AFile]}
    \cup {[path \in {<<"a.conf">>, Default} |-> IF path = Default THEN file ELSE AFile] :
            file \in OtherFiles \cup {Unreadable}}

MCLowerCase ==
  [w \in {"DEBUG", "Yes", "STDOUT", "PORT"} |->
     CASE w = "DEBUG" -> "debug" [] w = "Yes" -> "yes" [] w = "STDOUT" -> "stdout"
       [] OTHER -> "port"]

MCAtoi == [text \in {<<"8443">>} |-> 8443]
=============================================================================
