---------------------------- MODULE MCAlgorithms ----------------------------
(***************************************************************************)
(* The sequential algorithms: the loops of SockIO, the conversions, and    *)
(* the way from the configuration file to the servers.  A behaviour runs   *)
(* one of them; the others stay as they are.                               *)
(***************************************************************************)
EXTENDS SockIO, Conversions, Config

CONSTANT Families    \* which of "io", "conversion" and "configuration" run

MCWeight == [k \in 0..Digits |-> Base ^ k]

Strings(chars, n) == UNION {[1..k -> chars] : k \in 0..n}

\* all sizes of three digits; texts of line ends and one other character
SizeJobs == {[kind |-> "size", size |-> n] : n \in -(Word \div 2)..(Word \div 2 - 1)}
EolJobs == {[kind |-> k, text |-> t] : k \in {"lf", "crlf"}, t \in Strings({LF, CR, 97}, 5)}

\* paths of slash, letter, percent sign, line feed and a byte above 127; the
\* longest are beyond MaxName, and beyond MaxUrl, as URLs
Paths == Strings({47, 97, 37, LF, 200}, 2) \ {<<>>}
LongPaths == {<<47, 200, 200>>, <<200, 200, 200>>}
PathJobs ==
  {[kind |-> "paths", paths |-> <<p, q>>] : p, q \in Paths}
  \cup {[kind |-> "paths", paths |-> <<p, <<47, 97>>, q>>] : p, q \in LongPaths \cup {<<97>>}}

\* what others put on the clipboard: escapes that are broken, or in lower
\* case, a zero, no path, and no URL of a file
ForeignPaths ==
  {<<37>>, <<37, 52>>, <<37, 52, 49>>, <<37, 99, 56, 97>>, <<37, 37, 52>>, <<37, 48, 48>>,
   <<37, 103, 49>>, <<97>>, <<97, 37>>}
ForeignUrls == {FilePrefix \o p : p \in ForeignPaths} \cup {<<102, 105, 97>>}
UrlJobs == {[kind |-> "urls", urls |-> <<u>>] : u \in ForeignUrls}
           \cup {[kind |-> "urls", urls |-> <<u, v>>] : u, v \in ForeignUrls}

MCJobs == SizeJobs \cup EolJobs \cup PathJobs \cup UrlJobs

-----------------------------------------------------------------------------
Number(n, neg, suffix, tail) ==
  [word |-> "number", n |-> n, neg |-> neg, suffix |-> suffix, tail |-> tail]
Word1(w) == [word |-> w]
Plain(n) == Number(n, FALSE, "", FALSE)
OptionLine(key, value) == [key |-> key, value |-> value, utf8 |-> TRUE]

\* a number around each power of two, with each suffix
Edges == UNION {{2 ^ k - 1, 2 ^ k, 2 ^ k + 1} : k \in 0..9} \cup 0..Size32
NumberFiles ==
  {<<OptionLine(key, Number(n, neg, suffix, FALSE))>> :
     key \in NumericKeys, n \in Edges, neg \in BOOLEAN,
     suffix \in {"", "k", "m", "g", "t", "bad"}}
  \cup {<<OptionLine(key, Number(n, FALSE, "k", TRUE))>> : key \in NumericKeys, n \in {1, 300}}

VersionFiles ==
  {<<OptionLine(k, Plain(a)), OptionLine(l, Plain(b))>> :
     k, l \in Uint16Keys, a, b \in 0..MaxUint16}
  \cup {<<OptionLine(k, Plain(MaxUint16)), OptionLine("secure_mode_enabled", Word1("true"))>> :
          k \in Uint16Keys}

KeyLines == <<OptionLine("server_cert", Word1("file")), OptionLine("ca_cert", Word1("file"))>>
ClientsLine(rows) == OptionLine("allowed_clients", [word |-> "clients", rows |-> rows])
Clients == {<<"name", "comment", "name">>, <<"spaces", "comment">>, <<>>}
Oddities ==
  {OptionLine("server_cert", Word1("missing")), OptionLine("allowed_clients", Word1("missing")),
   OptionLine("#", Word1("empty")), OptionLine("unknown", Word1("empty")),
   OptionLine("unknown", Word1("other")), OptionLine("empty", Word1("other")),
   OptionLine("no_equals_sign", Word1("empty")), OptionLine("restart", Word1("false")),
   [key |-> "#", value |-> Word1("other"), utf8 |-> FALSE],
   ClientsLine(<<"name", "invalid">>)}
ModeLines ==
  {OptionLine(key, v) : key \in BoolKeys \ {"restart"}, v \in {Word1("true"), Plain(0)}}
  \cup {OptionLine("secure_mode_enabled", Word1("other"))}
ModeFiles ==
  {prefix \o modes :
     prefix \in {<<>>, KeyLines} \cup {KeyLines \o <<ClientsLine(c)>> : c \in Clients}
                \cup {<<ClientsLine(<<"name">>), l>> : l \in Oddities},
     modes \in Strings(ModeLines, 2)}
BlankFiles ==
  {<<ClientsLine(r)>> : r \in {<<"name", "blank", "name">>, <<"blank">>, <<"comment", "blank">>}}

MCConfigFiles == NumberFiles \cup VersionFiles \cup ModeFiles \cup BlankFiles
MCArgLists == {<<>>, <<"R">>, <<"r", "s">>, <<"s", "h">>}

-----------------------------------------------------------------------------
IoIdle ==
  /\ dir = "read" /\ moved = <<>> /\ wire = <<>>
  /\ cnt = 0 /\ silent = 0 /\ alive = FALSE /\ far = 0 /\ status = "failure"
ConvIdle ==
  /\ job = [kind |-> "none"] /\ mem = <<>> /\ from = 1 /\ to = 1 /\ start = 1
  /\ off = 0 /\ count = 0 /\ out = <<>> /\ job_pc = "done"
ConfigIdle ==
  /\ file = <<>> /\ args = <<>> /\ ssl = FALSE /\ at = 1 /\ cfg = <<>>
  /\ names = 0 /\ client = "unset" /\ row = 0 /\ turn = FALSE /\ stop = FALSE /\ killed = FALSE
  /\ servers = <<>> /\ conf_pc = "idle"

AllInit ==
  \/ "io" \in Families /\ Init /\ ConvIdle /\ ConfigIdle
  \/ "conversion" \in Families /\ IoIdle /\ ConvInit /\ ConfigIdle
  \/ "configuration" \in Families /\ IoIdle /\ ConvIdle /\ ConfigInit

IoNext == Next /\ UNCHANGED <<convVars, configVars>>
ConversionNext == ConvNext /\ UNCHANGED <<vars, configVars>>
ConfigurationNext == ConfigNext /\ UNCHANGED <<vars, convVars>>

AllNext == IoNext \/ ConversionNext \/ ConfigurationNext

allVars == <<vars, convVars, configVars>>

AllSpec ==
  /\ AllInit /\ [][AllNext]_allVars
  /\ WF_vars(Loop) /\ ConfigFairness
=============================================================================
