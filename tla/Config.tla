------------------------------- MODULE Config -------------------------------
(***************************************************************************)
(* From the configuration file to the servers that run: parse_conf() of    *)
(* utils/config.c, _apply_default_conf(), _parse_args(), main() and        *)
(* start_servers() of main.c, and the first checks of clip_share() and     *)
(* web_server().                                                           *)
(*                                                                         *)
(* A line is a key and a value.  Of keys that are treated alike some are   *)
(* taken: four of the Booleans, the versions for what set_uint16() sets,   *)
(* max_text_length for set_uint32().  A value is a number with a sign, a   *)
(* suffix and a tail, or a word.  Integers have a width: Size64, Size32 and *)
(* Size16 values of an int64_t, a uint32_t and a uint16_t; the factor 1000 *)
(* of a suffix is Kilo.                                                    *)
(***************************************************************************)
EXTENDS Integers, Sequences, FiniteSets

CONSTANTS ConfigFiles,  \* the files that are tried, as sequences of lines
          ArgLists,     \* the command lines, as sequences of letters
          ProtoMin, ProtoMax,
          Size64, Size32, Size16,   \* 2^64, 2^32, 2^16
          Kilo,         \* 1000
          MaxClients    \* bound on a list of clients that has no end

ASSUME ConfigAssumption ==
  /\ ProtoMin \in Nat \ {0} /\ ProtoMax \in Nat /\ ProtoMin <= ProtoMax
  /\ Size64 \in Nat \ {0} /\ Size64 % 8 = 0
  /\ Size32 \in Nat \ {0, 1} /\ Size16 \in Nat \ {0} /\ Kilo \in Nat \ {0, 1}
  /\ ProtoMax < Size16
  /\ MaxClients \in Nat
  /\ \A f \in ConfigFiles :
       /\ Len(f) \in Nat
       /\ \A i \in 1..Len(f) :
            /\ f[i].value.word = "number" => f[i].value.n \in Nat
            /\ f[i].value.word = "clients" => /\ Len(f[i].value.rows) \in Nat
                                             /\ DOMAIN f[i].value.rows = 1..Len(f[i].value.rows)

BoolKeys == {"insecure_mode_enabled", "secure_mode_enabled", "web_mode_enabled", "restart"}
Uint16Keys == {"min_proto_version", "max_proto_version"}
Uint32Keys == {"max_text_length"}
Int64Keys == {"max_file_size"}
CertKeys == {"server_cert", "ca_cert"}
NumericKeys == Uint16Keys \cup Uint32Keys \cup Int64Keys
Keys == BoolKeys \cup NumericKeys \cup CertKeys \cup {"allowed_clients"}

VARIABLES file,     \* the configuration file
          at,       \* the line that is next
          cfg,      \* configuration: key -> value; a list is its length
          names,    \* the list of clients that is read: its length
          client,   \* what the buffer for one of them holds
          row,      \* the line of its file that is next
          turn,     \* changes with each call of fscanf()
          ssl,      \* the build has TLS
          args,     \* options that are left
          stop,     \* the option -s was given
          killed,   \* other instances were signalled
          servers,  \* the servers that were forked -> "starting", "listening", "gone"
          conf_pc   \* where main() is

configVars == <<file, at, cfg, names, client, row, turn, ssl, args, stop, killed, servers, conf_pc>>

-----------------------------------------------------------------------------
(* Values.                                                                 *)

Error == -1     \* error_exit(): accepted numbers are not negative

Signed64(n) == LET u == n % Size64 IN IF u >= Size64 \div 2 THEN u - Size64 ELSE u
MaxInt64 == Size64 \div 2 - 1
Limit64 == Size64 \div 8 - 1               \* 2^61 - 1
MaxUint32 == Size32 - 1
MaxUint16 == Size16 - 1

\* strtoull(), which saturates, and negates what has a minus sign
Strtoull(v) ==
  IF v.n > Size64 - 1 THEN Size64 - 1
  ELSE IF v.neg THEN (Size64 - v.n) % Size64
  ELSE v.n

Factor(suffix) ==
  CASE suffix = "" -> 1 [] suffix = "k" -> Kilo [] suffix = "m" -> Kilo * Kilo
    [] suffix = "g" -> Kilo * Kilo * Kilo [] suffix = "t" -> Kilo * Kilo * Kilo * Kilo

Suffixed(v, allowed) == v.word = "number" /\ v.suffix \in allowed /\ ~v.tail

\* the limit for numbers with a suffix is that of the product
TooLarge64Bug(value, suffix) == suffix # "" /\ value > Limit64

\* ... that of the number, for each suffix
TooLarge64(value, suffix) == suffix # "" /\ value > Limit64 \div Factor(suffix)

\* set_int64().  A signed product that does not fit is undefined: it wraps
\* around, or the compiler has drawn its conclusions.
SetInt64(v) ==
  IF ~Suffixed(v, {"", "k", "m", "g", "t"}) THEN {Error}
  ELSE LET value == Signed64(Strtoull(v))
           product == value * Factor(v.suffix)
           wrapped == Signed64(product)
           result(n) == IF n <= 0 THEN Error ELSE n
       IN IF TooLarge64(value, v.suffix) THEN {Error}
          ELSE IF product = wrapped THEN {result(product)}
          ELSE {Error, result(wrapped)}

SetUint32(v) ==
  IF ~Suffixed(v, {"", "k", "m", "g"}) THEN {Error}
  ELSE LET value == Signed64(Strtoull(v))
           product == value * Factor(v.suffix)
       IN IF value \notin 0..(MaxUint32 - 1) \/ value > (MaxUint32 - 1) \div Factor(v.suffix)
             \/ product <= 0 \/ product >= MaxUint32
          THEN {Error} ELSE {product}

SetUint16(v) ==
  LET value == IF v.neg THEN -v.n ELSE v.n IN
  IF ~Suffixed(v, {""}) \/ value \notin 0..MaxUint16 THEN {Error} ELSE {value}

SetIsTrue(v) ==
  IF v.word = "true" \/ (Suffixed(v, {""}) /\ v.n = 1 /\ ~v.neg) THEN {1}
  ELSE IF v.word = "false" \/ (Suffixed(v, {""}) /\ v.n = 0 /\ ~v.neg) THEN {0}
  ELSE {Error}

\* load_file(): a file of 1 to 65536 bytes
LoadFile(v) == IF v.word = "file" THEN {1} ELSE {Error}

Outcomes(key, v) ==
  CASE key \in BoolKeys -> SetIsTrue(v)
    [] key \in Uint16Keys -> SetUint16(v)
    [] key \in Uint32Keys -> SetUint32(v)
    [] key \in Int64Keys -> SetInt64(v)
    [] key \in CertKeys -> LoadFile(v)

-----------------------------------------------------------------------------
(* parse_conf().                                                           *)

ConfigInit ==
  /\ file \in ConfigFiles
  /\ args \in ArgLists
  /\ ssl \in BOOLEAN
  /\ at = 1
  /\ cfg = [key \in Keys |-> IF key \in BoolKeys THEN -1 ELSE 0]
  /\ names = 0 /\ client = "unset" /\ row = 0 /\ turn = FALSE
  /\ stop = FALSE /\ killed = FALSE
  /\ servers = <<>>
  /\ conf_pc = "parse"

Line == file[at]
Parsing == conf_pc = "parse" /\ at <= Len(file)

\* no `=', a comment, or a key the program does not know; its value is not
\* looked at unless it is empty, and not even then in a comment
LineIgnored ==
  /\ Parsing
  /\ Line.utf8
  /\ \/ Line.key \in {"no_equals_sign", "#"}
     \/ Line.key = "unknown" /\ Line.value.word # "empty"
  /\ at' = at + 1
  /\ UNCHANGED <<file, cfg, names, client, row, turn, ssl, args, stop, killed, servers, conf_pc>>

\* a line that is not UTF-8, a key or a value that is empty
LineInvalid ==
  /\ Parsing
  /\ \/ ~Line.utf8
     \/ Line.key = "empty"
     \/ Line.key \in Keys \cup {"unknown"} /\ Line.value.word = "empty"
  /\ conf_pc' = "error"
  /\ UNCHANGED <<file, at, cfg, names, client, row, turn, ssl, args, stop, killed, servers>>

SetOption ==
  /\ Parsing
  /\ Line.utf8 /\ Line.value.word # "empty"
  /\ Line.key \in Keys \ {"allowed_clients"}
  /\ ssl \/ Line.key \notin CertKeys
  /\ \E r \in Outcomes(Line.key, Line.value) :
       IF r = Error
       THEN conf_pc' = "error" /\ UNCHANGED <<at, cfg>>
       ELSE cfg' = [cfg EXCEPT ![Line.key] = r] /\ at' = at + 1 /\ UNCHANGED conf_pc
  /\ UNCHANGED <<file, names, client, row, turn, ssl, args, stop, killed, servers>>

\* a build without TLS does not know these keys
LineWithoutTls ==
  /\ Parsing
  /\ ~ssl /\ Line.key \in CertKeys \cup {"allowed_clients"}
  /\ Line.utf8 /\ Line.value.word # "empty"
  /\ at' = at + 1
  /\ UNCHANGED <<file, cfg, names, client, row, turn, ssl, args, stop, killed, servers, conf_pc>>

-----------------------------------------------------------------------------
(* get_client_list().  The value holds the lines of the file: "name",      *)
(* "comment", "spaces", "invalid" or "blank", which is no character at     *)
(* all.                                                                    *)

OpenClients ==
  /\ Parsing
  /\ ssl /\ Line.key = "allowed_clients"
  /\ Line.utf8 /\ Line.value.word # "empty"
  /\ IF Line.value.word = "clients"
     THEN /\ conf_pc' = "clients" /\ names' = 0 /\ row' = 1
          /\ client' \in {"name", "comment", "spaces", "invalid"}  \* not initialised
     ELSE conf_pc' = "error" /\ UNCHANGED <<names, client, row>>
  /\ UNCHANGED <<file, at, cfg, turn, ssl, args, stop, killed, servers>>

Rows == Line.value.rows

\* a turn of the loop: fscanf(), and the buffer is checked, trimmed and appended
ScanTurn(buffer) ==
  /\ turn' = ~turn
  /\ conf_pc' = IF buffer = "invalid" THEN "error" ELSE "clients"
  /\ names' = IF buffer = "name" /\ names < MaxClients THEN names + 1 ELSE names

ScanLine ==
  /\ conf_pc = "clients"
  /\ row <= Len(Rows) /\ Rows[row] # "blank"
  /\ client' = Rows[row]
  /\ row' = row + 1
  /\ ScanTurn(Rows[row])
  /\ UNCHANGED <<file, at, cfg, ssl, args, stop, killed, servers>>

\* %[^\n] takes one character at least: at a blank line fscanf() returns 0,
\* which is not EOF, and leaves the line and the buffer as they are
ScanBlank ==
  /\ conf_pc = "clients"
  /\ row <= Len(Rows) /\ Rows[row] = "blank"
  /\ ScanTurn(client)
  /\ UNCHANGED <<file, at, cfg, client, row, ssl, args, stop, killed, servers>>

ScanEnd ==
  /\ conf_pc = "clients"
  /\ row > Len(Rows)
  /\ cfg' = [cfg EXCEPT !["allowed_clients"] = names]
  /\ at' = at + 1
  /\ conf_pc' = "parse"
  /\ UNCHANGED <<file, names, client, row, turn, ssl, args, stop, killed, servers>>

-----------------------------------------------------------------------------
(* main().                                                                 *)

Default(value, unset, default) == IF value = unset THEN default ELSE value

\* the mode is decided before the other one has its default
InsecureDefaultBug(insecure, secure) ==
  Default(insecure, -1, IF secure = 0 THEN 1 ELSE 0)

InsecureDefault(insecure, secure) ==
  Default(insecure, -1, IF Default(secure, -1, 0) = 0 THEN 1 ELSE 0)

Clamp(n, low, high) == IF n < low THEN low ELSE IF n > high THEN high ELSE n

VersionRange(min, max) ==
  LET low == Clamp(min, ProtoMin, ProtoMax)
  IN <<low, IF max < low \/ max > ProtoMax THEN ProtoMax ELSE max>>

ApplyDefaults ==
  /\ conf_pc = "parse" /\ at > Len(file)
  /\ LET range == VersionRange(cfg["min_proto_version"], cfg["max_proto_version"]) IN
     cfg' = [cfg EXCEPT
       !["restart"] = Default(@, -1, 1),
       !["secure_mode_enabled"] = Default(@, -1, 0),
       !["insecure_mode_enabled"] = InsecureDefault(@, cfg["secure_mode_enabled"]),
       !["web_mode_enabled"] = Default(@, -1, 0),
       !["max_text_length"] = Default(@, 0, MaxUint32 \div 2),  \* 4 MiB
       !["max_file_size"] = Default(@, 0, Limit64 \div 2),      \* 64 GiB
       !["min_proto_version"] = range[1],
       !["max_proto_version"] = range[2]]
  /\ conf_pc' = "args"
  /\ UNCHANGED <<file, at, names, client, row, turn, ssl, args, stop, killed, servers>>

ParseArg ==
  /\ conf_pc = "args" /\ args # <<>>
  /\ args' = Tail(args)
  /\ LET opt == Head(args) IN
     /\ stop' = (stop \/ opt = "s")
     /\ cfg' = [cfg EXCEPT !["restart"] =
                  IF opt = "r" THEN 1 ELSE IF opt = "R" THEN 0 ELSE @]
     /\ conf_pc' = IF opt \in {"h", "v", "?"} THEN "exit" ELSE "args"
  /\ UNCHANGED <<file, at, names, client, row, turn, ssl, killed, servers>>

\* kill_other_processes(), and the end of the program after a stop; a build
\* without TLS does not start in secure mode
KillOthers ==
  /\ conf_pc = "args" /\ args = <<>>
  /\ killed' = (stop \/ cfg["restart"] = 1)
  /\ conf_pc' = IF stop THEN "exit"
                ELSE IF ~ssl /\ cfg["secure_mode_enabled"] = 1 THEN "error" ELSE "start"
  /\ UNCHANGED <<file, at, cfg, names, client, row, turn, ssl, args, stop, servers>>

StartServers ==
  /\ conf_pc = "start"
  /\ LET enabled == [plain |-> "insecure_mode_enabled", tls |-> "secure_mode_enabled",
                     web |-> "web_mode_enabled"]
     IN servers' = [s \in {t \in DOMAIN enabled : cfg[enabled[t]] = 1} |-> "starting"]
  /\ conf_pc' = "running"
  /\ UNCHANGED <<file, at, cfg, names, client, row, turn, ssl, args, stop, killed>>

HasKeys == cfg["allowed_clients"] > 0 /\ cfg["server_cert"] = 1 /\ cfg["ca_cert"] = 1

\* the head of clip_share() and of web_server(); bind() and listen() may fail
ServerStarts(s) ==
  /\ s \in DOMAIN servers /\ servers[s] = "starting"
  /\ \/ /\ s = "plain" \/ HasKeys
        /\ servers' = [servers EXCEPT ![s] = "listening"]
     \/ servers' = [servers EXCEPT ![s] = "gone"]
  /\ UNCHANGED <<file, at, cfg, names, client, row, turn, ssl, args, stop, killed, conf_pc>>

ConfigNext ==
  \/ LineIgnored \/ LineInvalid \/ SetOption \/ LineWithoutTls
  \/ OpenClients \/ ScanLine \/ ScanBlank \/ ScanEnd
  \/ ApplyDefaults \/ ParseArg \/ KillOthers \/ StartServers
  \/ \E s \in {"plain", "tls", "web"} : ServerStarts(s)

ConfigSpec == ConfigInit /\ [][ConfigNext]_configVars

\* Nothing but the program itself has to go on.
ConfigFairness == WF_configVars(ConfigNext)

-----------------------------------------------------------------------------
(* Properties.                                                             *)

\* The numbers that the comments above the setters promise to take, 1 to
\* 2^61-1, 1 to 2^32-2 and 1 to 65535, with their suffixes.
Meaning64(v) == v.n * Factor(v.suffix)
Honest(v) == v.word = "number" /\ ~v.neg /\ v.n <= MaxInt64
Takes(key, v) ==
  CASE key \in Uint16Keys -> Suffixed(v, {""}) /\ v.n \in 1..MaxUint16
    [] key \in Uint32Keys -> Suffixed(v, {"", "k", "m", "g"}) /\ Meaning64(v) \in 1..(MaxUint32 - 1)
    [] key \in Int64Keys -> Suffixed(v, {"", "k", "m", "g", "t"}) /\ Meaning64(v) \in 1..Limit64

\* The two cases in which the code takes more than that: 0 for a version
\* (or a port, which is set alike), and any size that has no suffix.
TakesMore(key, v) ==
  /\ Suffixed(v, {""})
  /\ \/ key \in Uint16Keys /\ v.n = 0
     \/ key \in Int64Keys /\ v.n > Limit64

\* the last of the lines that are read with this key, 0 if there is none
LastLine(key) ==
  LET lines == {i \in 1..(at - 1) : file[i].key = key}
  IN IF lines = {} THEN 0 ELSE CHOOSE i \in lines : \A j \in lines : j <= i

\* A number is accepted exactly if what it says is within the range that the
\* comments promise, and the option then has that value, whatever the suffix:
\* no product wraps around.  The last line with a key counts.  The exceptions
\* are the two in which the code takes more, numbers with a minus sign, and
\* those that need all 64 bits.
NumbersMeanWhatTheySay ==
  conf_pc = "parse" \/ (conf_pc = "error" /\ at <= Len(file)) =>
    /\ \A key \in NumericKeys : LastLine(key) # 0 =>
         LET v == file[LastLine(key)].value
         IN Honest(v) /\ ~TakesMore(key, v) => Takes(key, v) /\ cfg[key] = Meaning64(v)
    /\ (conf_pc = "error" /\ at <= Len(file) /\ Line.utf8
        /\ Line.key \in NumericKeys /\ Honest(Line.value))
         => ~Takes(Line.key, Line.value)

\* Whatever the file says, the versions in force are a range that is not
\* empty and within the implemented one, and what the file says of them
\* stands if it is such a range: what negotiate() is built on.
VersionsInForce ==
  conf_pc \in {"args", "start", "running"} =>
    LET min == cfg["min_proto_version"]
        max == cfg["max_proto_version"]
        said(key) == file[LastLine(key)].value.n
    IN /\ ProtoMin <= min /\ min <= max /\ max <= ProtoMax
       /\ (LastLine("min_proto_version") # 0 /\ LastLine("max_proto_version") # 0)
            => LET low == said("min_proto_version")
                   high == said("max_proto_version")
               IN ProtoMin <= low /\ low <= high /\ high <= ProtoMax
                    => min = low /\ max = high

\* What is in force is what the file says, as far as it can be.
OptionsInForce == NumbersMeanWhatTheySay /\ VersionsInForce

Says(key, n) == LastLine(key) # 0 /\ SetIsTrue(file[LastLine(key)].value) = {n}

\* Connections in the clear are served exactly if the file asks for them, or
\* asks neither for them nor for secure ones.  A TLS server listens only
\* with a certificate, an authority and a client that is allowed.
ServersAsConfigured ==
  /\ conf_pc = "running" =>
       ("plain" \in DOMAIN servers
          <=> \/ Says("insecure_mode_enabled", 1)
              \/ LastLine("insecure_mode_enabled") = 0 /\ ~Says("secure_mode_enabled", 1))
  /\ \A s \in DOMAIN servers \ {"plain"} :
       servers[s] = "listening" =>
         /\ ssl
         /\ \A key \in CertKeys : LastLine(key) # 0
         /\ LastLine("allowed_clients") # 0
         /\ \E r \in DOMAIN file[LastLine("allowed_clients")].value.rows :
              file[LastLine("allowed_clients")].value.rows[r] = "name"

\* "Returns a list2* of null terminated strings as elements on success.
\* Returns null on error.": get_client_list() returns.
ClientListReturns == conf_pc = "clients" ~> conf_pc # "clients"
=============================================================================
