---------------------------- MODULE Conversions ----------------------------
(***************************************************************************)
(* The conversions that texts, names and sizes go through on their way:    *)
(*   - send_size() and read_size() of utils/net_utils.c;                   *)
(*   - convert_eol() of utils/utils.c, which moves characters within one   *)
(*     buffer: towards its start for LF, towards its end for CRLF;         *)
(*   - the list of copied files: URLs that url_encode() makes, joined by   *)
(*     line feeds, and their decoding within the same buffer.              *)
(*                                                                         *)
(* A behaviour runs one job.  A character is its code, memory a sequence   *)
(* of them, and an index is 1 more than that of the code.  A turn of a     *)
(* loop is a step, and a job's result is what its caller gets.             *)
(***************************************************************************)
EXTENDS Integers, Sequences, SequencesExt, FiniteSets

CONSTANTS Jobs,      \* the jobs that are tried
          Digits,    \* bytes of a size (8)
          Base,      \* values of a byte (256)
          Weight,    \* the powers of it
          MaxName,   \* MAX_FILE_NAME_LEN (2048)
          MaxUrl     \* MAX_URL_LEN (4096)

ASSUME ConversionsAssumption ==
  /\ Digits \in Nat \ {0} /\ Base \in Nat \ {0} /\ Base % 2 = 0
  /\ Weight \in [0..Digits -> Nat \ {0}] /\ Weight[0] = 1
  /\ \A k \in 1..Digits : Weight[k] = Weight[k - 1] * Base
  /\ MaxName \in Nat /\ MaxUrl \in Nat /\ MaxName <= MaxUrl
  /\ \A j \in Jobs :
       /\ j.kind \in {"size", "lf", "crlf", "paths", "urls"}
       \* a size is an int64_t
       /\ j.kind = "size" =>
            j.size \in -(Weight[Digits] \div 2)..(Weight[Digits] \div 2 - 1)
       \* a text is a string
       /\ j.kind \in {"lf", "crlf"} =>
            j.text \in Seq(Int) /\ \A i \in DOMAIN j.text : j.text[i] # 0

VARIABLES job,      \* what is converted: a record with its kind
          mem,      \* the buffer
          from,     \* index that is read: old_ptr, cur_ind, ptr2
          to,       \* index that is written: new_ptr, new_ind, ptr1
          start,    \* start of the URL that is decoded: fname
          off,      \* distance to the next one, measured before decoding
          count,    \* increase of the length, or URLs that are left
          out,      \* the result
          job_pc    \* where the job is

convVars == <<job, mem, from, to, start, off, count, out, job_pc>>

NUL == 0
LF == 10
CR == 13
Percent == 37
FilePrefix == <<102, 105, 108, 101, 58, 47, 47>>    \* file://

\* strlen() and strnlen(), and the string that starts at s
StrEnd(m, s) == CHOOSE e \in s..Len(m) : m[e] = NUL /\ \A k \in s..(e - 1) : m[k] # NUL
StrLen(m, s) == StrEnd(m, s) - s
CString(m, s) == SubSeq(m, s, StrEnd(m, s) - 1)
AtMost(n, bound) == IF n < bound THEN n ELSE bound

-----------------------------------------------------------------------------
(* Sizes.  A shift to the right is arithmetic, as \div rounds down; what   *)
(* a shift to the left pushes out is lost.                                 *)

Word == Weight[Digits]
Signed(n) == LET u == n % Word IN IF u >= Word \div 2 THEN u - Word ELSE u

\* a turn of the loop of send_size(): sz is count
SendByte ==
  /\ job_pc = "size"
  /\ mem' = [mem EXCEPT ![from] = count % Base]
  /\ count' = count \div Base
  /\ from' = from - 1
  /\ job_pc' = IF from = 1 THEN "sent" ELSE "size"
  /\ UNCHANGED <<job, to, start, off, out>>

ReadSize ==
  /\ job_pc = "sent"
  /\ from' = 1
  /\ out' = 0
  /\ job_pc' = "read"
  /\ UNCHANGED <<job, mem, to, start, off, count>>

\* the value is put together as an unsigned one
ShiftedInBug(size, byte) == size * Base + byte

ShiftedIn(size, byte) == Signed(size * Base + byte)

\* a turn of the loop of read_size()
ReadByte ==
  /\ job_pc = "read"
  /\ out' = ShiftedIn(out, mem[from])
  /\ from' = from + 1
  /\ job_pc' = IF from = Digits THEN "done" ELSE "read"
  /\ UNCHANGED <<job, mem, to, start, off, count>>

-----------------------------------------------------------------------------
(* Ends of lines.                                                          *)

\* every CR is dropped
KeptByLfBug(m, i) == m[i] # CR

\* c != '\r' || *old_ptr != '\n'
KeptByLf(m, i) == m[i] # CR \/ m[i + 1] # LF

LfTurn ==
  /\ job_pc = "lf"
  /\ mem[from] # NUL
  /\ IF KeptByLf(mem, from)
     THEN mem' = [mem EXCEPT ![to] = mem[from]] /\ to' = to + 1
     ELSE UNCHANGED <<mem, to>>
  /\ from' = from + 1
  /\ UNCHANGED <<job, start, off, count, out, job_pc>>

LfEnd ==
  /\ job_pc = "lf"
  /\ mem[from] = NUL
  /\ mem' = [mem EXCEPT ![to] = NUL]
  /\ out' = to - 1
  /\ job_pc' = "done"
  /\ UNCHANGED <<job, from, to, start, off, count>>

\* a line feed that wants a CR
BareLf(m, i) == m[i] = LF /\ (i = 1 \/ m[i - 1] # CR)

\* The count of _realloc_for_crlf(), and the new buffer, whose new part
\* holds anything: the old terminator is all that ends the string.
ReallocForCrlf ==
  /\ job_pc = "crlf"
  /\ LET length == StrLen(mem, 1)
         increase == Cardinality({i \in 1..length : BareLf(mem, i)})
     IN /\ count' = increase
        /\ out' = length + increase
        /\ from' = length
        /\ to' = length + increase
        /\ mem' = [i \in 1..(length + increase + 1) |->
                     IF i <= length + 1 THEN mem[i] ELSE 255]
        /\ job_pc' = IF increase = 0 THEN "done" ELSE "terminate"
  /\ UNCHANGED <<job, start, off>>

Terminate ==
  /\ job_pc = "terminate"
  /\ mem' = [mem EXCEPT ![out + 1] = NUL]
  /\ job_pc' = "crlfback"
  /\ UNCHANGED <<job, from, to, start, off, count, out>>

\* the loop of _convert_to_crlf()
CrlfTurn ==
  /\ job_pc = "crlfback"
  /\ LET moved == [mem EXCEPT ![to] = mem[from]] IN
     IF mem[from] = LF /\ (from = 1 \/ moved[from - 1] # CR)
     THEN mem' = [moved EXCEPT ![to - 1] = CR] /\ to' = to - 2
     ELSE mem' = moved /\ to' = to - 1
  /\ from' = from - 1
  /\ job_pc' = IF from = 1 THEN "done" ELSE "crlfback"
  /\ UNCHANGED <<job, start, off, count, out>>

-----------------------------------------------------------------------------
(* The list of copied files.                                               *)

Safe(c) ==
  \/ c \in 97..122 \/ c \in 64..90 \/ c \in 38..58
  \/ c \in {95, 61, 33, 126}

HexDigit(n) == IF n < 10 THEN 48 + n ELSE 55 + n

\* hex2char(), -1 for what is not a digit
HexValue(c) ==
  IF c \in 48..57 THEN c - 48
  ELSE IF c \in 65..70 THEN c - 55
  ELSE IF c \in 97..102 THEN c - 87
  ELSE -1

UrlEncode(path) ==
  FilePrefix \o FlattenSeq([i \in 1..Len(path) |->
    IF Safe(path[i]) THEN <<path[i]>>
    ELSE <<Percent, HexDigit(path[i] \div 16), HexDigit(path[i] % 16)>>])

\* set_clipboard_cut_files() and, without a display, get_copied_files_as_str()
JoinUrls(paths) ==
  [i \in DOMAIN paths |-> SubSeq(UrlEncode(paths[i]), 1, AtMost(Len(UrlEncode(paths[i])), MaxUrl))]

Urls == IF job.kind = "paths" THEN JoinUrls(job.paths) ELSE job.urls

Joined(urls) == FlattenSeq([i \in DOMAIN urls |-> IF i = 1 THEN urls[i] ELSE <<LF>> \o urls[i]])

Copy ==
  /\ job_pc = "copy"
  /\ mem' = Append(Joined(Urls), NUL)
  /\ job_pc' = "split"
  /\ UNCHANGED <<job, from, to, start, off, count, out>>

\* file_cnt, and each line feed made a terminator
Split ==
  /\ job_pc = "split"
  /\ count' = 1 + Cardinality({i \in DOMAIN mem : mem[i] = LF})
  /\ mem' = [i \in DOMAIN mem |-> IF mem[i] = LF THEN NUL ELSE mem[i]]
  /\ start' = 1
  /\ job_pc' = "file"
  /\ UNCHANGED <<job, from, to, off, out>>

Starts(m, s) == SubSeq(m, s, AtMost(s + 6, Len(m))) = FilePrefix

\* the next turn of the loop over the files, and the head of url_decode()
NextFile ==
  /\ job_pc = "file"
  /\ IF count > 0 /\ Starts(mem, start)
     THEN /\ off' = AtMost(StrLen(mem, start), MaxName) + 1
          /\ from' = start + Len(FilePrefix)
          /\ to' = start
          /\ job_pc' = "decode"
     ELSE job_pc' = "done" /\ UNCHANGED <<from, to, off>>
  /\ UNCHANGED <<job, mem, start, count, out>>

Escaped == mem[from] = Percent
BadEscape ==
  Escaped /\ \E d \in 1..2 : from + d \in DOMAIN mem /\ HexValue(mem[from + d]) < 0

Decoded ==
  IF Escaped THEN 16 * HexValue(mem[from + 1]) + HexValue(mem[from + 2])
  ELSE mem[from]

\* a turn of the do-while loop
DecodeTurn ==
  /\ job_pc = "decode" /\ ~BadEscape
  /\ mem' = [mem EXCEPT ![to] = Decoded]
  /\ to' = to + 1
  /\ from' = from + (IF Escaped THEN 3 ELSE 1)
  /\ job_pc' = IF mem'[from'] = NUL THEN "take" ELSE "decode"
  /\ UNCHANGED <<job, start, off, count, out>>

\* break: the URLs behind this one are not looked at
DecodeFails ==
  /\ job_pc = "decode" /\ BadEscape
  /\ job_pc' = "done"
  /\ UNCHANGED <<job, mem, from, to, start, off, count, out>>

\* fname += off with an offset that is measured after the decoding
AdvanceToNextBug(m) == start' = start + StrLen(m, start) + 1

AdvanceToNext(m) == start' = start + off

\* the terminator, append(lst, strdup(fname)), and the next file
TakeFile ==
  /\ job_pc = "take"
  /\ mem' = [mem EXCEPT ![to] = NUL]
  /\ out' = Append(out, CString(mem', start))
  /\ AdvanceToNext(mem')
  /\ count' = count - 1
  /\ job_pc' = "file"
  /\ UNCHANGED <<job, from, to, off>>

-----------------------------------------------------------------------------
FirstLabel(j) ==
  CASE j.kind = "size" -> "size" [] j.kind = "lf" -> "lf" [] j.kind = "crlf" -> "crlf"
    [] j.kind \in {"paths", "urls"} -> "copy"

ConvInit ==
  /\ job \in Jobs
  /\ mem = IF job.kind = "size" THEN [b \in 1..Digits |-> NUL]  \* not initialised
           ELSE IF job.kind \in {"lf", "crlf"} THEN Append(job.text, NUL) ELSE <<>>
  /\ from = (IF job.kind = "size" THEN Digits ELSE 1)
  /\ to = 1 /\ start = 1
  /\ off = 0 /\ count = (IF job.kind = "size" THEN job.size ELSE 0) /\ out = <<>>
  /\ job_pc = FirstLabel(job)

ConvNext ==
  \/ SendByte \/ ReadSize \/ ReadByte
  \/ LfTurn \/ LfEnd \/ ReallocForCrlf \/ Terminate \/ CrlfTurn
  \/ Copy \/ Split \/ NextFile \/ DecodeTurn \/ DecodeFails \/ TakeFile

ConvSpec == ConvInit /\ [][ConvNext]_convVars

-----------------------------------------------------------------------------
(* Properties.                                                             *)

Done(kinds) == job_pc = "done" /\ job.kind \in kinds

\* What is on its way is the size in two's complement, big endian, and every
\* size arrives as it was sent, negative ones too: -1 stands for a directory
\* (versions 3 and 4).
RoundTrip ==
  /\ job_pc = "sent" =>
       \A b \in 1..Digits : mem[b] = (job.size \div Weight[Digits - b]) % Base
  /\ Done({"size"}) => out = job.size

\* Each CR before an LF, and each LF without a CR before it
CrsBeforeLf(t) == {i \in DOMAIN t : t[i] = CR /\ i < Len(t) /\ t[i + 1] = LF}
BareLfs(t) == {i \in DOMAIN t : BareLf(t, i)}
UpTo(S, i) == Cardinality({j \in S : j <= i})

\* Though it works within one buffer, the conversion is the one defined
\* without it.  For LF each CR before an LF goes, and another character moves
\* towards the start by the number of those up to it; for CRLF a CR comes
\* before each LF without one, and a character moves towards the end by the
\* number of those up to it.  The length is returned, and ends the text.
LinesConverted ==
  LET t == job.text IN
  /\ Done({"lf"}) =>
       /\ out = Len(t) - Cardinality(CrsBeforeLf(t))
       /\ \A i \in DOMAIN t \ CrsBeforeLf(t) : mem[i - UpTo(CrsBeforeLf(t), i)] = t[i]
       /\ mem[out + 1] = NUL
  /\ Done({"crlf"}) =>
       /\ out = Len(t) + Cardinality(BareLfs(t))
       /\ \A i \in DOMAIN t : mem[i + UpTo(BareLfs(t), i)] = t[i]
       /\ \A i \in BareLfs(t) : mem[i + UpTo(BareLfs(t), i) - 1] = CR
       /\ mem[out + 1] = NUL

\* The characters of t at the indices in `kept', in their order
Keeping(t, kept) ==
  LET order == SetToSortSeq(kept, <) IN [k \in 1..Len(order) |-> t[order[k]]]

\* A URL that url_decode() takes, and the path it stands for, which an
\* encoded zero ends
Meaningful(u) ==
  /\ Len(u) > Len(FilePrefix)
  /\ Starts(u, 1)
  /\ \A k \in DOMAIN u :
       u[k] = Percent =>
         k + 2 <= Len(u) /\ HexValue(u[k + 1]) >= 0 /\ HexValue(u[k + 2]) >= 0

Meaning(u) ==
  LET inEscape == {k \in DOMAIN u : \E d \in 1..2 : k - d \in DOMAIN u /\ u[k - d] = Percent}
      values == [k \in DOMAIN u |->
                   IF u[k] = Percent THEN 16 * HexValue(u[k + 1]) + HexValue(u[k + 2]) ELSE u[k]]
      path == Keeping(values, {k \in DOMAIN u : k > Len(FilePrefix)} \ inEscape)
  IN CString(Append(path, NUL), 1)

\* Each URL of a list is decoded to the path it stands for, though the paths
\* are written over the URLs in the same buffer: the others are not touched,
\* and the list ends at the first URL that is none.  Paths that this server
\* copied come back as they were.  Longer URLs than MAX_FILE_NAME_LEN, and
\* such without a path, break this, for the URLs behind them.
PathsDecoded ==
  Done({"paths", "urls"})
  /\ (\A i \in DOMAIN Urls : Len(Urls[i]) <= MaxName /\ Urls[i] # FilePrefix)
    => LET bad == {i \in DOMAIN Urls : ~Meaningful(Urls[i])}
           good == {i \in DOMAIN Urls : \A b \in bad : i < b}
       IN /\ out = [i \in good |-> Meaning(Urls[i])]
          /\ job.kind = "paths" => out = job.paths
=============================================================================
