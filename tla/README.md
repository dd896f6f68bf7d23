# ClipShare server: specifications, checks and proofs

ClipShare (`src/`) shares the clipboard and files of a machine with clients on
the network. This directory holds TLA+ models of the parts of the server in
which several processes, threads, signals, messages or programs meet, and of the
algorithms it rests on; the TLC runs that check them; and TLAPS proofs of most of
the safety properties, for every value of the constants: of the accept loop, the
sessions, the transfers of files in both directions, the X11 clipboard, the walk
of a restart, the web server with its clipboard, and the socket loops.

## 1. The system

### Processes

`main()` forks one process per service and, as a daemon, ends. On Linux and
macOS every service and every connection is a process of its own; on Windows
they are threads. Nothing is shared between processes but the file system, the
X server, the kernel's signals and the port.

| Component | State | Operations | Hard behaviour |
|---|---|---|---|
| Listener, `servers/clip_share.c`, `get_connection()` in `utils/net_utils.c` | `req_cnt`, the listening socket, the accepted connection | accept, TLS handshake, compare with 64, `fork()`, SIGCHLD handler that waits and decrements | the handler interrupts the loop between two machine instructions; signals coalesce; the handshake is inside the loop, where a client that has gone can end it by SIGPIPE |
| Session, `proto/server.c`, `proto/versions.c`, `proto/methods.c` | socket, version, method | negotiation; get and send text, files, image, screenshot, any, info; acknowledgements of version 4 | any read or write may fail; the clipboard changes between two looks; SIGPIPE |
| Receiving files, `_send_files_dirs()` and `send_file_v1()` | working directory, temporary directory | choose a free name, receive, move, put on the clipboard | several sessions in one directory without locks; kills |
| Sending files, `_get_files_common()`, `get_copied_dirs_files()` | list of paths, open file | walk, announce, open, measure, send | files change between any two of these |
| Socket input and output, `utils/net_utils.c` | counter of timeouts | `read_sock`, `write_sock`, `send_size`, `read_size` | short calls, timeouts, the peer going |
| X11 clipboard, `xclip/` | selection, INCR transfer, property | `doIn`/`xcin` serve a text, `doOut`/`xcout` read one | several requestors at once, loss of the selection in a transfer |
| Startup, `main.c`, `utils/kill_others.c` | processes of the name, port | start, `-r`, `-s`, `-R` | walk of `/proc` while processes fork; two calls at once; a fixed wait |
| Headless clipboard, `utils/utils.c` | the files `type` and `text` in `/tmp` | put and get a text, note that files were received, wipe the data directory | no locks; each open, write and read is a step others see; kills and full disks in between |
| Configuration, `utils/config.c`, `main.c` | `configuration`, the servers that run | parse, defaults, command line, start | numbers with suffixes, defaults that depend on each other, the loop over the client list |
| Conversions, `utils/utils.c`, `utils/net_utils.c` | buffers | EOL, URLs of copied files, sizes | in place, at the ends of buffers, signs |
| Web server, `servers/clip_share_web.c` | the buffer of a request | one request and one answer per process | requests in segments, two loops that wait for the rest |
| UDP scan | none | one datagram, one answer | - |
| Screenshots, tray icon, macOS and Windows clipboards, library loading | none that others see | library calls | - |

### Interaction

The listener forks a session and closes its own copy of the connection. A
session calls the handlers of `methods.c`, which use `read_sock` and
`write_sock` for the peer, the helpers of `utils.c` for files, and `xclip_util`
for the clipboard. After a text or a list of files was received the session
itself becomes the owner of the X selection: it stays, and with it its slot in
the listener, until another program copies something. A session that reads the
clipboard may therefore be served by another session of the same server. A
restart or a stop signals all of these processes.

### What makes each component correct

- Listener: never more than 64 sessions; no slot is lost; every client is
  answered; every connection is closed once; every ended session is waited for.
- Session: a peer gets only what version and configuration allow; the parts of
  an answer come in the order of the protocol; nothing is done with a closed
  socket; an acknowledged text reaches the clipboard.
- Receiving: what was there stays; what is reported as received is whole and
  in its place; what was acknowledged survives a kill; a headless server keeps
  the last upload and nothing else.
- Sending: the stream has the shape it announces; what did not change arrives.
- Sockets: every byte once, in order; always an end.
- Clipboard: a paste is the whole text; requests are answered; the owner leaves.
- Startup: nothing of the old server survives; a restart ends with a server.
- Headless clipboard: it never holds half a text, or an old one that looks new.
- Web server: only a body that is whole is acknowledged and put; complete
  requests end.
- Configuration: an option in force means what the file says; connections in the
  clear are served only where the file allows it.
- Conversions: working in place makes no difference.

`PROJECT.json` lists all components and, under `hazards`, the places where
these can go wrong.

## 2. The modules

| Module | Models | Depends on |
|---|---|---|
| `SessionSlots` | what the request limit promises: `MaxReq` slots, more after collisions only | - |
| `Listener` | the accept loop, its counter, its signal handler and its threads | refines `SessionSlots` |
| `ListenerProofs` | theorems about `Listener` | `Listener`, TLAPS |
| `Session` | one connection, from the first byte to the end of the process | - |
| `SessionProofs` | theorems about `Session` | `Session`, TLAPS |
| `FileTree` | the file system calls, as operators on a tree | - |
| `Upload` | sessions that receive files | `FileTree` |
| `UploadProofs` | theorems about `Upload` | `Upload`, TLAPS |
| `Download` | a session that sends files | `FileTree` |
| `DownloadProofs` | theorems about `Download` | `Download`, TLAPS |
| `XSelection` | one owner of the selection and the sessions that read it | - |
| `XSelectionProofs` | theorems about `XSelection` | `XSelection`, TLAPS |
| `Startup` | processes, signals and the port in a start, restart or stop | - |
| `StartupProofs` | theorems about `Startup` | `Startup`, TLAPS |
| `HeadlessClipboard` | the two files of a headless build, and who uses them | - |
| `Web` | the processes of the web server | composes `HeadlessClipboard` |
| `WebProofs` | theorems about `Web` | `Web`, TLAPS |
| `SockIO` | `read_sock()` and `write_sock()` over calls that move a part | - |
| `Conversions` | sizes, ends of lines, URLs | - |
| `Config` | configuration file, defaults, command line, servers | - |
| `AlgorithmProofs` | theorems about `SockIO`, `Conversions` and `Config` | these three, TLAPS |
| `MCAlgorithms` | one of `SockIO`, `Conversions`, `Config` per behaviour | these three |

The other `MC*` modules hold the values of constants for TLC. In every module a
definition whose name ends in `Bug` is a mutation of the definition that
follows it: no action uses it, and each property is shown to fail with one of
them. `PROJECT.json` maps every definition to the lines it models.

**Listener.** `build` is chosen at the start: processes or threads, with TLS or
without, with `req_cnt++` as one instruction or as the load, the add and the
store that gcc makes of it. `pc` is the next statement of the loop; between
`IncrementLoad` and `IncrementStore` the loop holds the old value in `reg`.
`Deliver` starts the handler at any step of the loop, `Reap` is one turn of its
`waitpid()` loop, and the loop stands still until `Return`. A thread runs beside
the loop: `ThreadDecrement` loads into its own register, `ThreadStore` stores.
`conn` says for each client whether its connection is queued, accepted, being
served, ended but still counted ("zombie"), or a thread between its load and its
store. `races` counts the updates made within another's load and store: each of
them makes one of the two disappear. `fds` is the number of connections that the
loop holds open, and `rejected` counts the clients it turned away for their
certificate, whose descriptors it never closes. In `SSL_accept()` and
`SSL_shutdown()` the loop writes to the client; if that one has gone, SIGPIPE may
end the listener, which leaves `pc = "dead"` and resets all that was queued.

**Session.** A handler is the sequence of operations it still has to do, `todo`.
A failed operation drops the rest, as the early returns do. `clip` is what the
clipboard holds; `Copy` is another program, at any time. `received` is what the
peer has sent in full: a text that is valid, invalid or, beginning with a NUL,
empty after the conversion of its line ends, or files. A text is put on the
clipboard, and so are files if `cut_sent_files` is set; either may fail, and without
an X server (`display`) always does. A session that has put something is the owner of
the selection and stays. `Stalled` names the three operations that may wait for
ever: a look at a clipboard whose owner does not answer, the loop that sends a file
that has become shorter, and owning the selection.

**Upload.** `disk` is the tree of the working directory; a file is an inode
whose `content` is the upload it holds, or nothing complete. Every look at the
file system and every change is a step. `Kill` ends a session at any of them.
`fclose()` is not checked in the code: what it could not write is a member of
`lost`, and the session goes on. `ok` is the status the handler returns;
`clean_temp_dir()` has one of its own, `moved`, which its caller does not pass on.
`alone` says of a session that no other one has run beside it.

**Download.** The walk keeps a stack of open directories, each with what it
held when it was opened and what `readdir()` has returned; names that come or go
meanwhile may or may not be seen, as POSIX leaves it. `sent` has, for each
file, the name, the announced size and the number of units that followed.

**SockIO.** The connection `wire` holds up to `Capacity` bytes; a call moves any
part, or times out, or fails for good. `silent` is a history variable: the calls
in a row that have moved nothing.

**XSelection.** The X server is the properties, the queue of the owner and the
events of each requestor. `Take` is another program that copies something, and
that may leave requests without an answer (`silent`). `Vanish` is a requestor that is
killed, with its window: its events end, and what the owner then writes to that
window ends the owner (`OwnerDies`). `crossed` is a history variable: a session asked for
a long text that was on its way to another one.

**Startup.** Processes are numbered in the order of their forks; a walk of
`/proc` visits them in that order and meets those forked meanwhile. A process may
handle its signal at any later time. Two history variables tell what came of it:
`late`, the wait of 5 ms was over with a signal still to be handled, and `met`, one
walk signalled the process of another one.

**HeadlessClipboard and Web.** A text is a sequence of the blocks that reach the
file one by one; a block names the process whose text it belongs to, so that a
mixture can be told from a text, and a block written behind the end of a file
that another process has truncated leaves a `Hole` of zeros. `GetStep` and
`PutStep` are the two functions with a step per call; `Web` says where their
callers go on. Bytes of a request are counted, not spelled: `rd` is how many
`receiver_web()` has read, and `check` where its search for the terminator
starts. The body may be shorter or longer than the announced length. A connection of kind "session" is one of `clip_share()` that has received
files and notes this in the same `type` file.

**Conversions.** Characters are their codes and the buffer is `mem`, so that what
one turn of a loop overwrites is what a later turn reads. Sizes have `Digits`
digits of base `Base`, whose powers are `Weight`; a byte is a step, and the shifts
are those of a signed number.

**Config.** A line is a key and a value; `SetInt64` and its neighbours give the
set of results, with the undefined overflow of a signed product as a choice.
`get_client_list()` is a loop of its own, a call of `fscanf()` a step.

## 3. The runs

| Run | Question | Bounds |
|---|---|---|
| `Listener` | limit, counter, ownership of connections, refinement of the slots, and liveness, for three builds | 3 clients that come again and again, 2 slots, 2 descriptors, 2 races |
| `Session` | who is served what, in which order; the clipboard; the end of the session | plain or TLS, with an X server or without, versions 2 to 4, a disabled method, received files are cut, 2 changes of the clipboard |
| `UploadConcurrent` | two sessions receive at once; kills, failures and a full disk included | 2 sessions, 6 requests, 2 seconds, 1 numbered name |
| `UploadHeadless` | a headless server and its clients, one after another or at once; uploads end | 2 sessions, 2 requests, 1 second, so that they share the temporary name, and 1 numbered name |
| `DownloadChanging` | a walk and a transfer while files are removed, replaced, created, shortened | 6 lists, versions 1 to 3, 2 changes, 2 units per read |
| `XSelection` | texts, short and in chunks, read at once or one after the other; the selection lost, or a requestor killed, at any moment | 2 requestors, 1, 2, 3 or 5 bytes, chunks of 2 |
| `Startup` | a restart or a stop and, at any moment, a second restart or a plain start; signals take any time | 2 calls, 2 sessions |
| `WebHeadless` | one request in any segments, valid or not; up to three connections on one clipboard | headers of 3, 5 or 7 bytes with a terminator of 3, bodies of 0, 2 or 4 with 0, 1, 2 or 5 announced, 2 per `recv()`, header limit 6, texts up to 3 served, 1 idle call |
| `Algorithms` | `SockIO` over short calls, timeouts and failures; conversions and configuration against reference definitions | 4 bytes, 3 per call, patience 2; all 512 sizes of 3 digits to base 8; all texts up to 5 of CR, LF and a letter; lists of 1 to 3 paths; numbers around each power of 2 in 8 bits, all pairs of 4 versions, all pairs of mode lines |
| `UploadOverwrites`, `DownloadGrows`, `BlankLine` | disagreements, see section 6 | |

Why the bounds suffice to be worth something. The limit bites when there are
more clients than slots, and a lost decrement needs one session that ends
between two instructions; both happen with two slots, and two races let a lost
increment meet a lost decrement. The proofs cover all other numbers. Two sessions are what every clash of names needs; the suffix
limit of 1 makes "no name left" reachable; two seconds let the temporary names
be equal or different. A directory with a nested directory, two files of one
name and an empty directory has each case of the walk, and its depth limit of 2
is reached. Two uploads to a headless server are what wiping the data directory needs: one after
the other, with the first ended anywhere, or at once, where the one second lets them
share the temporary name. Two requestors are what crossing needs,
and two calls what a meeting of walks needs. Four bytes, moved at most three at a time, have all ways to be
short at the start and after progress. Five bytes make two full chunks, a
short one and the empty one.

In `WebHeadless` the terminator is longer than one `recv()`, so that it is cut
in every way; headers of 7 bytes pass the limit of 6 at which the loop ends by
itself; a body of 5 is refused; a text of 4 is put and too long to be served.
Two writers and a reader, or one writer, a reader and an upload, are what every
mixture needs. In `Algorithms` the sizes of the integers are 256, 16 and 4 in place of 2^64, 2^32 and 2^16, and a suffix
stands for 2 in place of 1000: the limits of the setters are derived from the
width as in the code, and the numbers lie on both sides of each of them. The
lengths 14 and 15 in place of 2048 and 4096 are reached by URLs of two escaped
bytes and passed by those of three.

`CHECK_DEADLOCK FALSE` stands where the system really stops: a session, an
upload, a transfer, a request or an algorithm that has ended.

## 4. Fairness

Weak fairness is used, with one exception, and only for what the code or the kernel does
by itself:

- Listener: the loop runs (`Loop`), a pending signal is handled (`Deliver`,
  `Reap`, `Return`), a thread past `server()` goes on. Nothing is assumed of the
  sessions: one that owns the clipboard may never end. `ThreadDecrement` has
  strong fairness: in the code a thread can always load the counter, and only
  the bound `MaxRaces` of the model disables it at times.
  Nothing is assumed of a listener that SIGPIPE has ended.
- Session, Upload: a session goes on. A read or a write gives up after twelve
  timeouts of two seconds, which is `Returns` of `SockIO`. Nothing is assumed at the
  three places where the code itself sets no limit (`Stalled` of `Session`):
  `xcout()` waits for the owner of the clipboard without a timeout, the loop over the
  content of a file goes on at the end of the file, and an owner stays one. `Upload`
  calls the last of them its end.
- Download: the process runs; `write_sock()` returns.
- SockIO: a call returns, because `SO_RCVTIMEO` and `SO_SNDTIMEO` are set.
- XSelection: each process of this server handles the events it has. No one has to
  ask for the text, or to copy something else, and the program that does need not
  answer.
- Startup: processes run and handle their signals, however late. Clients need not
  come and sessions need not end.
- Web: the process of each connection runs; its calls return, as timeouts are
  set. A client may stop in the middle of a request for ever.
- Config: the program itself goes on. Under this fairness `BlankLine` still has
  a behaviour that does not end: it is no matter of scheduling.

## 5. The proofs

A theorem holds for every value of the constants that its module's named
assumption admits; where it needs more, the premise is in its statement. Each
invariant that is proved inductive was first checked by TLC on the run of its
module. The assumptions say what the program guarantees of its inputs:

| Assumption | What it says, and why the code justifies it |
|---|---|
| `ListenerAssumption`, `SockIOAssumption`, `StartupAssumption`, `SessionAssumption` | numbers are positive, sets finite, versions a range within 1 to 4, as the configuration enforces |
| `ClipboardAssumption`, `WebAssumption` | a hole is not a block of a process; headers hold at least their terminator; the announced length and that of the body are any two numbers |
| `DownloadAssumption` | the initial tree has the directories above each of its files, a list of copied files is not empty, limits are positive |
| `UploadAssumption` | a name is a number, 0 for none, and a base, and the names in a request have no number: that a client itself sends `1_a` beside `a` is left out, and so is a name that looks like that of a temporary directory (the bases `"time"` and `"rand"`); no name is empty, which `methods.c:458` refuses; there are finitely many sessions; a request has at least one entry; an entry of version 1 is a single file; the name of the configuration file is not that of a temporary directory (`0 \notin Seconds`: `time()` is not 0); a headless build has a working directory and cuts received files, as its `main()` sets |
| `ConfigAssumption` | the sizes of the integers are positive, that of the largest divisible by 8; a number in a file is not negative (its sign is kept apart), files and lists of clients have a length; the largest version fits into its integer |
| `ConversionsAssumption` | a byte has an even number of values, `Weight` holds their powers, a size is an `int64_t`, a text is a string: no character of it is 0 |
| `XSelectionAssumption` | texts are not empty, chunks have a positive size |

### Listener

`ListenerProofs` proves, for every set of clients, every limit, every set of
builds and every number of races, from `ListenerAssumption` alone (a finite set
of clients, positive limits, threads without a one-instruction counter):

| Theorem | Property |
|---|---|
| `TypeCorrect` | `TypeOK`: the counter and the registers never pass `MaxReq` |
| `AccountingHolds` | `Accounting`, the half of `CounterSound` that bounds the counter from below |
| `EachClosedOnceHolds` | `EachClosedOnce`: besides the connection in hand, the loop holds open one for each rejected certificate and no other |
| `SessionLimitHolds` | `SessionLimit`: at most `MaxReq` sessions, plus one for each race of threads |
| `CounterExactHolds` | `CounterExact`, the half of `CounterSound` that bounds it from above |
| `CounterSoundHolds` | `CounterSound` |
| `RefusedOnlyWhenFullHolds` | `RefusedOnlyWhenFull` |
| `ImplementsSlots` | `RefinesSlots`: the listener implements `SessionSlots` |

`SessionLimit` is not inductive: nothing in it says what the counter, or a
register that is about to be stored into it, stands for. The inductive invariant
is `IInv == TypeOK /\ EachClosedOnce /\ Shape /\ Accounting /\ Loss`.

- `Accounting` says that the counter is at least the number of sessions that it
  has to stand for, plus the one that is about to be started, less what races
  have lost; and that each register between its load and its store is an equally
  good bound. A decrement that the handler makes in between is lost with the
  store, which can only leave the counter too high.
- `Loss` is the other direction: the counter, and each such register, is too
  high by no more than one for each race. For processes it is an equation, since
  only the loop can lose an update, and only one of the handler's.
- `Shape` says which build can be in which state: only threads are ever
  "storing", only processes have a handler, and a one-instruction counter never
  has the loop between a load and a store.
- `EachClosedOnce` is needed because a start has to add a session that was not
  one before.

The lemmas about `Unreaped` and `Storing` reduce each action to the element it
adds to or takes from these sets (`SetsStep`). `LoopFrame` and
`EnvironmentFrame` carry the parts without numbers through each action,
`SessionNumbers` and `OtherNumbers` the two parts with numbers. The refinement
maps each step to the acquisition or the release of a slot, to a collision that
adds one (`RacesStep`), or to a stutter.

### Socket input and output

`AlgorithmProofs` proves, for every number of bytes, every largest call, every
capacity of the connection and every patience, from `SockIOAssumption` alone:

| Theorem | Property |
|---|---|
| `SockIOTypeCorrect` | `TypeOK` of `SockIO` |
| `InOrderHolds` | `InOrder` |
| `PatientHolds` | `PatientWithThePeer` |

Their invariant is `IInv == TypeOK /\ Lined /\ Counted`. `Lined` says byte by byte
what `InOrder` says of sequences, in both directions at once: what the connection
holds are the bytes between those that have arrived and those that have left the
sender. It also says how many bytes have moved, from which it follows that a call
never asks for more than is left, and that success means all of them
(`LinedIsInOrder` turns this back into `InOrder`). `Counted` ties the counter of the
code to the calls that have moved nothing: while the loop runs the counter is at
most one more than them, since it starts at 1 after progress, so that the test
of the code cannot give up early. The steps reduce to four facts: a call reads the
head of `wire` (`ReadsInOrder`), a call writes behind its end (`WritesInOrder`), and
the same for the peer (`PeerSendsInOrder`, `PeerReceivesInOrder`).

### Startup

`StartupProofs` proves `WalkMissesNobody` for every set of starters, every mode
and every number of sessions that are forked meanwhile
(`WalkMissesNobodyHolds`). The property speaks of one step, the end of a walk;
what has to be known before it is `PassedAreSignalled`: whatever a walk has
passed is alive only with its signal pending. A fork keeps it, since the child
gets a number above every cursor, and a process ends with its signal. `Numbered`
counts the numbers that were given against the calls and the forks, which shows
that the walk's range `1..MaxPid` is no bound on the behaviours.

### Session

| Theorem | Property |
|---|---|
| `ServedAsConfiguredHolds` | `ServedAsConfigured` |
| `AnswerInOrderHolds` | `AnswerInOrder` |
| `ClipboardTakenOnlyByReceivedHolds` | `ClipboardTakenOnlyByReceived`, an action property |

All three follow from `IInv == (Negotiating \/ Answering) /\ Ordered /\ Quiet`. None
of them is inductive: they speak of what has been said, and what will be said is
in `todo`. `Negotiating` lists the ends of conversations that can be left before
the method is known. `Answering` says that afterwards `todo` is the end of a
script in which contents come behind an OK, a `put` of a text or of files behind the
`close`, the acknowledgement and what was received, and nothing but a rejection is left if the configuration does not
serve the method. `Ordered` and `Quiet` relate the rest of the script to what is in
`sent` and to the socket.

### Sending files

| Theorem | Property |
|---|---|
| `ReplyIsFramedHolds` | `ReplyIsFramed`, if files do not grow: `"grow" \notin Others` |
| `UntouchedFilesArriveHolds` | `UntouchedFilesArrive`, with files that grow as well |

The premise of the first is needed: `DownloadGrows` violates the property without
it. What it adds to the invariant is `Measured`: the open file is not longer, from
the position on, than what is left to be sent of it.

For the second, the invariant says of each path that is due, that is below a
copied path that has been reached, left alone and within the limits, that it is
listed or still pending: some frame of the stack has on the way to it a name that
`readdir()` has not returned yet (`Pending`). This stands only with `Alive` (the
directories above a path that nobody touches are there, so they can be opened)
and `Deep` (a frame's depth is its place in the stack, so the depth limit cuts
only what `Wanted` leaves out). `AsListed` and `Walked` carry the list into what is
sent. That two files have different names is a fact about sequences: a name is
what is left of the path behind the common directory.

### Receiving files

| Theorem | Property |
|---|---|
| `UsersFilesKeptHolds` | `UsersFilesKept`, also for sessions that share names |
| `VisibleFilesAreWholeHolds` | `VisibleFilesAreWhole` |
| `DeliveredHolds` | `Delivered` |
| `AcknowledgedFilesKeptHolds` | `AcknowledgedFilesKept` |

`UsersFilesKeptHolds` proves `UsersFilesKept` for every number of sessions, every
set of requests and every content of the working directory, with sessions killed
anywhere. The look for a free name and the creation are steps of their own, and
between them other sessions create and move files. `Kept` therefore says where the
user's files are *and that they are nowhere else*: no step creates one in a new
place, so a place that was seen free stays free of them (`Free`), also when another
session takes it meanwhile. `Staged` says for each label of a session that what it
is about to write, move or remove is free in this sense. The file system calls are
reduced to one fact, `Harmless`, that the steps of every session share: what
disappears or is replaced was free, and what appears is not the user's. For
`rename()` of a directory this rests on what moving does to paths (`Moved`).

The next three theorems share `SInv == IInv /\ Shaped /\ Rooted /\ Separate`. `Rooted` says
that every path has the directories above it, whatever the sessions do to each
other; it is the half of `VisibleFilesAreWhole` that has no premise. `Separate`
speaks of sessions that share no name, as the premise `~Overlap` of the properties
says; since names are only ever added, a behaviour without an overlap now had none
before. It follows an upload through its session: what a session has made is
below a name of its own (`Owned`), a name with one of its bases or its temporary
directory; what it has received is whole, unless `fclose()` has lost its end, and where
the label says it is, in the
temporary directory or below a name that has been moved (`HoldsAt`); as long as
`moved` stands, none of it is left in the temporary directory at the end; an
acknowledgement covers all of it and survives every failure and kill; what is
visible is whole, or is the file that version 1 is writing (`ShownAt`). A step of
another session leaves all of this alone because what it touches is below its own
names. The exception `lost` of the three properties is what the code does: without
it `UploadConcurrent` violates them.

### X11 clipboard

| Theorem | Property |
|---|---|
| `PasteIsTheTextHolds` | `PasteIsTheText` |
| `NobodyIsLeftHalfwayHolds` | `NobodyIsLeftHalfway` |

Both from `XSelectionAssumption` alone, for any number of requestors, all lengths and
sizes of chunks, with requestors killed and the selection lost at any moment. The
properties except behaviours in which transfers have crossed, so what is inductive is
`crossed \/ IInv`, with `IInv == Typed /\ Turns /\ Transfer /\ \A r : Phase(r)`: `crossed`
never becomes false again. `Phase` says that each requestor is with the owner in one
of eight phases: `Idle`, `Asked`, `Refusal`, `Answered`, `Waiting`, `Sending`, `Over`,
`Gone`. A phase fixes the requestor's events, its property, what the owner has yet to
read of it (at most one request, at most one deletion) and, while a text goes in
chunks, that what has been received together with what is in the property is the
text up to the owner's position. `Turns` and `Transfer` say that a transfer has the
owner for itself, which is what makes the owner's test of the event alone enough.
`Leaving` says that the owner leaves with no transfer under way and that no request
is in its queue behind the loss of the selection, so whoever waits then has the rest,
or the answer of another program, to read. `Chunks` is the lemma that the chunks
make up the text.

### Web server and headless clipboard

| Theorem | Property |
|---|---|
| `PostedTextIsTheBodyHolds` | `PostedTextIsTheBody` |
| `ServedTextIsTextHolds` | `ServedTextIsText` |
| `ClipboardIsWholeHolds` | `ClipboardIsWhole` |

`Answered` relates the place of a request to what was read of it: whoever is
putting has read all that was announced, whether the client has sent less so far, or
more, of which the rest stays unread. `Served` says that every block in the file,
and in a reader's buffer, is a hole or was acknowledged, which no overlap of
writers can break. `Committed` says that as long as writers have not overlapped, the
one that writes is the last and the type is empty while it does, so that a type
`TEXT` means a text that is complete; `Undisturbed` carries this to a reader, whose
measured size and blocks are those of the file until a writer comes.

### Configuration

| Theorem | Property |
|---|---|
| `OptionsInForceHolds` | `OptionsInForce` |
| `ServersAsConfiguredHolds` | `ServersAsConfigured` |

`AlgorithmProofs` proves both for every configuration file, every command line and
all sizes of the integers, also where `get_client_list()` appends names until the
memory is used up. The properties speak of the last line with a key and of what the
program has become at the end; `ConfigInv` connects the two. `Held` says, while
lines are read, that an option is unset if no line has its key, and is otherwise
among the results of its last line, none of which is an error; `Refused` that the
program has stopped at a line only for a reason in that line. That the last line of a
key exists is an invariant as well (`LastKnown`), as each line that is read is the
last one so far. The arithmetic is in `SetInt64Is`, `SetUint32Is` and `SetUint16Is`:
comparing with the quotient of the limit and the factor of the suffix is the same as
comparing the product with the limit (`DivBound`), so that no product that is kept
wraps around. `Needed` and `Counting` say that a client that is counted is in the file, or
in a loop that does not end. The attempt to prove `NumbersMeanWhatTheySay` showed
that it was stated too widely: a build without TLS stops in secure mode after the
versions were clamped, which is an error although they no longer are what the file
says. It now speaks of the stops at a line.

### Sizes and line ends

| Theorem | Property |
|---|---|
| `RoundTripHolds` | `RoundTrip` |
| `LinesConvertedHolds` | `LinesConverted` |

`AlgorithmProofs` proves both from `ConversionsAssumption`, for every width of a size and
every size of that width, and for every text. Neither property is stated by a recursion:
the bytes of a size are digits of quotients, and the place of a character is its old one
less (LF) or plus (CRLF) the number of CRs that go or come up to it (`UpTo`). So each turn
of a loop can be compared with the property without induction over the data.

`SizeInv` says what the loop has done so far. While a size is sent, what is left of it
is the quotient by a power of the base, and the bytes behind are the digits; while it
is read, the value is the quotient by what is still to come, modulo what has been read. The
last is below half of the word before the last byte, so that only this byte can
set the sign, where the remainder becomes the size again (`SignedRemainder`). The
lemmas are that quotients nest and that a remainder grows by a digit (`NestedDivision`,
`NextRemainder`).

`LinesInv` says for LF (`Shrinking`) that the index written is behind the one read by the CRs
that have gone, and for CRLF (`Growing`) that it is ahead by the CRs still to come,
the difference being at least 1 at an LF that wants a CR; that what is still to be read
is as it was; and that each character that has been moved is in its place. Since places
are strictly monotone (`Places` for CRLF), no write hits what is still to be
read or what is already in place.

### What stays with TLC

- Liveness under fairness (`Answered`, `ZombiesReaped` and all other temporal
  formulas but the action properties), which the prover does not do.
- `HeadlessHoldsTheLastUpload` of `Upload`, which speaks of the exact tree.
- `PathsDecoded` of `Conversions`: the URL of a path and the path of a URL are
  concatenations over data of any length, about which nothing can be said without
  induction over the data.
- The premise `~Overlap`: what `Upload` does to sessions that share names is in
  the run `UploadOverwrites`.

## 6. Where the code and its documents disagree

| Run | What happens |
|---|---|
| `UploadOverwrites` | two sessions find one name free, and the file of the first is replaced |
| `DownloadGrows` | a file that grows is sent with more bytes than announced |
| `BlankLine` | a blank line in the file of the allowed clients keeps the start in a loop that appends the last name until the memory is used up |

The passing runs exclude these: `Overlap` in the properties of `Upload`,
growing files in `DownloadChanging`, and the return of `get_client_list()` in
`Algorithms`, which has blank lines and speaks of what follows if it returns.

The models also reach the following. Most of it is named in a property of a passing
run as an exception, without which that run fails; the rest is excluded by a
constant or a premise:

- `lost` in `Upload`: the result of `fclose()`, which writes what stdio still keeps
  of a file, is not looked at (`methods.c:387`). On a full disk the file stays short
  under its final name, the session reports success, and version 4 acknowledges it,
  although `docs/proto_v4.html:220` lets the acknowledgement tell that the files were
  processed.
- `crossed` in `XSelection`: a session asks for a long text that is on its way to
  another one. `xcin()` takes the deletion that ends one transfer for the first of the
  next (`xclib.c:379`), and the second session takes a chunk for the whole text; a
  request that comes within a transfer is dropped and never answered (`xclib.c:375`).
- `late` in `Startup`: the old listener needs more than the 5 ms of
  `kill_others.c:110`, `bind()` fails, and a restart leaves no server, where
  `kill_others.c:108` says "wait for terminated processes to exit" and the program's
  `README.md:282` that `-r` restarts the server.
- `TakesMore` in `Config`: `set_int64()` promises 1 to 2^61-1 (`config.c:156`) and
  takes up to 2^63-1 without a suffix, as the program's `README.md:368` has it;
  `set_uint16()` promises 1 to 65535 (`config.c:240`) and takes 0.
- `met` in `Startup`: two restarts, or a restart and a stop, signal each other during
  their walks, both end, and no server is left, or the old one stays:
  `RestartedServerRuns` and `StopStops` fail without `met`.
- `received = "empty"` in `Session`: a text that begins with a NUL is valid UTF-8 and
  is acknowledged, but has length 0 after `convert_eol()` and never reaches the
  clipboard (`methods.c:182`); `AcknowledgedTextArrives` speaks of the others.
- `moved` in `Upload`: `_send_files_dirs()` returns EXIT_SUCCESS when
  `clean_temp_dir()` has failed and returned NULL (`methods.c:749`-`760`), with files
  left in the temporary directory: the second half of `Delivered` fails without it.
- `pc = "dead"` and `rejected` in `Listener`: a TLS client that goes away within the
  handshake can end the listener, for which `main.c` installs no handler of SIGPIPE,
  and each rejected certificate costs a descriptor (`net_utils.c:528`): `Answered` has
  both as its exceptions.
- Silence in `XSelection` and `Session`: a program that owns the selection and does
  not answer keeps `xcout()` waiting, and a requestor that is killed within a long
  text keeps the owner in its transfer (`Abandoned`), each with its slot.
- Two looks at the clipboard in `Session`: `get_any_v4()` reads the type and
  then the contents; if another program copies something of another type in
  between, the answer is NO_DATA although there was data to send all the time.
- `races` in `Listener`: without `races` in `CounterExact` the run fails for
  gcc's counter, which loses a decrement of the handler, and with it a slot, for
  good; without `Missed` in `SessionLimit` it fails for threads, whose lost
  increments let in a session more than the limit, each of them for good.
- `raced` in `Web`: two processes that put texts at once, or a text and files,
  leave a clipboard of one's type and the other's or a mixed text:
  `TypeIsCommit` fails without that premise, `UndisturbedGet` without
  `disturbed`.
- `unnoticed` in `Web`: `put_clipboard_text()` does not look at the result of
  `fclose()`, so a disk that is full when stdio writes its last block leaves a
  text that is cut, under the type `TEXT` (`utils.c:1106`).
- `RequestEnds` in `Web` speaks of requests whose headers have arrived. With
  fewer, the loop of `clip_share_web.c:127` never ends, also after the client
  has gone, where `recv()` returns 0 at once: `cnt` is tested for 0
  (`clip_share_web.c:135`) and nothing in the loop changes it.
- `Honest` in `Config`: `strtoull()` takes a minus sign, so that a value near
  -2^64 becomes a small positive one and is accepted, and numbers of 2^63 and
  more become negative, which passes the check against "too large" of a suffix;
  the product then overflows.
- `VersionsInForce` asks nothing if the file's two versions are not a range: the
  code then serves all versions from the minimum on, silently.
- `Len(Urls[i]) <= MaxName` in `PathsDecoded`: `strnlen()` stops at
  `MAX_FILE_NAME_LEN`, so a path whose URL is longer (681 bytes that need an
  escape are enough) makes the loop go on within that URL, and all files behind
  it are lost (`utils.c:399` and `utils.c:708`). The same bound of `MAX_URL_LEN`
  cuts what the server itself copies.
- `Urls[i] # FilePrefix` there: `url_decode()` of a bare `file://` takes its
  terminator for a character and decodes what follows it (`utils.c:944`).

By reading only: `check_method_enabled()` runs before the switch over the
methods of a version (`versions.c:86`), so a disabled method is answered
METHOD_NOT_IMPLEMENTED also in a version that does not have it, although
`docs/proto_v1.html:138` reserves that answer for valid codes. `Session` follows
the code. The configuration is parsed before the command line (`main.c:703`), so
with an invalid file the server cannot even be stopped with `-s`.

## 7. What is not modelled

- Data: texts, images and names are members of small sets. Wording, logs, debug
  output and memory management are left out.
- OpenSSL, X11 toolkits, PNG encoders: libraries. Their outcomes are choices.
- The UDP scan (one stateless answer), the tray icon, the error log, the loading
  of Windows libraries, the clipboards of macOS and Windows.
- The accept loop of the web server, which has no limit, and its builds with a
  display; GET /img, which in a headless build is answered like an unknown path.
- Keys of the configuration that are treated like a modelled one, addresses, the
  server name, the working directory. A configuration line longer than the
  buffer, and one with a zero in it.
- UTF-8 checks: a library function, whose outcome is a choice.
- The reuse of process numbers in `Startup`, and of inode numbers in the trees.
- A client that sends a directory name with a path that the validity checks
  refuse: the refusal is one outcome of receiving an entry.

## 8. The plan

1. A composition of `Listener` with the owner of the selection: slots that are
   held until another program copies something.
2. `XSelection` with a third requestor, and the TARGETS reply.
3. An abstract reliable byte stream that `SockIO` implements, and an abstract
   register of texts for `HeadlessClipboard` with one writer at a time.

Proofs: every safety property that a passing run checks is proved, except two.
`HeadlessHoldsTheLastUpload` needs an invariant that gives the whole tree at each label
of a session that runs alone, and `PathsDecoded` a definition that counts positions, as
that of `LinesConverted` does.
