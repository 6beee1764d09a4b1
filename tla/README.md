# Formal model of the BadSMTP session and server

This directory holds the TLA+ model of BadSMTP:
* the SMTP session (`src/server/session.go` with `src/smtp/state.go`,
  `src/smtp/errors.go` and the command table in `src/unnamed/part_013`);
* the server around it (`src/server/server.go`: listeners, the session
  registry, `Shutdown`) together with `Session.CloseWith421`;
* the size arithmetic of `handleBdat` in Go's wrapping ints.

It also holds the TLC configurations that check the model and the TLAPS
proofs about it.

## The system and its parts

BadSMTP is a test SMTP server. It listens on several ports, and each port has
a behaviour: normal, implicit TLS, a delayed greeting, or dropping the
connection. Each accepted connection gets one `Session`, and one goroutine runs
it:

* `Handle` greets the client and then runs `runCommandLoop`. The greeting
  depends on the port behaviour computed by `Config.AnalysePortBehaviour`.
* The loop reads a line. It then peeks for 10 ms (`detectPipelining`) to decide
  whether the client is pipelining.
* It then calls `handleCommand`, which does three things:
  * checks `IsAllowedInState`;
  * flushes the response queue before a "breaking" command (DATA, BDAT, AUTH,
    STARTTLS, QUIT);
  * dispatches to a handler (`handleHelo`, `handleMail`, `handleBdat`, ...).
* Handlers answer through `writeResponse`. In pipelining mode it queues the
  response in `responseQueue`, except for a 421: that flushes the queue, is
  written and ends the session.
* The client chooses the server's misbehaviour through the data it sends:
  * A hostname label such as `size500-nopipelining` sets the capabilities.
  * A local part such as `data451@` or `rset450@` schedules an error code for
    a later verb. The session records it in its `*ErrorResult` fields.
  * Handlers answer a scheduled error instead of doing their work.
* DATA reads the body until the terminating dot (`readMessageContent`) and
  stores it (`storeMessage`). BDAT reads a chunk of n bytes into `bdatBuffer`
  and stores the buffer on LAST.

`Server.Start` runs one goroutine per port. Each calls `net.Listen`,
registers the listener (`addListener`) and accepts. Every accepted connection
gets a goroutine that registers its session (`registerSession`: map entry and
`sessionsWG.Add(1)`), runs `Handle`, and unregisters it (`sessionsWG.Done()`).
A signal goroutine calls `Shutdown`, which:
1. sets `shuttingDown` by CAS and closes the listeners it finds
   (`closeAllListeners`); their accept loops then exit;
2. returns at once when `activeSessionCount()` is 0;
3. otherwise takes `activeSessionSnapshot()` and starts one goroutine per
   session that runs `CloseWith421`: flush `responseQueue`, write
   `421 Server shutting down`, close the connection;
4. waits on `sessionsWG` or the context deadline.

`CloseWith421` runs on its own goroutine while the session goroutine keeps
reading, queueing and writing. No lock protects the queue or the connection.

Components that are not modelled:
* TLS listener setup, certificates and `extractHostname`;
* the message store on disk;
* the CLI.

The `components` list of `PROJECT.json` gives the reason for each.

## Modules

| module | contents |
|---|---|
| `Session.tla` | one connection: the client, the TCP stream, the session goroutine, and the stored messages |
| `MCSession.tla` | the small constant values TLC uses: hostnames, mailboxes, and the client's command groups |
| `SessionProofs.tla` | type correctness, proved (`TypeCorrect`) |
| `WriterProofs.tla` | the response-queue invariant, proved (`QueueInvariant`) |
| `Server.tla` | the listener goroutines, the registry and WaitGroup, `Shutdown`, the session goroutines seen from outside, and the `CloseWith421` hooks |
| `MCServer.tla` | model values for listeners and connections |
| `ServerProofs.tla` | the registry invariant and the server's type, proved (`WaitCoversNotified`, `ServerTypeCorrect`) |
| `OrderProofs.tla` | reply order and nothing after a 421, proved (`RepliesInOrder`, `NoResponseAfter421`) |
| `StoreProofs.tla` | what is stored: no DATA error, one transaction's envelope, proved (`NoDataErrorStored`, `StoredEnvelopeSameTxn`) |
| `BdatSize.tla` | `handleBdat`'s size check and buffer in `IntWidth`-bit ints |

### State

`Session` keeps the fields of `Session` that the handlers read or write, under
their own names:
* `state`, `pipeliningMode`, `responseQueue`, `authenticated`, `mailFrom`,
  `rcptTo`;
* `capPipelining` and `capUTF8` (the capabilities);
* `advertisedSize`;
* `pending` (the `*ErrorResult` fields, one per deferred verb);
* `bdatLen` and `bdatTxns` (the length of `bdatBuffer` and the transactions
  whose bytes it holds);
* `tlsActive`;
* `readerTLS`, which records whether `connReader` wraps the TLS connection.

The connection is modelled by four variables:
* `inbox` holds the client bytes not yet read, one item per line or chunk.
* `wire` holds the responses written.
* `phase` tells whether the session is greeting, reading a command line,
  reading a DATA body, or closed.
* `rcvd` is the line counter. Each response carries the number of the line it
  answers.

Data is abstracted to what the properties tell apart:
* A hostname is the record of what `parseCapabilityLabel`, `hasCapability` and
  `parseAndClampSize` read from it.
* A mailbox is its syntax class (ASCII, UTF-8, invalid) plus the verb and code
  of its error pattern (`parsePrefixedError`).
* A message is its envelope plus the set of client transactions whose bytes it
  contains.

### Actions

`Receive` is one iteration of `runCommandLoop`:
1. read the next line;
2. the pipelining peek (`MoreBuffered`, `PM1`);
3. the admission check and the breaking-command flush (`Admitted`, `Brk`, `PM`,
   `Q`, `W`);
4. the handler, chosen as one disjunct:
   * `Reject` (refused by the state table);
   * `Helo` (HELO/EHLO);
   * `Auth`, `Mail`, `Rcpt`, `Data`, `Bdat`, `Rset`, `Noop`, `Vrfy`, `StartTLS`,
     `Quit`.

Each handler is translated as a whole:
* its early returns on scheduled errors;
* the calls to `resetSessionState`, which is `ResetTxn`;
* the write through `writeResponse`, which is `Reply`/`Answer` and includes the
  421 close.

The session goroutine has these other actions:
* `Greet` is `setupSessionBehaviourAndGreet`.
* `DataBody` is `readMessageContent` followed by either `storeMessage` or
  `handleStorageError`. DATA is a handler that blocks on the body, so it is
  split into two steps.
* `SessionEOF` is the EOF branch of the loop.

The client's actions are `ClientSend` (it writes one of the `Groups` as a
burst) and `ClientClose`. `Terminated` is the stutter after `Handle` has
returned.

## Runs

All runs use `MCSession` with `MaxTxn = 2`, and `MaxGroups` set to 3 or 4. The
client therefore writes up to four bursts in up to two transactions. This is
enough for every hazard listed in `PROJECT.json`:
* a pipelined group, then a new group while replies are queued;
* a transaction abandoned by RSET, then a second transaction;
* a BDAT chunk refused, then the bytes that follow it.

`BodySizes` = {100, 2000} puts one DATA body over a 1000-byte advertised SIZE.
`ChunkSizes` = {600} makes two chunks exceed it.

| run | checks | result |
|---|---|---|
| `session` (`MCSession.cfg`) | `TypeOK`, `NothingAfter421`, `ResponsesInOrder`, `QueueOnlyInPipelining`, `StoredRecipientsSameTxn`, `NoDeliveryWithDataError` | pass |
| `commands` (`MCSessionCmds.cfg`) | `ResponsesInOrder`, `QueueOnlyInPipelining`, `StoredRecipientsSameTxn`, on the normal, implicit-TLS and drop ports, with an RSET refused by a scheduled error after a recipient | pass |
| `stall` | `NoStalledReplies` | violated |
| `bdat_leak` | `BdatIsolation` | violated |
| `chunk_parsed` | `ChunkBytesNeverParsed` | violated |
| `starttls_reader` | `CommandsReadThroughTLS` | violated |
| `data_wedge` | `DataStateOnlyWhileReading` | violated |
| `transitions` | `TransitionsInTable` | violated |

The passing runs show four things:
* Responses reach the client in the order of the lines they answer. This holds
  across the pipelining queue, the flush before breaking commands, and the 421
  that ends a pipelined session.
* Nothing is written after a 421.
* The queue is non-empty only in pipelining mode.
* A stored message names no recipient given in a transaction earlier than its
  sender's. It never has a sender that scheduled a DATA error. The
  `commands` run checks the first of these across an RSET refused by a
  scheduled error. `handleRset` keeps the whole envelope and the state
  there, so a later MAIL FROM is refused and cannot start a transaction
  that carries the old recipients.
* The type invariant is checked once, in the `session` run. It is also
  proved.

Each violation run is a disagreement between the code and what the spec, a
comment or the RFC says. The `findings` of `PROJECT.json` describe each one:
* A pipelined group ending in NOOP stalls with its replies queued.
* `bdatBuffer` survives RSET and failed transactions.
* A refused BDAT leaves its chunk to be parsed as commands.
* After STARTTLS, commands are still read through the plaintext reader.
* A storage failure leaves the session in the DATA state while it reads
  commands. `DataStateOnlyWhileReading` allows DATA together with a closed
  connection, so the harmless close after an oversize body does not count.
* The handlers make transitions the state table forbids.

For every property of a passing run, `PROJECT.json` names a mutant: a plausible
bug in the mapped code that TLC detects. Examples: dropping the SIZE minimum, a
421 that skips the queue, keeping pipelining mode across a breaking command,
RSET keeping the recipients, and a refused RSET that still returns to the
MAIL state.

### Fairness

`Session` assumes no fairness. The one "eventually" the code should guarantee
there is that queued replies are sent before the session blocks. It fails even
as a safety property (`NoStalledReplies`), so no fairness assumption could
rescue it.

`Server` assumes weak fairness of every goroutine step that can run without
the client:
* `Start`, and each listener's `Listen` and `AcceptClosed`;
* the steps of `Shutdown` (`ShutdownStep`). Its context deadline is a timer,
  so `Deadline` is among them;
* per connection, `RegisterSession`, `UnregisterSession`, the session steps
  that need no input (`SessionStep`), and the hook steps (`HookStep`).

The Go scheduler runs every runnable goroutine eventually, which justifies
this. The client (`ReadCommand`, `ClientQuit`), new connections (`Accept`) and
the signal are not fair: nothing obliges them to happen.

## The server model

`Server.tla` keeps one program counter per goroutine:
* `startPc` for `Start`;
* `lpc` for the listener goroutines;
* `cpc` for each connection goroutine: idle, accepted, live, exit, done;
* `shpc` for `Shutdown`;
* `spc` for the session goroutine;
* `hpc` for the `CloseWith421` goroutine.

The registry is `sessions` and the WaitGroup counter is `wg`. A session is
abstracted to what the hook shares with it:
* `pm` (pipeliningMode);
* `queue` (responseQueue), as reply numbers;
* `wire` (what the client reads);
* `closed` (the connection).

Reply i is the number i, and `Shut` (0) is the 421. Both flushes capture the
slice once (`ssnap`/`hsnap`, as a Go `range` does) and write it one element
per step. Each then sets `queue` to nil, so the model reaches:
* duplicated writes;
* the append lost by `= nil`;
* a session write after the 421.

`Listen` either registers a listener or fails (port in use) and returns. The
close of a listener is seen by its accept loop as `AcceptClosed`
(`removeListener`).

`MaxReplies` bounds, per connection, how many replies its session produces
(the greeting included). The passing run `server_shutdown` has one listener
and two connections, with 277,501 states:
* c1 may produce 3 replies. It can queue a pipelined reply and then flush it
  before a breaking command, racing the hook's flush.
* c2 only greets. It is there so that a snapshot can hold one session and
  miss the other.

Each violation run uses c1 alone.

| run | checks | result |
|---|---|---|
| `server_shutdown` (`MCServer.cfg`) | `TypeOK`, `AllClosedMeansNotifiedDone`, `NotifiedSessionsEnd` | pass |
| `shutdown_wire` | `ShutdownWireInOrder` | violated |
| `shutdown_complete` | `ShutdownCompleteClosesAll` | violated |

The passing run shows two things:
* `AllClosedMeansNotifiedDone`: when `Wait` returns, every session that was
  sent a 421 has been unregistered. The counter tracks the registry exactly.
* `NotifiedSessionsEnd` (liveness): every session in the snapshot ends, even
  one blocked reading a silent client, because the hook closes its connection.

The violations are findings:
* The 421 can be followed by the greeting or a reply, and a queued reply can
  be written twice.
* `Shutdown` can report completion while an accepted connection, not yet
  registered, is served without a 421.
  The same run also reaches a listener that registers after
  `closeAllListeners` copied the list. That listener keeps accepting after
  `Shutdown` returned.

One more defect is recorded as a hazard rather than a run: `Start` never
returns after shutdown, because it blocks on `<-make(chan struct{})`, which
nothing can close. The model's `Start` likewise never returns.

## BDAT size arithmetic

`BdatSize.tla` models `handleBdat`'s check `totalSoFar+n > maxSize` in Go's
int. `GoAdd` wraps modulo `2^IntWidth`. TLC's integers are 32-bit, so the run
uses `IntWidth = 30` in place of 64. The overflow has the same shape at any
width: one byte buffered, then n = the largest int. Run `bdat_overflow` finds
`BufferWithinSize` violated: the sum wraps negative, the chunk is accepted, and
`readBDATChunk` calls `make([]byte, n)`. On a 64-bit build that panics, and no
`recover` exists, so the whole server process dies.

The model starts where `handleMail` leaves a fresh session: state RCPT, an
empty `bdatBuffer`, and a DATA error that may or may not be scheduled.

## Proofs

Eight theorems are proved, and `tlapm` checks every step:

* `SessionProofs!TypeCorrect: Spec => []TypeOK`. The proof has one lemma per
  action, built on a few facts:
  * `ReplyType` and `AnswerType` (a response written or queued is a
    `Response`);
  * `CmdType` (the line read is an `Item`, or junk after TLS);
  * `ArgTypes` (the argument of each verb has its template's type);
  * `ResetValues` (`resetSessionState` yields typed values).

  `TypeOK` includes the clamp of `advertisedSize` into 1000..10000000, so the
  theorem also shows that `parseAndClampSize` can never advertise a SIZE
  outside those bounds.
* `WriterProofs!QueueInvariant: Spec => []QueueOnlyInPipelining`. The inductive
  invariant is `TypeOK /\ QueueOnlyInPipelining`. `TypeOK` is needed because
  the proof uses the types of the queue and of the codes. The argument:
  * `ReplyQueue`/`AnswerQueue`: a reply queues only when pipelining mode is
    on.
  * A breaking command empties the queue and leaves pipelining mode (`Q`,
    `PM`) before it answers.
  * DATA is breaking, so when it switches to the body phase the queue is empty
    and its 354 is the last response written.
  * `CmdAnswered` captures each handler's shape. Every handler except DATA
    answers with a command-phase reply or closes.

* `ServerProofs!WaitCoversNotified: Spec => []AllClosedMeansNotifiedDone`.
  The inductive invariant `RegInv` says:
  * the registry is exactly the connections whose goroutine is live or
    exiting (`sessions = Live(cpc)`);
  * the WaitGroup counter is its cardinality;
  * the snapshot holds only registered or finished connections;
  * a Shutdown result is set only when `Shutdown` is done.

  The property alone is not inductive: `wg = 0` implies that no hooked session
  is still live only through the equation between counter and registry. There
  is one lemma per kind of step. Register and unregister use `FS_AddElement`
  and `FS_RemoveElement`, and a finite `Conns` keeps the registry finite. The
  proof holds for any finite sets of listeners and connections and any
  `MaxReplies`.

* `OrderProofs!RepliesInOrder: Spec => []ResponsesInOrder` and
  `OrderProofs!NoResponseAfter421: Spec => []NothingAfter421`. Both rest on
  one sequence, `All`: what was written (`wire`) followed by what is still
  queued (`responseQueue`). The inductive invariant `OInv` extends the
  `QueueInvariant` one with three facts:
  * `CmdBound`: every response in `All` answers a line already read;
  * `Inv421`: a 421 is the last element of `All`, nothing is queued behind
    it, and the session has stopped;
  * `GreetEmpty`: nothing is written before the greeting.

  Each path of `writeResponse` (queue, flush then 421, write) appends exactly
  its response to `All`. The flush before a breaking command moves responses
  from the queue to the wire and leaves `All` as it is. The lemma `WriteStep`
  says that such an append, of a response to the line just read, keeps the
  invariant. Each handler cites it through the `Writes` predicate.
* `StoreProofs!NoDataErrorStored: Spec => []NoDeliveryWithDataError` and
  `StoreProofs!StoredEnvelopeSameTxn: Spec => []StoredRecipientsSameTxn`.
  Neither property is inductive: `storeMessage` and the last BDAT chunk store
  the envelope as it stands. The invariant `SInv` therefore says what the
  envelope is whenever a store can happen:
  * `BodyClean`: while DATA reads a body, no DATA error is pending and the
    state is DATA;
  * `DataPending`: a DATA error is pending whenever the sender asks for one;
  * `SenderSet`, `RcptAfterMail`, `NoRcptOutside`: after MAIL FROM the
    sender is set and every recipient came no earlier than it; before MAIL
    FROM there are no recipients.

  A RCPT TO line's transaction is compared with the sender's. So `SInv` also
  says how the client tags the lines still in the stream (`InboxSorted`,
  `InboxTagged`): in order, none older than the current sender, none past the
  client's count, and no MAIL FROM with transaction 0. There is one lemma per
  handler.

  `DataPending` needs `NoError` (a nil `*smtp.ErrorResult`) to differ from
  every code a sender can schedule. `parsePrefixedError` parses exactly three
  digits, so `ConstantsAssumption` takes codes in 0..999 and `NoError` is
  1000.
* `ServerProofs!ServerTypeCorrect: Spec => []TypeOK`, for the server model.
  `TypeOK` includes `wg \in Nat`, so the theorem shows that the sessions
  WaitGroup is never decremented below zero. That is true only because the
  counter equals the size of the registry, so the inductive invariant `TInv`
  contains `RegInv` and reuses its proof. `TInv` adds two facts:
  * `ReplyBound`: a session about to flush or reply has produced fewer
    replies than its bound, so the reply numbers stay lines;
  * `IndexOK`: the loop indices of both `flushResponses` start at 1.

  There is one lemma per group of steps. The writes on a closed connection
  (`HandleReturns`) are a case of their own.

The Session proofs (`SessionProofs`, `WriterProofs`, `OrderProofs`,
`StoreProofs`) hold for all values of the constants, under the
`ConstantsAssumption` of `Session`:
* finite sets of hostnames, addresses and groups of well-formed items;
* codes in 0..999;
* natural bounds.

The Server proofs hold under `ServerAssumption`: finite sets of listeners
and connections, and a positive reply bound per connection.

Every safety invariant of a passing run is now proved. Only TLC checks these:
* the properties the violation runs refute (`ShutdownWireInOrder`,
  `NoStalledReplies` and the others). They do not hold, so there is nothing
  to prove. TLC's counterexamples are the findings;
* anything about liveness (`NotifiedSessionsEnd`). TLAPS here does not prove
  liveness or reason about ENABLED.

## Not modelled

* **The server's TLS and hostname code.** This covers `tls.Listen`, certificate
  loading and `extractHostname`. They are I/O with no concurrency of their
  own.
* **The session's commands inside `Server`.** `Server` abstracts the session
  to its replies, its queue and its writes. The commands themselves are
  modelled in `Session`.
* **The message store and the CLI.**
