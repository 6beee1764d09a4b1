------------------------------ MODULE Session ------------------------------
(***************************************************************************)
(* One SMTP connection of BadSMTP: the loop of server/session.go          *)
(* (Handle, runCommandLoop, handleCommand), the command handlers it        *)
(* dispatches to, the response writer with its pipelining queue, and the  *)
(* client on the other end of the TCP stream.                              *)
(*                                                                         *)
(* The session is one goroutine, so a command is read, checked, handled    *)
(* and answered in one step.  Data is abstracted: a hostname is the record *)
(* of what the session reads from its capability label, a mailbox is its   *)
(* syntax class and its verb-prefixed error pattern, a message is the      *)
(* envelope plus the set of client transactions whose bytes it holds.     *)
(***************************************************************************)
EXTENDS Naturals, Sequences, FiniteSets

\* The last element of a non-empty sequence.
Last(s) == s[Len(s)]

CONSTANTS
    Hostnames,       \* HELO/EHLO arguments the client uses
    Addresses,       \* MAIL FROM / RCPT TO mailboxes the client uses
    Groups,          \* command groups the client writes in one burst
    BodySizes,       \* byte counts of the DATA bodies the client sends
    PortRoles,       \* what AnalysePortBehaviour derived from the listening ports
    ChunkSizes,      \* byte counts of the BDAT chunks the client sends
    MaxMessageSize,  \* server.MaxMessageSize
    MaxGroups,       \* bound: groups the client writes
    MaxTxn           \* bound: MAIL FROM commands the client writes

States == {"GREETING", "HELO", "AUTH", "MAIL", "RCPT", "DATA", "BDAT", "QUIT"}

Verbs == {"HELO", "EHLO", "AUTH", "MAIL", "RCPT", "DATA", "BDAT",
          "RSET", "NOOP", "QUIT", "STARTTLS", "VRFY"}

\* The six commands whose synthetic error MAIL FROM schedules (handleMail).
Deferred == {"data", "rset", "quit", "starttls", "noop", "auth"}

\* Verb prefixes parsePrefixedError can find at the start of a local part.
PatternVerbs == Deferred \cup {"mail", "rcpt", "bdat", "none"}

\* A nil *smtp.ErrorResult.  parsePrefixedError parses exactly three digits,
\* so every scheduled code, 000 included, is in 0..999 and differs from it.
NoError == 1000

Roles == {"normal", "greetingDelay", "dropImmediate", "dropDelay", "implicitTLS"}

HostnameType ==
    [pipelining : BOOLEAN, smtputf8 : BOOLEAN, nosize : BOOLEAN,
     size : Nat, reject : BOOLEAN, code : Nat]

AddressType == [syntax : {"ascii", "utf8", "bad"}, verb : PatternVerbs, code : Nat]

\* The argument a command line of each verb carries; a BDAT line is
\* followed by its chunk.
ArgOf(v) ==
    CASE v \in {"HELO", "EHLO"} -> Hostnames
      [] v \in {"MAIL", "RCPT"} -> Addresses
      [] v = "AUTH" -> {"badmech", "baduser", "gooduser"}
      [] v = "VRFY" -> {"exists", "unknown", "ambiguous", "other", "bad"}
      [] v = "BDAT" -> [size : ChunkSizes, last : BOOLEAN]
      [] OTHER -> {"none"}

\* A command line the client writes, before it is tagged with its
\* transaction.
Template == UNION {[verb : {v}, arg : ArgOf(v), txn : {0}] : v \in Verbs}

ASSUME ConstantsAssumption ==
    /\ Hostnames \subseteq HostnameType
    /\ Addresses \subseteq AddressType
    /\ \A a \in Addresses : a.verb # "none" => a.code \in 0..999
    /\ Groups \subseteq Seq(Template)
    /\ BodySizes \subseteq Nat
    /\ ChunkSizes \subseteq Nat
    /\ PortRoles \subseteq Roles
    /\ MaxMessageSize \in Nat \ {0}
    /\ MaxGroups \in Nat
    /\ MaxTxn \in Nat

\* Bounds on a per-session SIZE from the EHLO hostname (advertisedSizeMin/Max).
AdvertisedSizeMin == 1000
AdvertisedSizeMax == 10000000

\* An empty mailFrom.
NoAddr == [syntax |-> "bad", verb |-> "none", code |-> NoError]
NoSender == [addr |-> NoAddr, txn |-> 0]

\* Bytes of a rejected BDAT chunk left in the stream, or ciphertext read
\* through the plaintext reader: a line that is no SMTP verb.
Junk == [verb |-> "JUNK", arg |-> "none", txn |-> 0]

VARIABLES
    \* the TCP stream and the response writer
    inbox,           \* client bytes not yet read by the session, as items
    wire,            \* responses written to the connection, oldest first
    responseQueue,   \* Session.responseQueue
    pipeliningMode,  \* Session.pipeliningMode
    phase,           \* "greet", "cmd" (reading a line), "body" (DATA), "closed"
    rcvd,            \* lines read so far; a response carries its line's number
    eof,             \* the client has closed its side
    port,            \* the behaviour of the port the client connected to
    \* the session fields
    state, capPipelining, capUTF8, advertisedSize, authenticated,
    mailFrom, rcptTo, pending, bdatLen, bdatTxns, tlsActive, readerTLS,
    \* the message store, and the client's own counters
    stored, clientTxn, sentGroups

connVars == <<inbox, wire, responseQueue, pipeliningMode, phase, rcvd, eof, port>>
sessVars == <<state, capPipelining, capUTF8, advertisedSize, authenticated,
              mailFrom, rcptTo, pending, bdatLen, bdatTxns, tlsActive, readerTLS>>
txnVars == <<mailFrom, rcptTo, pending>>
clientVars == <<clientTxn, sentGroups>>
vars == <<connVars, sessVars, stored, clientVars>>

\* A line in the stream: a command tagged with its transaction, or junk.
Item == UNION {[verb : {v}, arg : ArgOf(v), txn : 0..MaxTxn] : v \in Verbs \cup {"JUNK"}}

Env == [addr : Addresses \cup {NoAddr}, txn : 0..MaxTxn]
Response == [code : Nat, cmd : Nat]

-----------------------------------------------------------------------------
(* Helpers translated from server/session.go and smtp/.                    *)

\* Command.IsAllowedInState (smtp/part_013).
Allowed(v) ==
    CASE v \in {"HELO", "EHLO", "STARTTLS"} -> {"HELO", "MAIL"}
      [] v = "AUTH" -> {"MAIL", "AUTH"}
      [] v = "MAIL" -> {"MAIL"}
      [] v \in {"RCPT", "DATA"} -> {"RCPT"}
      [] v = "BDAT" -> {"RCPT", "BDAT"}
      [] v = "RSET" -> {"HELO", "MAIL", "RCPT", "AUTH"}
      [] v \in {"NOOP", "QUIT"} -> {"HELO", "MAIL", "RCPT", "DATA", "BDAT", "AUTH"}
      [] v = "VRFY" -> States

\* Session.breaksPipelining.
Breaking == {"DATA", "BDAT", "AUTH", "STARTTLS", "QUIT"}

\* Mutant: the lower clamp is lost.
ClampSizeNoMin(v) == IF v > AdvertisedSizeMax THEN AdvertisedSizeMax ELSE v

\* parseAndClampSize on a size<N> part with N > 0.
ClampSize(v) ==
    IF v < AdvertisedSizeMin THEN AdvertisedSizeMin
    ELSE IF v > AdvertisedSizeMax THEN AdvertisedSizeMax ELSE v

\* Session.getMaxMessageSize.
MaxSize == IF advertisedSize > 0 THEN advertisedSize ELSE MaxMessageSize

\* smtp.IsValidMailbox with the session's SMTPUTF8 capability.
ValidMailbox(a) == a.syntax = "ascii" \/ (a.syntax = "utf8" /\ capUTF8)

\* The six Extract*Error calls of handleMail on one address.
PendingFrom(a) == [v \in Deferred |-> IF a.verb = v THEN a.code ELSE NoError]

NoPending == [v \in Deferred |-> NoError]

\* MAIL FROM commands among the first i items of a group.
MailsUpTo(g, i) == Cardinality({j \in 1..i : g[j].verb = "MAIL"})

\* The client tags each item with the transaction it belongs to: the number
\* of the last MAIL FROM it wrote.
Stamp(g) == [i \in 1..Len(g) |-> [g[i] EXCEPT !.txn = clientTxn + MailsUpTo(g, i)]]

-----------------------------------------------------------------------------
(* The line being handled, and what runCommandLoop and handleCommand do    *)
(* before the handler runs.                                                *)

\* After STARTTLS the session keeps reading through the bufio.Reader made on
\* the plaintext connection, so what it reads is ciphertext.
Cmd == IF tlsActive /\ ~readerTLS THEN Junk ELSE Head(inbox)

\* detectPipelining: Peek(1) succeeds when more client bytes are buffered;
\* a BDAT line is followed by its chunk.
MoreBuffered ==
    \/ Tail(inbox) # <<>>
    \/ Head(inbox).verb = "BDAT" /\ Head(inbox).arg.size > 0

PM1 == pipeliningMode \/ (capPipelining /\ MoreBuffered)

\* parseAndLogCommand lets the command through: a known verb, allowed now.
Admitted == Cmd.verb \in Verbs /\ state \in Allowed(Cmd.verb)

\* handleCommand flushes the queue and leaves pipelining mode before a
\* pipelining-breaking command.
Brk == Admitted /\ Cmd.verb \in Breaking

\* Mutant: a breaking command leaves pipelining mode on.
PMKeepMode == PM1

PM == PM1 /\ ~Brk
Q == IF Brk THEN <<>> ELSE responseQueue
W == IF Brk THEN wire \o responseQueue ELSE wire

\* What is left of the stream when a command is refused before its BDAT
\* chunk is read: the chunk's bytes.
Unread == IF Cmd.verb = "BDAT" /\ Cmd.arg.size > 0
          THEN <<Junk>> \o Tail(inbox) ELSE Tail(inbox)

\* Mutant: a 421 is queued like any other response in pipelining mode.
ReplyQueue421(code, n, pm, q, w, ph) ==
    LET r == [code |-> code, cmd |-> n] IN
    /\ pipeliningMode' = pm
    /\ \/ /\ pm
          /\ responseQueue' = Append(q, r)
          /\ wire' = w
          /\ phase' = ph
       \/ /\ ~pm
          /\ wire' = Append(w, r)
          /\ responseQueue' = q
          /\ phase' = IF code = 421 THEN "closed" ELSE ph

\* Mutant: a pipelined 421 is written before the queue is flushed.
Reply421First(code, n, pm, q, w, ph) ==
    LET r == [code |-> code, cmd |-> n] IN
    /\ pipeliningMode' = pm
    /\ \/ /\ pm /\ code # 421
          /\ responseQueue' = Append(q, r)
          /\ wire' = w
          /\ phase' = ph
       \/ /\ pm /\ code = 421
          /\ wire' = (w \o <<r>>) \o q
          /\ responseQueue' = <<>>
          /\ phase' = "closed"
       \/ /\ ~pm
          /\ wire' = Append(w, r)
          /\ responseQueue' = q
          /\ phase' = IF code = 421 THEN "closed" ELSE ph

(* writeResponse of a response with code `code` for line n, with pipelining *)
(* mode pm, queue q and wire w; ph is the phase the handler goes on in.    *)
Reply(code, n, pm, q, w, ph) ==
    LET r == [code |-> code, cmd |-> n] IN
    /\ pipeliningMode' = pm
    /\ \/ /\ pm /\ code # 421
          /\ responseQueue' = Append(q, r)
          /\ wire' = w
          /\ phase' = ph
       \/ /\ pm /\ code = 421
          /\ wire' = (w \o q) \o <<r>>
          /\ responseQueue' = <<>>
          /\ phase' = "closed"
       \/ /\ ~pm
          /\ wire' = Append(w, r)
          /\ responseQueue' = q
          /\ phase' = IF code = 421 THEN "closed" ELSE ph

\* Mutant: a breaking command is answered without flushing the queue first.
AnswerNoFlush(code, ph) == Reply(code, rcvd + 1, PM, responseQueue, wire, ph)

\* The answer to the line being handled.
Answer(code, ph) == Reply(code, rcvd + 1, PM, Q, W, ph)

\* Session.resetSessionState.
ResetTxn ==
    /\ state' = "MAIL"
    /\ rcptTo' = <<>>
    /\ mailFrom' = NoSender
    /\ pending' = NoPending

-----------------------------------------------------------------------------
(* The client.                                                             *)

\* The client writes a group of commands in one burst once the session has
\* read everything it wrote before.
ClientSend ==
    /\ phase = "cmd"
    /\ ~eof
    /\ inbox = <<>>
    /\ sentGroups < MaxGroups
    /\ \E g \in Groups :
          /\ clientTxn + MailsUpTo(g, Len(g)) <= MaxTxn
          /\ inbox' = Stamp(g)
          /\ clientTxn' = clientTxn + MailsUpTo(g, Len(g))
          /\ sentGroups' = sentGroups + 1
    /\ UNCHANGED <<wire, responseQueue, pipeliningMode, phase, rcvd, eof, port, sessVars, stored>>

\* The client closes the connection.
ClientClose ==
    /\ phase # "closed"
    /\ ~eof
    /\ eof' = TRUE
    /\ UNCHANGED <<inbox, wire, responseQueue, pipeliningMode, phase, rcvd, port, sessVars, stored, clientVars>>

-----------------------------------------------------------------------------
(* The session goroutine.                                                  *)

\* setupSessionBehaviourAndGreet: drop ports close without a banner.
Greet ==
    /\ phase = "greet"
    /\ \/ /\ port \in {"dropImmediate", "dropDelay"}
          /\ phase' = "closed"
          /\ UNCHANGED <<wire, state>>
       \/ /\ port \in {"normal", "greetingDelay", "implicitTLS"}
          /\ wire' = <<[code |-> 220, cmd |-> 0]>>
          /\ state' = "HELO"
          /\ phase' = "cmd"
    /\ UNCHANGED <<inbox, responseQueue, pipeliningMode, rcvd, eof, port, capPipelining, capUTF8,
                   advertisedSize, authenticated, txnVars, bdatLen, bdatTxns, tlsActive,
                   readerTLS, stored, clientVars>>

\* runCommandLoop: ReadLine returns io.EOF, or readMessageContent fails.
SessionEOF ==
    /\ phase \in {"cmd", "body"}
    /\ inbox = <<>>
    /\ eof
    /\ phase' = "closed"
    /\ UNCHANGED <<inbox, wire, responseQueue, pipeliningMode, rcvd, eof, port, sessVars, stored, clientVars>>

\* parseAndLogCommand answers an unknown verb with 500 and a verb not
\* allowed in the state with 503; the session goes on.
Reject ==
    /\ ~Admitted
    /\ inbox' = Unread
    /\ Reply(IF Cmd.verb \in Verbs THEN 503 ELSE 500, rcvd + 1, PM1, responseQueue, wire, "cmd")
    /\ UNCHANGED sessVars
    /\ UNCHANGED stored

\* handleHelo and handleEhlo (with buildEhloResponse and
\* addStandardCapabilities).
Helo ==
    /\ Admitted
    /\ Cmd.verb \in {"HELO", "EHLO"}
    /\ inbox' = Tail(inbox)
    /\ LET h == Cmd.arg IN
       \/ /\ state # "HELO"
          /\ Answer(503, "cmd")
          /\ UNCHANGED sessVars
       \/ /\ state = "HELO"
          /\ h.code # NoError
          /\ Answer(h.code, "cmd")
          /\ UNCHANGED sessVars
       \/ /\ state = "HELO"
          /\ h.code = NoError
          /\ state' = "MAIL"
          /\ \/ /\ Cmd.verb = "HELO"
                /\ Answer(250, "cmd")
                /\ UNCHANGED <<capPipelining, capUTF8, advertisedSize>>
             \/ /\ Cmd.verb = "EHLO"
                /\ h.reject
                /\ Answer(502, "cmd")
                /\ UNCHANGED <<capPipelining, capUTF8, advertisedSize>>
             \/ /\ Cmd.verb = "EHLO"
                /\ ~h.reject
                /\ capPipelining' = h.pipelining
                /\ capUTF8' = h.smtputf8
                /\ advertisedSize' = IF ~h.nosize /\ h.size > 0
                                     THEN ClampSize(h.size) ELSE advertisedSize
                /\ Answer(250, "cmd")
          /\ UNCHANGED <<authenticated, txnVars, bdatLen, bdatTxns, tlsActive, readerTLS>>
    /\ UNCHANGED stored

\* handleAuth; the mechanism dialogue is one step (its 334 prompts are
\* written straight to the connection and are left out).
Auth ==
    /\ Admitted
    /\ Cmd.verb = "AUTH"
    /\ inbox' = Tail(inbox)
    /\ \/ /\ pending["auth"] # NoError
          /\ Answer(pending["auth"], "cmd")
          /\ UNCHANGED sessVars
       \/ /\ pending["auth"] = NoError
          /\ Cmd.arg \in {"badmech", "baduser"}
          /\ Answer(IF Cmd.arg = "badmech" THEN 504 ELSE 535, "cmd")
          /\ UNCHANGED sessVars
       \/ /\ pending["auth"] = NoError
          /\ Cmd.arg = "gooduser"
          /\ authenticated' = TRUE
          /\ state' = "MAIL"
          /\ Answer(235, "cmd")
          /\ UNCHANGED <<capPipelining, capUTF8, advertisedSize, txnVars, bdatLen,
                         bdatTxns, tlsActive, readerTLS>>
    /\ UNCHANGED stored

\* handleMail.
Mail ==
    /\ Admitted
    /\ Cmd.verb = "MAIL"
    /\ inbox' = Tail(inbox)
    /\ LET a == Cmd.arg IN
       \/ /\ ~ValidMailbox(a)
          /\ Answer(501, "cmd")
          /\ UNCHANGED sessVars
       \/ /\ ValidMailbox(a)
          /\ a.verb = "mail"
          /\ Answer(a.code, "cmd")
          /\ UNCHANGED sessVars
       \/ /\ ValidMailbox(a)
          /\ a.verb # "mail"
          /\ pending' = PendingFrom(a)
          /\ mailFrom' = [addr |-> a, txn |-> Cmd.txn]
          /\ state' = "RCPT"
          /\ Answer(250, "cmd")
          /\ UNCHANGED <<capPipelining, capUTF8, advertisedSize, authenticated, rcptTo,
                         bdatLen, bdatTxns, tlsActive, readerTLS>>
    /\ UNCHANGED stored

\* handleRcpt.
Rcpt ==
    /\ Admitted
    /\ Cmd.verb = "RCPT"
    /\ inbox' = Tail(inbox)
    /\ LET a == Cmd.arg IN
       \/ /\ ~ValidMailbox(a)
          /\ Answer(501, "cmd")
          /\ UNCHANGED sessVars
       \/ /\ ValidMailbox(a)
          /\ a.verb = "rcpt"
          /\ Answer(a.code, "cmd")
          /\ UNCHANGED sessVars
       \/ /\ ValidMailbox(a)
          /\ a.verb # "rcpt"
          /\ rcptTo' = Append(rcptTo, [addr |-> a, txn |-> Cmd.txn])
          /\ Answer(250, "cmd")
          /\ UNCHANGED <<state, capPipelining, capUTF8, advertisedSize, authenticated,
                         mailFrom, pending, bdatLen, bdatTxns, tlsActive, readerTLS>>
    /\ UNCHANGED stored

\* Mutant: DATA ignores the error MAIL FROM scheduled.
DataNoPending ==
    /\ Admitted
    /\ Cmd.verb = "DATA"
    /\ inbox' = Tail(inbox)
    /\ state' = "DATA"
    /\ Answer(354, "body")
    /\ UNCHANGED <<capPipelining, capUTF8, advertisedSize, authenticated, txnVars,
                   bdatLen, bdatTxns, tlsActive, readerTLS>>
    /\ UNCHANGED stored

\* handleData up to the 354; the body is read by DataBody.
Data ==
    /\ Admitted
    /\ Cmd.verb = "DATA"
    /\ inbox' = Tail(inbox)
    /\ \/ /\ pending["data"] # NoError
          /\ Answer(pending["data"], "cmd")
          /\ UNCHANGED sessVars
       \/ /\ pending["data"] = NoError
          /\ state' = "DATA"
          /\ Answer(354, "body")
          /\ UNCHANGED <<capPipelining, capUTF8, advertisedSize, authenticated, txnVars,
                         bdatLen, bdatTxns, tlsActive, readerTLS>>
    /\ UNCHANGED stored

\* handleData after the 354: readMessageContent, storeMessage, then
\* resetSessionState, or handleStorageError.  The client sends the body of
\* its latest transaction once it has the 354.
DataBody ==
    /\ phase = "body"
    /\ inbox = <<>>
    /\ ~eof
    /\ \E sz \in BodySizes :
          \/ /\ sz > MaxSize
             /\ phase' = "closed"
             /\ UNCHANGED <<wire, responseQueue, pipeliningMode, sessVars, stored>>
          \/ /\ sz <= MaxSize
             /\ stored' = Append(stored, [from |-> mailFrom, to |-> rcptTo, txns |-> {clientTxn}])
             /\ ResetTxn
             /\ Reply(250, rcvd, pipeliningMode, responseQueue, wire, "cmd")
             /\ UNCHANGED <<capPipelining, capUTF8, advertisedSize, authenticated,
                            bdatLen, bdatTxns, tlsActive, readerTLS>>
          \/ /\ sz <= MaxSize
             /\ Reply(450, rcvd, pipeliningMode, responseQueue, wire, "cmd")
             /\ UNCHANGED <<sessVars, stored>>
    /\ UNCHANGED <<inbox, rcvd, eof, port, clientVars>>

\* handleBdat with readBDATChunk.
Bdat ==
    /\ Admitted
    /\ Cmd.verb = "BDAT"
    /\ LET n == Cmd.arg.size
           last == Cmd.arg.last
           tags == IF n > 0 THEN {Cmd.txn} ELSE {}
       IN
       \/ /\ pending["data"] # NoError /\ last
          /\ inbox' = Unread
          /\ Answer(pending["data"], "cmd")
          /\ UNCHANGED <<sessVars, stored>>
       \/ /\ ~(pending["data"] # NoError /\ last)
          /\ bdatLen + n > MaxSize
          /\ inbox' = Unread
          /\ Answer(552, "cmd")
          /\ UNCHANGED <<sessVars, stored>>
       \/ /\ ~(pending["data"] # NoError /\ last)
          /\ bdatLen + n <= MaxSize
          /\ inbox' = Tail(inbox)
          /\ \/ /\ ~last
                /\ bdatLen' = bdatLen + n
                /\ bdatTxns' = bdatTxns \cup tags
                /\ state' = "BDAT"
                /\ Answer(250, "cmd")
                /\ UNCHANGED <<txnVars, stored>>
             \/ /\ last
                /\ stored' = Append(stored, [from |-> mailFrom, to |-> rcptTo,
                                             txns |-> bdatTxns \cup tags])
                /\ bdatLen' = 0
                /\ bdatTxns' = {}
                /\ ResetTxn
                /\ Answer(250, "cmd")
             \/ /\ last
                /\ bdatLen' = bdatLen + n
                /\ bdatTxns' = bdatTxns \cup tags
                /\ Answer(450, "cmd")
                /\ UNCHANGED <<state, txnVars, stored>>
          /\ UNCHANGED <<capPipelining, capUTF8, advertisedSize, authenticated,
                         tlsActive, readerTLS>>

\* Mutant: RSET forgets to clear the recipients.
RsetKeepRcpt ==
    /\ Admitted
    /\ Cmd.verb = "RSET"
    /\ inbox' = Tail(inbox)
    /\ \/ /\ pending["rset"] # NoError
          /\ Answer(pending["rset"], "cmd")
          /\ UNCHANGED sessVars
       \/ /\ pending["rset"] = NoError
          /\ state' = "MAIL"
          /\ mailFrom' = NoSender
          /\ Answer(250, "cmd")
          /\ UNCHANGED <<capPipelining, capUTF8, advertisedSize, authenticated, pending,
                         rcptTo, bdatLen, bdatTxns, tlsActive, readerTLS>>
    /\ UNCHANGED stored

\* Mutant: the state change of handleRset is made before the check of the
\* scheduled RSET error, so a refused RSET still returns to MAIL and keeps
\* the recipients.
RsetRefusedToMail ==
    /\ Admitted
    /\ Cmd.verb = "RSET"
    /\ inbox' = Tail(inbox)
    /\ \/ /\ pending["rset"] # NoError
          /\ state' = "MAIL"
          /\ Answer(pending["rset"], "cmd")
          /\ UNCHANGED <<capPipelining, capUTF8, advertisedSize, authenticated, txnVars,
                         bdatLen, bdatTxns, tlsActive, readerTLS>>
       \/ /\ pending["rset"] = NoError
          /\ state' = "MAIL"
          /\ mailFrom' = NoSender
          /\ rcptTo' = <<>>
          /\ Answer(250, "cmd")
          /\ UNCHANGED <<capPipelining, capUTF8, advertisedSize, authenticated, pending,
                         bdatLen, bdatTxns, tlsActive, readerTLS>>
    /\ UNCHANGED stored

\* handleRset: a scheduled RSET error leaves everything as it is.
Rset ==
    /\ Admitted
    /\ Cmd.verb = "RSET"
    /\ inbox' = Tail(inbox)
    /\ \/ /\ pending["rset"] # NoError
          /\ Answer(pending["rset"], "cmd")
          /\ UNCHANGED sessVars
       \/ /\ pending["rset"] = NoError
          /\ state' = "MAIL"
          /\ mailFrom' = NoSender
          /\ rcptTo' = <<>>
          /\ Answer(250, "cmd")
          /\ UNCHANGED <<capPipelining, capUTF8, advertisedSize, authenticated, pending,
                         bdatLen, bdatTxns, tlsActive, readerTLS>>
    /\ UNCHANGED stored

\* handleNoop.
Noop ==
    /\ Admitted
    /\ Cmd.verb = "NOOP"
    /\ inbox' = Tail(inbox)
    /\ Answer(IF pending["noop"] # NoError THEN pending["noop"] ELSE 250, "cmd")
    /\ UNCHANGED <<sessVars, stored>>

\* handleVrfy: answered by the local-part prefix, no state change.
Vrfy ==
    /\ Admitted
    /\ Cmd.verb = "VRFY"
    /\ inbox' = Tail(inbox)
    /\ Answer(CASE Cmd.arg = "exists" -> 250
                [] Cmd.arg = "unknown" -> 551
                [] Cmd.arg = "ambiguous" -> 553
                [] Cmd.arg = "other" -> 550
                [] Cmd.arg = "bad" -> 501, "cmd")
    /\ UNCHANGED <<sessVars, stored>>

\* handleStartTLS with obtainTLSCertificate and upgradeToTLS; a failed
\* handshake ends the session.  s.conn becomes the TLS connection, the
\* reader made from the plaintext one stays.
StartTLS ==
    /\ Admitted
    /\ Cmd.verb = "STARTTLS"
    /\ inbox' = Tail(inbox)
    /\ \/ /\ pending["starttls"] # NoError
          /\ Answer(pending["starttls"], "cmd")
          /\ UNCHANGED sessVars
       \/ /\ pending["starttls"] = NoError
          /\ tlsActive
          /\ Answer(554, "cmd")
          /\ UNCHANGED sessVars
       \/ /\ pending["starttls"] = NoError
          /\ ~tlsActive
          /\ Answer(220, "closed")
          /\ UNCHANGED sessVars
       \/ /\ pending["starttls"] = NoError
          /\ ~tlsActive
          /\ tlsActive' = TRUE
          /\ state' = "HELO"
          /\ Answer(220, "cmd")
          /\ UNCHANGED <<capPipelining, capUTF8, advertisedSize, authenticated, txnVars,
                         bdatLen, bdatTxns, readerTLS>>
    /\ UNCHANGED stored

\* handleQuit: the session ends after the reply.
Quit ==
    /\ Admitted
    /\ Cmd.verb = "QUIT"
    /\ inbox' = Tail(inbox)
    /\ LET code == IF pending["quit"] # NoError THEN pending["quit"] ELSE 221 IN
       /\ Answer(code, "closed")
       /\ state' = IF code = 421 THEN state ELSE "QUIT"
    /\ UNCHANGED <<capPipelining, capUTF8, advertisedSize, authenticated, txnVars,
                   bdatLen, bdatTxns, tlsActive, readerTLS, stored>>

\* One pass of runCommandLoop over a line.
Receive ==
    /\ phase = "cmd"
    /\ inbox # <<>>
    /\ rcvd' = rcvd + 1
    /\ \/ Reject \/ Helo \/ Auth \/ Mail \/ Rcpt \/ Data \/ Bdat
       \/ Rset \/ Noop \/ Vrfy \/ StartTLS \/ Quit
    /\ UNCHANGED <<eof, port, clientVars>>

\* Handle has returned and closed the connection.
Terminated ==
    /\ phase = "closed"
    /\ UNCHANGED vars

-----------------------------------------------------------------------------
(* Properties.                                                             *)

TypeOK ==
    /\ inbox \in Seq(Item)
    /\ wire \in Seq(Response)
    /\ responseQueue \in Seq(Response)
    /\ pipeliningMode \in BOOLEAN
    /\ phase \in {"greet", "cmd", "body", "closed"}
    /\ rcvd \in Nat
    /\ eof \in BOOLEAN
    /\ port \in PortRoles
    /\ state \in States
    /\ capPipelining \in BOOLEAN /\ capUTF8 \in BOOLEAN
    /\ advertisedSize \in Nat
    /\ advertisedSize # 0 => AdvertisedSizeMin <= advertisedSize /\ advertisedSize <= AdvertisedSizeMax
    /\ authenticated \in BOOLEAN
    /\ mailFrom \in Env
    /\ rcptTo \in Seq(Env)
    /\ pending \in [Deferred -> Nat]
    /\ bdatLen \in Nat
    /\ bdatTxns \subseteq 0..MaxTxn
    /\ tlsActive \in BOOLEAN /\ readerTLS \in BOOLEAN
    /\ stored \in Seq([from : Env, to : Seq(Env), txns : SUBSET (0..MaxTxn)])
    /\ clientTxn \in 0..MaxTxn
    /\ sentGroups \in 0..MaxGroups

\* writeResponse and flushResponses: a 421 is the last response the client
\* ever receives, and nothing is left queued behind it; the session has
\* stopped.  Queued responses and a 421 in pipelining mode, or a 421 from a
\* deferred MAIL FROM error, are where this could go wrong.
NothingAfter421 ==
    \A i \in 1..Len(wire) :
        wire[i].code = 421 => /\ i = Len(wire)
                              /\ responseQueue = <<>>
                              /\ phase = "closed"

\* handleCommand, writeResponse and flushResponses: responses reach the
\* client in the order of the lines they answer, counting those still
\* queued behind the ones written.
ResponsesInOrder ==
    LET all == wire \o responseQueue IN
    \A i, j \in 1..Len(all) : i < j => all[i].cmd <= all[j].cmd

\* handleCommand and writeResponse: responses are only ever queued in
\* pipelining mode, and when DATA starts reading the message every earlier
\* response and the 354 have been written, so the client is not left
\* waiting for a 354 that sits in the queue.
QueueOnlyInPipelining ==
    /\ responseQueue # <<>> => pipeliningMode
    /\ phase = "body" => /\ responseQueue = <<>>
                         /\ wire # <<>>
                         /\ Last(wire).code = 354

\* handleMail, handleRset, resetSessionState: a stored message names no
\* recipient the client gave in an earlier transaction than its sender.
StoredRecipientsSameTxn ==
    \A k \in 1..Len(stored) :
        /\ stored[k].from.txn # 0
        /\ \A r \in 1..Len(stored[k].to) : stored[k].to[r].txn >= stored[k].from.txn

\* handleMail schedules a DATA error from the sender's local part; handleData
\* and handleBdat then refuse the message: no message whose sender scheduled
\* a DATA error is ever stored.
NoDeliveryWithDataError ==
    \A k \in 1..Len(stored) : stored[k].from.addr.verb # "data"

\* runCommandLoop: when the session blocks reading the next command, it has
\* written the responses to every command it read (RFC 2920 lets a client
\* wait for them after any group ending in NOOP or RSET).
NoStalledReplies ==
    phase = "cmd" /\ inbox = <<>> => responseQueue = <<>>

\* handleBdat: a stored message holds bytes of its own transaction only.
BdatIsolation ==
    \A k \in 1..Len(stored) : \A t \in stored[k].txns : t >= stored[k].from.txn

\* handleBdat, parseAndLogCommand: the bytes of a BDAT chunk are never read
\* as a command line.
ChunkBytesNeverParsed ==
    \A i \in 1..Len(inbox) : inbox[i] # Junk

\* handleStartTLS, upgradeToTLS, Handle: once TLS is up, commands are read
\* through the TLS connection.
CommandsReadThroughTLS == tlsActive => readerTLS

\* handleData, handleStorageError: while the connection is open the session
\* is in the DATA state only while it reads a message (a session closed by
\* the size check is left as it was, harmlessly).
DataStateOnlyWhileReading == state = "DATA" => phase \in {"body", "closed"}

\* smtp.CanTransitionTo (smtp/state.go): every state change the session
\* makes is one of the transitions the state table allows.
CanTransitionTo ==
    {<<"GREETING", "HELO">>, <<"HELO", "MAIL">>, <<"HELO", "AUTH">>, <<"AUTH", "MAIL">>,
     <<"MAIL", "RCPT">>, <<"MAIL", "QUIT">>, <<"RCPT", "DATA">>, <<"RCPT", "BDAT">>,
     <<"RCPT", "RCPT">>, <<"DATA", "MAIL">>, <<"DATA", "QUIT">>, <<"BDAT", "BDAT">>,
     <<"BDAT", "MAIL">>, <<"BDAT", "QUIT">>}

\* The handlers of server/session.go assign s.state directly: every change
\* of state they make is one that State.CanTransitionTo accepts.
TransitionsInTable == [][state' # state => <<state, state'>> \in CanTransitionTo]_state


Init ==
    /\ inbox = <<>>
    /\ wire = <<>>
    /\ responseQueue = <<>>
    /\ pipeliningMode = FALSE
    /\ phase = "greet"
    /\ rcvd = 0
    /\ eof = FALSE
    /\ port \in PortRoles
    /\ state = "GREETING"
    /\ capPipelining = FALSE
    /\ capUTF8 = FALSE
    /\ advertisedSize = 0
    /\ authenticated = FALSE
    /\ mailFrom = NoSender
    /\ rcptTo = <<>>
    /\ pending = NoPending
    /\ bdatLen = 0
    /\ bdatTxns = {}
    /\ tlsActive = (port = "implicitTLS")
    /\ readerTLS = (port = "implicitTLS")
    /\ stored = <<>>
    /\ clientTxn = 0
    /\ sentGroups = 0

Next ==
    \/ ClientSend
    \/ ClientClose
    \/ Greet
    \/ Receive
    \/ DataBody
    \/ SessionEOF
    \/ Terminated

Spec == Init /\ [][Next]_vars

=============================================================================
