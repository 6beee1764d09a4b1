--------------------------- MODULE SessionProofs ---------------------------
(***************************************************************************)
(* Proofs about the SMTP session of Session.tla, for every value of its   *)
(* constants: the type invariant, and the invariant of the response       *)
(* writer that the pipelining queue is only used in pipelining mode and   *)
(* that DATA reads the message only after its 354 has been written.       *)
(***************************************************************************)
EXTENDS Session, FiniteSetTheorems, SequenceTheorems, TLAPS

Phases == {"greet", "cmd", "body", "closed"}

-----------------------------------------------------------------------------
(* Lemmas about the lines of the stream.                                   *)

\* An item is a verb, an argument of that verb and a transaction tag.
LEMMA ItemFields ==
    ASSUME NEW it \in Item
    PROVE  /\ it.verb \in Verbs \cup {"JUNK"}
           /\ it.arg \in ArgOf(it.verb)
           /\ it.txn \in 0..MaxTxn
           /\ it = [verb |-> it.verb, arg |-> it.arg, txn |-> it.txn]
BY DEF Item

\* The junk line is a line of the stream.
LEMMA JunkItem == Junk \in Item
<1>1. ArgOf("JUNK") = {"none"}
  BY DEF ArgOf
<1>2. MaxTxn \in Nat
  BY ConstantsAssumption
<1>. QED
  BY <1>1, <1>2 DEF Junk, Item

\* A command line the client writes, tagged with a transaction in range.
LEMMA TagTemplate ==
    ASSUME NEW t \in Template, NEW k \in 0..MaxTxn
    PROVE  [t EXCEPT !.txn = k] \in Item
<1>1. PICK v \in Verbs : t \in [verb : {v}, arg : ArgOf(v), txn : {0}]
  BY DEF Template
<1>. QED
  BY <1>1 DEF Item

\* The MAIL FROM lines among the first i lines of a group are at most those
\* of the whole group.
LEMMA MailsMonotone ==
    ASSUME NEW g \in Seq(Template), NEW i \in 0..Len(g)
    PROVE  /\ MailsUpTo(g, i) \in Nat
           /\ MailsUpTo(g, i) <= MailsUpTo(g, Len(g))
<1>1. IsFiniteSet(1..Len(g))
  BY FS_Interval
<1>2. {j \in 1..i : g[j].verb = "MAIL"} \subseteq {j \in 1..Len(g) : g[j].verb = "MAIL"}
  OBVIOUS
<1>3. IsFiniteSet({j \in 1..Len(g) : g[j].verb = "MAIL"})
  BY <1>1, FS_Subset
<1>. QED
  BY <1>2, <1>3, FS_Subset, FS_CardinalityType DEF MailsUpTo

\* The client's burst is a sequence of lines.
LEMMA StampType ==
    ASSUME NEW g \in Seq(Template), clientTxn \in 0..MaxTxn,
           clientTxn + MailsUpTo(g, Len(g)) <= MaxTxn
    PROVE  Stamp(g) \in Seq(Item)
<1>1. \A i \in 1..Len(g) : clientTxn + MailsUpTo(g, i) \in 0..MaxTxn
  <2>1. TAKE i \in 1..Len(g)
  <2>2. i \in 0..Len(g)
    OBVIOUS
  <2>3. MailsUpTo(g, i) \in Nat /\ MailsUpTo(g, i) <= MailsUpTo(g, Len(g))
    BY <2>2, MailsMonotone
  <2>4. MailsUpTo(g, Len(g)) \in Nat
    BY MailsMonotone
  <2>. QED
    BY <2>3, <2>4, ConstantsAssumption
<1>2. \A i \in 1..Len(g) : [g[i] EXCEPT !.txn = clientTxn + MailsUpTo(g, i)] \in Item
  BY <1>1, TagTemplate
<1>. QED
  BY <1>2 DEF Stamp

-----------------------------------------------------------------------------
(* Lemmas about the response writer.                                       *)

\* The response writer's part of the state is well typed.
ConnOK ==
    /\ wire \in Seq(Response)
    /\ responseQueue \in Seq(Response)
    /\ pipeliningMode \in BOOLEAN
    /\ phase \in Phases

\* writeResponse keeps the response writer's state well typed.
LEMMA ReplyType ==
    ASSUME NEW code \in Nat, NEW n \in Nat, NEW pm \in BOOLEAN,
           NEW q \in Seq(Response), NEW w \in Seq(Response), NEW ph \in Phases,
           Reply(code, n, pm, q, w, ph)
    PROVE  ConnOK'
<1>. DEFINE r == [code |-> code, cmd |-> n]
<1>1. r \in Response
  BY DEF Response
<1>2. pipeliningMode' = pm
  BY DEF Reply
<1>3. CASE pm /\ code # 421 /\ responseQueue' = Append(q, r) /\ wire' = w /\ phase' = ph
  BY <1>1, <1>2, <1>3 DEF ConnOK
<1>4. CASE pm /\ code = 421 /\ wire' = (w \o q) \o <<r>> /\ responseQueue' = <<>>
                              /\ phase' = "closed"
  BY <1>1, <1>2, <1>4 DEF ConnOK, Phases
<1>5. CASE ~pm /\ wire' = Append(w, r) /\ responseQueue' = q
               /\ phase' = IF code = 421 THEN "closed" ELSE ph
  BY <1>1, <1>2, <1>5 DEF ConnOK, Phases
<1>. QED
  BY <1>3, <1>4, <1>5 DEF Reply

\* What the session reads while it handles a command line.
CmdCtx == TypeOK /\ phase = "cmd" /\ inbox # <<>> /\ rcvd' = rcvd + 1

\* The line handled, the rest of the stream, and the writer's inputs
\* computed by handleCommand are well typed.
LEMMA CmdType ==
    ASSUME CmdCtx
    PROVE  /\ Cmd \in Item
           /\ Cmd.verb \in Verbs \cup {"JUNK"}
           /\ Cmd.arg \in ArgOf(Cmd.verb)
           /\ Cmd.txn \in 0..MaxTxn
           /\ Tail(inbox) \in Seq(Item)
           /\ Unread \in Seq(Item)
           /\ PM1 \in BOOLEAN /\ PM \in BOOLEAN
           /\ Q \in Seq(Response) /\ W \in Seq(Response)
           /\ rcvd + 1 \in Nat
<1>1. Cmd \in Item
  BY JunkItem DEF CmdCtx, TypeOK, Cmd
<1>2. Cmd.verb \in Verbs \cup {"JUNK"} /\ Cmd.arg \in ArgOf(Cmd.verb) /\ Cmd.txn \in 0..MaxTxn
  BY <1>1, ItemFields
<1>3. Tail(inbox) \in Seq(Item)
  BY DEF CmdCtx, TypeOK
<1>4. Unread \in Seq(Item)
  BY <1>3, JunkItem DEF Unread
<1>5. PM1 \in BOOLEAN /\ PM \in BOOLEAN
  BY DEF CmdCtx, TypeOK, PM1, PM, MoreBuffered
<1>6. Q \in Seq(Response) /\ W \in Seq(Response)
  BY DEF CmdCtx, TypeOK, Q, W
<1>7. rcvd + 1 \in Nat
  BY DEF CmdCtx, TypeOK
<1>. QED
  BY <1>1, <1>2, <1>3, <1>4, <1>5, <1>6, <1>7

\* The answer to a command line keeps the writer's state well typed.
LEMMA AnswerType ==
    ASSUME CmdCtx, NEW code \in Nat, NEW ph \in Phases, Answer(code, ph)
    PROVE  ConnOK'
BY CmdType, ReplyType DEF Answer

-----------------------------------------------------------------------------
(* Each handler of a command line keeps the state well typed.              *)

\* The hypotheses of every handler lemma: the context of Receive.
HandlerCtx == CmdCtx /\ UNCHANGED <<eof, port, clientVars>>

\* TypeOK, given the response writer's part and the stream.
LEMMA TypeFromParts ==
    ASSUME TypeOK, ConnOK', inbox' \in Seq(Item), rcvd' \in Nat,
           UNCHANGED <<eof, port, clientVars>>,
           state' \in States, capPipelining' \in BOOLEAN, capUTF8' \in BOOLEAN,
           advertisedSize' \in Nat,
           advertisedSize' # 0 => AdvertisedSizeMin <= advertisedSize' /\ advertisedSize' <= AdvertisedSizeMax,
           authenticated' \in BOOLEAN, mailFrom' \in Env, rcptTo' \in Seq(Env),
           pending' \in [Deferred -> Nat], bdatLen' \in Nat, bdatTxns' \subseteq 0..MaxTxn,
           tlsActive' \in BOOLEAN, readerTLS' \in BOOLEAN,
           stored' \in Seq([from : Env, to : Seq(Env), txns : SUBSET (0..MaxTxn)])
    PROVE  TypeOK'
BY DEF TypeOK, ConnOK, Phases, clientVars

\* parseAndLogCommand's 500 and 503.
LEMMA RejectType == HandlerCtx /\ Reject => TypeOK'
<1>. SUFFICES ASSUME HandlerCtx, Reject PROVE TypeOK'
  OBVIOUS
<1>1. CmdCtx
  BY DEF HandlerCtx
<1>2. (IF Cmd.verb \in Verbs THEN 503 ELSE 500) \in Nat
  OBVIOUS
<1>3. ConnOK'
  <2>1. Reply(IF Cmd.verb \in Verbs THEN 503 ELSE 500, rcvd + 1, PM1, responseQueue, wire, "cmd")
    BY DEF Reject
  <2>2. /\ PM1 \in BOOLEAN /\ rcvd + 1 \in Nat /\ "cmd" \in Phases
        /\ responseQueue \in Seq(Response) /\ wire \in Seq(Response)
    BY <1>1, CmdType DEF CmdCtx, TypeOK, Phases
  <2>. QED
    BY <1>2, <2>1, <2>2, ReplyType
<1>4. inbox' \in Seq(Item)
  BY <1>1, CmdType DEF Reject
<1>. QED
  BY <1>1, <1>3, <1>4, TypeFromParts DEF HandlerCtx, CmdCtx, TypeOK, Reject, sessVars

\* Some answer to the command line is written.
Answered == \E c \in Nat, ph \in Phases : Answer(c, ph)

LEMMA AnsweredType ==
    ASSUME CmdCtx, Answered
    PROVE  ConnOK'
BY AnswerType DEF Answered

\* An answer of a given code to the command line is some answer.
LEMMA AnswerCmd ==
    ASSUME NEW c \in Nat, Answer(c, "cmd")
    PROVE  Answered
BY DEF Answered, Phases

\* An answer that starts reading a message body is some answer.
LEMMA AnswerBody ==
    ASSUME NEW c \in Nat, Answer(c, "body")
    PROVE  Answered
BY DEF Answered, Phases

\* An answer that closes the connection is some answer.
LEMMA AnswerClosed ==
    ASSUME NEW c \in Nat, Answer(c, "closed")
    PROVE  Answered
BY DEF Answered, Phases

\* The argument of a HELO or EHLO line is a hostname, and of a MAIL or RCPT
\* line a mailbox.
LEMMA ArgTypes ==
    ASSUME CmdCtx
    PROVE  /\ Cmd.verb \in {"HELO", "EHLO"} => Cmd.arg \in HostnameType
           /\ Cmd.verb \in {"MAIL", "RCPT"} => Cmd.arg \in AddressType
           /\ Cmd.verb = "BDAT" => Cmd.arg.size \in Nat /\ Cmd.arg.last \in BOOLEAN
<1>1. ASSUME NEW v
      PROVE  /\ v \in {"HELO", "EHLO"} => ArgOf(v) = Hostnames
             /\ v \in {"MAIL", "RCPT"} => ArgOf(v) = Addresses
             /\ v = "BDAT" => ArgOf(v) = [size : ChunkSizes, last : BOOLEAN]
  BY DEF ArgOf
<1>2. Cmd.arg \in ArgOf(Cmd.verb)
  BY CmdType
<1>6. Hostnames \subseteq HostnameType /\ Addresses \subseteq AddressType
  BY ConstantsAssumption
<1>3. Cmd.verb \in {"HELO", "EHLO"} => Cmd.arg \in HostnameType
  BY <1>1, <1>2, <1>6
<1>4. Cmd.verb \in {"MAIL", "RCPT"} => Cmd.arg \in AddressType
  BY <1>1, <1>2, <1>6
<1>5. Cmd.verb = "BDAT" => Cmd.arg.size \in Nat /\ Cmd.arg.last \in BOOLEAN
  <2>. SUFFICES ASSUME Cmd.verb = "BDAT" PROVE Cmd.arg.size \in Nat /\ Cmd.arg.last \in BOOLEAN
    OBVIOUS
  <2>1. Cmd.arg \in [size : ChunkSizes, last : BOOLEAN]
    BY <1>1, <1>2
  <2>2. ChunkSizes \subseteq Nat
    BY ConstantsAssumption
  <2>. QED
    BY <2>1, <2>2
<1>. QED
  BY <1>3, <1>4, <1>5

\* handleHelo and handleEhlo.
LEMMA HeloType == HandlerCtx /\ Helo => TypeOK'
<1>. SUFFICES ASSUME HandlerCtx, Helo PROVE TypeOK'
  OBVIOUS
<1>1. CmdCtx
  BY DEF HandlerCtx
<1>. DEFINE h == Cmd.arg
<1>2. h \in HostnameType
  BY <1>1, ArgTypes DEF Helo
<1>3. Answered
  <2>1. Answer(503, "cmd") \/ Answer(h.code, "cmd") \/ Answer(250, "cmd") \/ Answer(502, "cmd")
    BY DEF Helo
  <2>2. h.code \in Nat
    BY <1>2 DEF HostnameType
  <2>. QED
    BY <2>1, <2>2, AnswerCmd
<1>4. /\ ClampSize(h.size) \in Nat
      /\ AdvertisedSizeMin <= ClampSize(h.size) /\ ClampSize(h.size) <= AdvertisedSizeMax
  BY <1>2 DEF ClampSize, HostnameType, AdvertisedSizeMin, AdvertisedSizeMax
<1>5. advertisedSize' = advertisedSize \/ advertisedSize' = ClampSize(h.size)
  BY DEF Helo, sessVars
<1>6. /\ advertisedSize' \in Nat
      /\ advertisedSize' # 0 => AdvertisedSizeMin <= advertisedSize' /\ advertisedSize' <= AdvertisedSizeMax
  BY <1>1, <1>4, <1>5 DEF CmdCtx, TypeOK
<1>7. capPipelining' \in BOOLEAN /\ capUTF8' \in BOOLEAN
  BY <1>1, <1>2 DEF Helo, CmdCtx, TypeOK, sessVars, HostnameType
<1>8. state' \in States
  BY <1>1 DEF Helo, CmdCtx, TypeOK, sessVars, States
<1>9. UNCHANGED <<authenticated, mailFrom, rcptTo, pending, bdatLen, bdatTxns,
                  tlsActive, readerTLS, stored>> /\ inbox' = Tail(inbox)
  BY DEF Helo, sessVars, txnVars
<1>. QED
  BY <1>1, <1>3, <1>6, <1>7, <1>8, <1>9, AnsweredType, CmdType, TypeFromParts
     DEF HandlerCtx, CmdCtx, TypeOK

\* The values resetSessionState stores are well typed.
LEMMA ResetValues ==
    /\ NoSender \in Env
    /\ NoPending \in [Deferred -> Nat]
BY ConstantsAssumption DEF NoSender, Env, NoPending, NoError

\* handleAuth.
LEMMA AuthType == HandlerCtx /\ Auth => TypeOK'
<1>. SUFFICES ASSUME HandlerCtx, Auth PROVE TypeOK'
  OBVIOUS
<1>1. CmdCtx
  BY DEF HandlerCtx
<1>2. Answered
  <2>1. \/ Answer(pending["auth"], "cmd")
        \/ Answer(IF Cmd.arg = "badmech" THEN 504 ELSE 535, "cmd")
        \/ Answer(235, "cmd")
    BY DEF Auth
  <2>2. pending["auth"] \in Nat
    BY <1>1 DEF CmdCtx, TypeOK, Deferred
  <2>. QED
    BY <2>1, <2>2, AnswerCmd
<1>3. state' \in States /\ authenticated' \in BOOLEAN
  BY <1>1 DEF Auth, CmdCtx, TypeOK, sessVars, States
<1>. QED
  BY <1>1, <1>2, <1>3, AnsweredType, CmdType, TypeFromParts
     DEF Auth, HandlerCtx, CmdCtx, TypeOK, sessVars, txnVars

\* handleMail.
LEMMA MailType == HandlerCtx /\ Mail => TypeOK'
<1>. SUFFICES ASSUME HandlerCtx, Mail PROVE TypeOK'
  OBVIOUS
<1>1. CmdCtx
  BY DEF HandlerCtx
<1>. DEFINE a == Cmd.arg
<1>2. a \in Addresses /\ a \in AddressType /\ Cmd.txn \in 0..MaxTxn
  BY <1>1, CmdType, ArgTypes, ConstantsAssumption DEF Mail, ArgOf
<1>3. Answered
  <2>1. a.code \in Nat
    BY <1>2 DEF AddressType
  <2>2. Answer(501, "cmd") \/ Answer(a.code, "cmd") \/ Answer(250, "cmd")
    BY DEF Mail
  <2>. QED
    BY <2>1, <2>2 DEF Answered, Phases
<1>4. PendingFrom(a) \in [Deferred -> Nat]
  BY <1>2 DEF PendingFrom, AddressType, NoError
<1>5. [addr |-> a, txn |-> Cmd.txn] \in Env
  BY <1>2 DEF Env
<1>6. /\ pending' \in [Deferred -> Nat]
      /\ mailFrom' \in Env
      /\ state' \in States
  BY <1>1, <1>4, <1>5 DEF Mail, CmdCtx, TypeOK, sessVars, States
<1>. QED
  BY <1>1, <1>3, <1>6, AnsweredType, CmdType, TypeFromParts
     DEF Mail, HandlerCtx, CmdCtx, TypeOK, sessVars, txnVars

\* handleRcpt.
LEMMA RcptType == HandlerCtx /\ Rcpt => TypeOK'
<1>. SUFFICES ASSUME HandlerCtx, Rcpt PROVE TypeOK'
  OBVIOUS
<1>1. CmdCtx
  BY DEF HandlerCtx
<1>. DEFINE a == Cmd.arg
<1>2. a \in Addresses /\ a \in AddressType /\ Cmd.txn \in 0..MaxTxn
  BY <1>1, CmdType, ArgTypes, ConstantsAssumption DEF Rcpt, ArgOf
<1>3. Answered
  <2>1. a.code \in Nat
    BY <1>2 DEF AddressType
  <2>2. Answer(501, "cmd") \/ Answer(a.code, "cmd") \/ Answer(250, "cmd")
    BY DEF Rcpt
  <2>. QED
    BY <2>1, <2>2 DEF Answered, Phases
<1>4. [addr |-> a, txn |-> Cmd.txn] \in Env
  BY <1>2 DEF Env
<1>5. rcptTo' \in Seq(Env)
  <2>1. rcptTo' = rcptTo \/ rcptTo' = Append(rcptTo, [addr |-> a, txn |-> Cmd.txn])
    BY DEF Rcpt, sessVars
  <2>2. rcptTo \in Seq(Env)
    BY <1>1 DEF CmdCtx, TypeOK
  <2>. QED
    BY <1>4, <2>1, <2>2
<1>. QED
  BY <1>1, <1>3, <1>5, AnsweredType, CmdType, TypeFromParts
     DEF Rcpt, HandlerCtx, CmdCtx, TypeOK, sessVars, txnVars

\* handleData up to the 354.
LEMMA DataType == HandlerCtx /\ Data => TypeOK'
<1>. SUFFICES ASSUME HandlerCtx, Data PROVE TypeOK'
  OBVIOUS
<1>1. CmdCtx
  BY DEF HandlerCtx
<1>2. Answered
  <2>1. Answer(pending["data"], "cmd") \/ Answer(354, "body")
    BY DEF Data
  <2>2. pending["data"] \in Nat
    BY <1>1 DEF CmdCtx, TypeOK, Deferred
  <2>. QED
    BY <2>1, <2>2, AnswerCmd, AnswerBody
<1>3. state' \in States
  BY <1>1 DEF Data, CmdCtx, TypeOK, sessVars, States
<1>4. /\ inbox' = Tail(inbox)
      /\ UNCHANGED <<capPipelining, capUTF8, advertisedSize, authenticated, mailFrom,
                     rcptTo, pending, bdatLen, bdatTxns, tlsActive, readerTLS, stored>>
  BY DEF Data, sessVars, txnVars
<1>. QED
  BY <1>1, <1>2, <1>3, <1>4, AnsweredType, CmdType, TypeFromParts
     DEF HandlerCtx, CmdCtx, TypeOK

\* handleBdat with readBDATChunk.
LEMMA BdatType == HandlerCtx /\ Bdat => TypeOK'
<1>. SUFFICES ASSUME HandlerCtx, Bdat PROVE TypeOK'
  OBVIOUS
<1>1. CmdCtx
  BY DEF HandlerCtx
<1>. DEFINE n == Cmd.arg.size
            tags == IF n > 0 THEN {Cmd.txn} ELSE {}
            rec == [from |-> mailFrom, to |-> rcptTo, txns |-> bdatTxns \cup tags]
<1>2. n \in Nat /\ tags \subseteq 0..MaxTxn
  BY <1>1, ArgTypes, CmdType DEF Bdat
<1>3. Answered
  <2>1. \/ Answer(pending["data"], "cmd") \/ Answer(552, "cmd")
        \/ Answer(250, "cmd") \/ Answer(450, "cmd")
    BY DEF Bdat
  <2>2. pending["data"] \in Nat
    BY <1>1 DEF CmdCtx, TypeOK, Deferred
  <2>. QED
    BY <2>1, <2>2, AnswerCmd
<1>4. inbox' \in Seq(Item)
  <2>1. inbox' = Unread \/ inbox' = Tail(inbox)
    BY DEF Bdat
  <2>. QED
    BY <1>1, <2>1, CmdType
<1>5. /\ bdatLen' \in {bdatLen, bdatLen + n, 0}
      /\ bdatTxns' \in {bdatTxns, bdatTxns \cup tags, {}}
      /\ stored' = stored \/ stored' = Append(stored, rec)
  BY DEF Bdat, sessVars
<1>6. /\ state' \in {state, "BDAT", "MAIL"}
      /\ mailFrom' \in {mailFrom, NoSender}
      /\ rcptTo' \in {rcptTo, <<>>}
      /\ pending' \in {pending, NoPending}
  BY DEF Bdat, ResetTxn, sessVars, txnVars
<1>7. UNCHANGED <<capPipelining, capUTF8, advertisedSize, authenticated, tlsActive, readerTLS>>
  BY DEF Bdat, sessVars
<1>8. /\ bdatLen \in Nat /\ bdatTxns \subseteq 0..MaxTxn
      /\ stored \in Seq([from : Env, to : Seq(Env), txns : SUBSET (0..MaxTxn)])
      /\ state \in States /\ mailFrom \in Env /\ rcptTo \in Seq(Env)
      /\ pending \in [Deferred -> Nat]
  BY <1>1 DEF CmdCtx, TypeOK
<1>9. rec \in [from : Env, to : Seq(Env), txns : SUBSET (0..MaxTxn)]
  BY <1>2, <1>8
<1>10. bdatLen' \in Nat /\ bdatTxns' \subseteq 0..MaxTxn
  BY <1>2, <1>5, <1>8
<1>11. stored' \in Seq([from : Env, to : Seq(Env), txns : SUBSET (0..MaxTxn)])
  <2>1. Append(stored, rec) \in Seq([from : Env, to : Seq(Env), txns : SUBSET (0..MaxTxn)])
    BY <1>8, <1>9, AppendProperties
  <2>. QED
    BY <1>5, <1>8, <2>1
<1>12. state' \in States
  BY <1>6, <1>8 DEF States
<1>13. mailFrom' \in Env /\ rcptTo' \in Seq(Env)
  <2>1. mailFrom' \in Env
    BY <1>6, <1>8, ResetValues
  <2>2. << >> \in Seq(Env)
    OBVIOUS
  <2>. QED
    BY <1>6, <1>8, <2>1, <2>2
<1>14. pending' \in [Deferred -> Nat]
  BY <1>6, <1>8, ResetValues
<1>15. /\ capPipelining' \in BOOLEAN /\ capUTF8' \in BOOLEAN /\ advertisedSize' \in Nat
       /\ advertisedSize' # 0 => AdvertisedSizeMin <= advertisedSize' /\ advertisedSize' <= AdvertisedSizeMax
       /\ authenticated' \in BOOLEAN /\ tlsActive' \in BOOLEAN /\ readerTLS' \in BOOLEAN
  BY <1>1, <1>7 DEF CmdCtx, TypeOK
<1>16. ConnOK' /\ rcvd' \in Nat /\ TypeOK
  BY <1>1, <1>3, AnsweredType, CmdType DEF CmdCtx
<1>. QED
  BY <1>4, <1>10, <1>11, <1>12, <1>13, <1>14, <1>15, <1>16, TypeFromParts DEF HandlerCtx

\* A handler that consumes its line, answers it and leaves the session
\* alone keeps the state well typed.
LEMMA KeepSession ==
    ASSUME HandlerCtx, Answered, inbox' = Tail(inbox), UNCHANGED <<sessVars, stored>>
    PROVE  TypeOK'
<1>1. CmdCtx
  BY DEF HandlerCtx
<1>2. ConnOK' /\ rcvd' \in Nat /\ Tail(inbox) \in Seq(Item)
  BY <1>1, AnsweredType, CmdType DEF CmdCtx
<1>. QED
  BY <1>1, <1>2, TypeFromParts DEF HandlerCtx, CmdCtx, TypeOK, sessVars

\* handleRset.
LEMMA RsetType == HandlerCtx /\ Rset => TypeOK'
<1>. SUFFICES ASSUME HandlerCtx, Rset PROVE TypeOK'
  OBVIOUS
<1>1. CmdCtx
  BY DEF HandlerCtx
<1>2. Answered
  <2>1. Answer(pending["rset"], "cmd") \/ Answer(250, "cmd")
    BY DEF Rset
  <2>2. pending["rset"] \in Nat
    BY <1>1 DEF CmdCtx, TypeOK, Deferred
  <2>. QED
    BY <2>1, <2>2, AnswerCmd
<1>3. \/ UNCHANGED <<sessVars, stored>>
      \/ /\ state' = "MAIL" /\ mailFrom' = NoSender /\ rcptTo' = << >>
         /\ UNCHANGED <<capPipelining, capUTF8, advertisedSize, authenticated, pending,
                        bdatLen, bdatTxns, tlsActive, readerTLS, stored>>
  BY DEF Rset, sessVars
<1>4. inbox' = Tail(inbox)
  BY DEF Rset
<1>5. CASE UNCHANGED <<sessVars, stored>>
  BY <1>2, <1>4, <1>5, KeepSession
<1>6. CASE /\ state' = "MAIL" /\ mailFrom' = NoSender /\ rcptTo' = << >>
           /\ UNCHANGED <<capPipelining, capUTF8, advertisedSize, authenticated, pending,
                          bdatLen, bdatTxns, tlsActive, readerTLS, stored>>
  <2>1. ConnOK' /\ rcvd' \in Nat /\ Tail(inbox) \in Seq(Item)
    BY <1>1, <1>2, AnsweredType, CmdType DEF CmdCtx
  <2>2. state' \in States /\ mailFrom' \in Env /\ rcptTo' \in Seq(Env)
    BY <1>6, ResetValues DEF States
  <2>. QED
    BY <1>1, <1>4, <1>6, <2>1, <2>2, TypeFromParts DEF HandlerCtx, CmdCtx, TypeOK
<1>. QED
  BY <1>3, <1>5, <1>6

\* handleNoop.
LEMMA NoopType == HandlerCtx /\ Noop => TypeOK'
<1>. SUFFICES ASSUME HandlerCtx, Noop PROVE TypeOK'
  OBVIOUS
<1>1. CmdCtx
  BY DEF HandlerCtx
<1>2. (IF pending["noop"] # NoError THEN pending["noop"] ELSE 250) \in Nat
  BY <1>1 DEF CmdCtx, TypeOK, Deferred
<1>3. Answered
  BY <1>2, AnswerCmd DEF Noop
<1>. QED
  BY <1>3, KeepSession DEF Noop

\* handleVrfy.
LEMMA VrfyType == HandlerCtx /\ Vrfy => TypeOK'
<1>. SUFFICES ASSUME HandlerCtx, Vrfy PROVE TypeOK'
  OBVIOUS
<1>1. CmdCtx
  BY DEF HandlerCtx
<1>2. Cmd.arg \in {"exists", "unknown", "ambiguous", "other", "bad"}
  BY <1>1, CmdType DEF Vrfy, ArgOf
<1>3. (CASE Cmd.arg = "exists" -> 250
         [] Cmd.arg = "unknown" -> 551
         [] Cmd.arg = "ambiguous" -> 553
         [] Cmd.arg = "other" -> 550
         [] Cmd.arg = "bad" -> 501) \in Nat
  BY <1>2
<1>4. Answered
  BY <1>3, AnswerCmd DEF Vrfy
<1>. QED
  BY <1>4, KeepSession DEF Vrfy

\* handleStartTLS.
LEMMA StartTLSType == HandlerCtx /\ StartTLS => TypeOK'
<1>. SUFFICES ASSUME HandlerCtx, StartTLS PROVE TypeOK'
  OBVIOUS
<1>1. CmdCtx
  BY DEF HandlerCtx
<1>2. Answered
  <2>1. \/ Answer(pending["starttls"], "cmd") \/ Answer(554, "cmd")
        \/ Answer(220, "closed") \/ Answer(220, "cmd")
    BY DEF StartTLS
  <2>2. pending["starttls"] \in Nat
    BY <1>1 DEF CmdCtx, TypeOK, Deferred
  <2>. QED
    BY <2>1, <2>2, AnswerCmd, AnswerClosed
<1>3. inbox' = Tail(inbox)
  BY DEF StartTLS
<1>4. \/ UNCHANGED <<sessVars, stored>>
      \/ /\ tlsActive' = TRUE /\ state' = "HELO"
         /\ UNCHANGED <<capPipelining, capUTF8, advertisedSize, authenticated, mailFrom,
                        rcptTo, pending, bdatLen, bdatTxns, readerTLS, stored>>
  BY DEF StartTLS, sessVars, txnVars
<1>5. CASE UNCHANGED <<sessVars, stored>>
  BY <1>2, <1>3, <1>5, KeepSession
<1>6. CASE /\ tlsActive' = TRUE /\ state' = "HELO"
           /\ UNCHANGED <<capPipelining, capUTF8, advertisedSize, authenticated, mailFrom,
                          rcptTo, pending, bdatLen, bdatTxns, readerTLS, stored>>
  <2>1. ConnOK' /\ rcvd' \in Nat /\ Tail(inbox) \in Seq(Item)
    BY <1>1, <1>2, AnsweredType, CmdType DEF CmdCtx
  <2>. QED
    BY <1>1, <1>3, <1>6, <2>1, TypeFromParts DEF HandlerCtx, CmdCtx, TypeOK, States
<1>. QED
  BY <1>4, <1>5, <1>6

\* handleQuit.
LEMMA QuitType == HandlerCtx /\ Quit => TypeOK'
<1>. SUFFICES ASSUME HandlerCtx, Quit PROVE TypeOK'
  OBVIOUS
<1>1. CmdCtx
  BY DEF HandlerCtx
<1>2. (IF pending["quit"] # NoError THEN pending["quit"] ELSE 221) \in Nat
  BY <1>1 DEF CmdCtx, TypeOK, Deferred
<1>3. Answered
  BY <1>2, AnswerClosed DEF Quit
<1>4. state' \in States
  BY <1>1 DEF Quit, CmdCtx, TypeOK, States
<1>5. /\ inbox' = Tail(inbox)
      /\ UNCHANGED <<capPipelining, capUTF8, advertisedSize, authenticated, mailFrom,
                     rcptTo, pending, bdatLen, bdatTxns, tlsActive, readerTLS, stored>>
  BY DEF Quit, txnVars
<1>6. ConnOK' /\ rcvd' \in Nat /\ Tail(inbox) \in Seq(Item)
  BY <1>1, <1>3, AnsweredType, CmdType DEF CmdCtx
<1>. QED
  BY <1>1, <1>4, <1>5, <1>6, TypeFromParts DEF HandlerCtx, CmdCtx, TypeOK

-----------------------------------------------------------------------------
(* The type invariant.                                                     *)

\* One pass of runCommandLoop keeps the state well typed.
LEMMA ReceiveType == TypeOK /\ Receive => TypeOK'
<1>. SUFFICES ASSUME TypeOK, Receive PROVE TypeOK'
  OBVIOUS
<1>1. HandlerCtx
  BY DEF Receive, HandlerCtx, CmdCtx
<1>. QED
  BY <1>1, RejectType, HeloType, AuthType, MailType, RcptType, DataType, BdatType,
     RsetType, NoopType, VrfyType, StartTLSType, QuitType DEF Receive

\* The client's burst keeps the state well typed.
LEMMA ClientSendType == TypeOK /\ ClientSend => TypeOK'
<1>. SUFFICES ASSUME TypeOK, ClientSend PROVE TypeOK'
  OBVIOUS
<1>1. PICK g \in Groups : /\ clientTxn + MailsUpTo(g, Len(g)) <= MaxTxn
                          /\ inbox' = Stamp(g)
                          /\ clientTxn' = clientTxn + MailsUpTo(g, Len(g))
                          /\ sentGroups' = sentGroups + 1
  BY DEF ClientSend
<1>2. g \in Seq(Template)
  BY ConstantsAssumption
<1>3. inbox' \in Seq(Item)
  BY <1>1, <1>2, StampType DEF TypeOK
<1>4. clientTxn' \in 0..MaxTxn
  <2>1. MailsUpTo(g, Len(g)) \in Nat
    BY <1>2, MailsMonotone
  <2>2. clientTxn \in 0..MaxTxn
    BY DEF TypeOK
  <2>. QED
    BY <1>1, <2>1, <2>2
<1>5. sentGroups' \in 0..MaxGroups
  <2>1. sentGroups \in 0..MaxGroups /\ sentGroups < MaxGroups
    BY DEF ClientSend, TypeOK
  <2>2. MaxGroups \in Nat
    BY ConstantsAssumption
  <2>. QED
    BY <1>1, <2>1, <2>2
<1>6. UNCHANGED <<wire, responseQueue, pipeliningMode, phase, rcvd, eof, port, sessVars, stored>>
  BY DEF ClientSend
<1>. QED
  BY <1>3, <1>4, <1>5, <1>6 DEF TypeOK, sessVars

\* setupSessionBehaviourAndGreet keeps the state well typed.
LEMMA GreetType == TypeOK /\ Greet => TypeOK'
<1>. SUFFICES ASSUME TypeOK, Greet PROVE TypeOK'
  OBVIOUS
<1>1. /\ wire' \in Seq(Response) /\ phase' \in {"greet", "cmd", "body", "closed"}
      /\ state' \in States
  <2>1. [code |-> 220, cmd |-> 0] \in Response
    BY DEF Response
  <2>2. /\ wire' = wire \/ wire' = <<[code |-> 220, cmd |-> 0]>>
        /\ phase' \in {"closed", "cmd"}
        /\ state' = state \/ state' = "HELO"
    <3>1. CASE port \in {"dropImmediate", "dropDelay"}
      BY <3>1 DEF Greet
    <3>2. CASE port \notin {"dropImmediate", "dropDelay"}
      BY <3>2 DEF Greet
    <3>. QED
      BY <3>1, <3>2
  <2>3. wire \in Seq(Response) /\ state \in States
    BY DEF TypeOK
  <2>4. <<[code |-> 220, cmd |-> 0]>> \in Seq(Response)
    BY <2>1
  <2>5. "HELO" \in States
    BY DEF States
  <2>. QED
    BY <2>2, <2>3, <2>4, <2>5
<1>2. UNCHANGED <<inbox, responseQueue, pipeliningMode, rcvd, eof, port, capPipelining, capUTF8,
                  advertisedSize, authenticated, mailFrom, rcptTo, pending, bdatLen, bdatTxns,
                  tlsActive, readerTLS, stored, clientTxn, sentGroups>>
  BY DEF Greet, txnVars, clientVars
<1>. QED
  BY <1>1, <1>2 DEF TypeOK

\* readMessageContent and storeMessage keep the state well typed.
LEMMA DataBodyType == TypeOK /\ DataBody => TypeOK'
<1>. SUFFICES ASSUME TypeOK, DataBody PROVE TypeOK'
  OBVIOUS
<1>. DEFINE rec == [from |-> mailFrom, to |-> rcptTo, txns |-> {clientTxn}]
            R == [from : Env, to : Seq(Env), txns : SUBSET (0..MaxTxn)]
<1>1. UNCHANGED <<inbox, rcvd, eof, port, clientVars, capPipelining, capUTF8, advertisedSize,
                  authenticated, bdatLen, bdatTxns, tlsActive, readerTLS>>
  BY DEF DataBody, sessVars
<1>2. \/ /\ phase' = "closed"
         /\ UNCHANGED <<wire, responseQueue, pipeliningMode, sessVars, stored>>
      \/ /\ stored' = Append(stored, rec)
         /\ ResetTxn
         /\ Reply(250, rcvd, pipeliningMode, responseQueue, wire, "cmd")
      \/ /\ Reply(450, rcvd, pipeliningMode, responseQueue, wire, "cmd")
         /\ UNCHANGED <<sessVars, stored>>
  BY DEF DataBody
<1>3. ConnOK'
  <2>1. ConnOK
    BY DEF TypeOK, ConnOK, Phases
  <2>2. rcvd \in Nat /\ "cmd" \in Phases /\ 250 \in Nat /\ 450 \in Nat
    BY DEF TypeOK, Phases
  <2>3. CASE phase' = "closed" /\ UNCHANGED <<wire, responseQueue, pipeliningMode>>
    BY <2>1, <2>3 DEF ConnOK, Phases
  <2>4. CASE Reply(250, rcvd, pipeliningMode, responseQueue, wire, "cmd")
    BY <2>1, <2>2, <2>4, ReplyType DEF ConnOK
  <2>5. CASE Reply(450, rcvd, pipeliningMode, responseQueue, wire, "cmd")
    BY <2>1, <2>2, <2>5, ReplyType DEF ConnOK
  <2>. QED
    BY <1>2, <2>3, <2>4, <2>5
<1>4. rec \in R
  BY DEF TypeOK
<1>5. Append(stored, rec) \in Seq(R)
  BY <1>4, AppendProperties DEF TypeOK
<1>6. /\ stored' \in Seq(R)
      /\ state' \in States /\ mailFrom' \in Env /\ rcptTo' \in Seq(Env)
      /\ pending' \in [Deferred -> Nat]
  <2>1. /\ stored \in Seq(R) /\ state \in States /\ mailFrom \in Env /\ rcptTo \in Seq(Env)
        /\ pending \in [Deferred -> Nat]
    BY DEF TypeOK
  <2>2. CASE UNCHANGED <<sessVars, stored>>
    BY <2>1, <2>2 DEF sessVars
  <2>3. CASE stored' = Append(stored, rec) /\ ResetTxn
    <3>1. "MAIL" \in States /\ << >> \in Seq(Env)
      BY DEF States
    <3>. QED
      BY <1>5, <2>3, <3>1, ResetValues DEF ResetTxn
  <2>. QED
    BY <1>2, <2>2, <2>3
<1>. QED
  BY <1>1, <1>3, <1>6 DEF TypeOK, ConnOK, Phases, clientVars

\* The initial state of a connection is well typed.
LEMMA InitType == Init => TypeOK
<1>. SUFFICES ASSUME Init PROVE TypeOK
  OBVIOUS
<1>1. MaxTxn \in Nat /\ MaxGroups \in Nat /\ PortRoles \subseteq Roles
  BY ConstantsAssumption
<1>2. NoSender \in Env /\ NoPending \in [Deferred -> Nat]
  BY ResetValues
<1>3. /\ inbox \in Seq(Item) /\ wire \in Seq(Response) /\ responseQueue \in Seq(Response)
      /\ rcptTo \in Seq(Env) /\ stored \in Seq([from : Env, to : Seq(Env), txns : SUBSET (0..MaxTxn)])
  BY DEF Init
<1>4. /\ clientTxn \in 0..MaxTxn /\ sentGroups \in 0..MaxGroups /\ bdatTxns \subseteq 0..MaxTxn
      /\ port \in PortRoles /\ state \in States /\ rcvd \in Nat /\ bdatLen \in Nat
  BY <1>1 DEF Init, States
<1>5. /\ pipeliningMode \in BOOLEAN /\ eof \in BOOLEAN /\ capPipelining \in BOOLEAN
      /\ capUTF8 \in BOOLEAN /\ authenticated \in BOOLEAN /\ tlsActive \in BOOLEAN
      /\ readerTLS \in BOOLEAN
  BY DEF Init
<1>6. /\ phase \in {"greet", "cmd", "body", "closed"} /\ advertisedSize = 0
      /\ mailFrom = NoSender /\ pending = NoPending
  BY DEF Init
<1>. QED
  BY <1>2, <1>3, <1>4, <1>5, <1>6 DEF TypeOK

\* Every step of the session keeps the state well typed.
LEMMA NextType == TypeOK /\ [Next]_vars => TypeOK'
<1>. SUFFICES ASSUME TypeOK, [Next]_vars PROVE TypeOK'
  OBVIOUS
<1>1. CASE ClientSend
  BY <1>1, ClientSendType
<1>2. CASE ClientClose
  BY <1>2 DEF ClientClose, TypeOK, sessVars, clientVars
<1>3. CASE Greet
  BY <1>3, GreetType
<1>4. CASE Receive
  BY <1>4, ReceiveType
<1>5. CASE DataBody
  BY <1>5, DataBodyType
<1>6. CASE SessionEOF
  BY <1>6 DEF SessionEOF, TypeOK, sessVars, clientVars
<1>7. CASE Terminated
  BY <1>7 DEF Terminated, TypeOK, vars, connVars, sessVars, clientVars
<1>8. CASE UNCHANGED vars
  BY <1>8 DEF TypeOK, vars, connVars, sessVars, clientVars
<1>. QED
  BY <1>1, <1>2, <1>3, <1>4, <1>5, <1>6, <1>7, <1>8 DEF Next

\* The session's type invariant holds in every reachable state.
THEOREM TypeCorrect == Spec => []TypeOK
BY InitType, NextType, PTL DEF Spec

=============================================================================
