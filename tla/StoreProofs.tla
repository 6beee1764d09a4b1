---------------------------- MODULE StoreProofs ----------------------------
(***************************************************************************)
(* What the session stores, for every value of the constants of           *)
(* Session.tla: no message whose sender scheduled a DATA error is stored, *)
(* and a stored message names no recipient given in a transaction before  *)
(* its sender's.                                                           *)
(*                                                                         *)
(* Neither is inductive.  storeMessage and the last BDAT chunk store the  *)
(* envelope as it stands, so the invariant must say what the envelope is   *)
(* whenever a store can happen: while DATA reads a body no DATA error is  *)
(* pending and the session is in the DATA state; a DATA error is pending  *)
(* whenever the sender asks for one; in the states after MAIL FROM the    *)
(* sender is set and every recipient was given no earlier than it; before *)
(* MAIL FROM there are no recipients.  A RCPT TO line's transaction is    *)
(* compared with the sender's, so the invariant also says how the client  *)
(* tags the lines still in the stream: in order, none before the current  *)
(* sender's, none after the client's count, and a MAIL FROM line never    *)
(* with transaction 0.                                                    *)
(***************************************************************************)
EXTENDS WriterProofs

\* A line that is a command, not junk.
Real(it) == it.verb # "JUNK"

\* handleMail schedules a DATA error exactly when the sender asks for one.
DataPending == mailFrom.addr.verb = "data" => pending["data"] # NoError

\* handleData reads a body only in the DATA state with no DATA error pending.
BodyClean == phase = "body" => pending["data"] = NoError /\ state = "DATA"

\* After MAIL FROM the sender is set.
SenderSet == state \in {"RCPT", "DATA", "BDAT"} => mailFrom.txn # 0

\* Every recipient was given no earlier than the sender.
RcptAfterMail == \A r \in 1..Len(rcptTo) : rcptTo[r].txn >= mailFrom.txn

\* Before MAIL FROM there are no recipients.
NoRcptOutside == state \in {"GREETING", "HELO", "MAIL", "AUTH"} => rcptTo = <<>>

\* Before the greeting the session is in its first state.
GreetState == phase = "greet" => state = "GREETING"

\* The sender's transaction is one the client has started.
SenderBelowClient == mailFrom.txn <= clientTxn

\* The lines in the stream are tagged in order.
InboxSorted ==
    \A i, j \in 1..Len(inbox) :
        i < j /\ Real(inbox[i]) /\ Real(inbox[j]) => inbox[i].txn <= inbox[j].txn

\* A line in the stream belongs to a transaction no earlier than the sender's
\* and no later than the client's count; a MAIL FROM line starts one.
InboxTagged ==
    \A i \in 1..Len(inbox) :
        Real(inbox[i]) => /\ mailFrom.txn <= inbox[i].txn
                          /\ inbox[i].txn <= clientTxn
                          /\ inbox[i].verb = "MAIL" => inbox[i].txn # 0

EnvOK == SenderSet /\ RcptAfterMail /\ NoRcptOutside /\ GreetState /\ SenderBelowClient
StreamOK == InboxSorted /\ InboxTagged
Stores == DataPending /\ BodyClean /\ NoDeliveryWithDataError /\ StoredRecipientsSameTxn

\* The inductive invariant.
SInv == TypeOK /\ EnvOK /\ StreamOK /\ Stores

\* What a step must keep besides the type invariant.
Rest == EnvOK /\ StreamOK /\ Stores

-----------------------------------------------------------------------------
(* The stream.                                                             *)

\* parsePrefixedError parses three digits: every code a sender or recipient
\* schedules is in 0..999.
LEMMA CodeRange == \A a \in Addresses : a.verb # "none" => a.code \in 0..999
BY ConstantsAssumption

\* Reading the first line, and perhaps leaving a rejected chunk's bytes in
\* its place, keeps the stream's tags in order and in range, provided the
\* sender is reset, kept, or becomes the line just read.
LEMMA StreamTail ==
    ASSUME TypeOK, StreamOK, inbox # <<>>,
           inbox' = Tail(inbox) \/ inbox' = <<Junk>> \o Tail(inbox),
           clientTxn' = clientTxn,
           mailFrom'.txn \in Nat,
           \/ mailFrom'.txn <= mailFrom.txn
           \/ Real(Head(inbox)) /\ mailFrom'.txn = Head(inbox).txn
    PROVE  StreamOK'
<1>. DEFINE T == Tail(inbox)
<1>1. /\ inbox \in Seq(Item) /\ T \in Seq(Item) /\ Len(T) = Len(inbox) - 1
      /\ \A i \in 1..Len(T) : T[i] = inbox[i + 1]
      /\ Head(inbox) = inbox[1] /\ Len(inbox) >= 1
  BY HeadTailProperties DEF TypeOK
<1>2. \A i \in 1..Len(inbox) : inbox[i].txn \in 0..MaxTxn
  BY <1>1, ItemFields
<1>3. mailFrom.txn \in Nat /\ clientTxn \in Nat
  BY DEF TypeOK, Env
<1>4. \A i, j \in 1..Len(T) :
         i < j /\ Real(T[i]) /\ Real(T[j]) => T[i].txn <= T[j].txn
  BY <1>1 DEF StreamOK, InboxSorted
<1>5. \A i \in 1..Len(T) : Real(T[i]) => mailFrom'.txn <= T[i].txn
  <2>1. CASE mailFrom'.txn <= mailFrom.txn
    BY <1>1, <1>2, <1>3, <2>1 DEF StreamOK, InboxTagged
  <2>2. CASE Real(Head(inbox)) /\ mailFrom'.txn = Head(inbox).txn
    BY <1>1, <2>2 DEF StreamOK, InboxSorted
  <2>. QED
    BY <2>1, <2>2
<1>6. \A i \in 1..Len(T) :
         Real(T[i]) => T[i].txn <= clientTxn' /\ (T[i].verb = "MAIL" => T[i].txn # 0)
  BY <1>1 DEF StreamOK, InboxTagged
<1>7. CASE inbox' = T
  BY <1>4, <1>5, <1>6, <1>7 DEF StreamOK, InboxSorted, InboxTagged
<1>8. CASE inbox' = <<Junk>> \o T
  <2>1. <<Junk>> \in Seq(Item)
    BY JunkItem
  <2>2. /\ Len(inbox') = Len(T) + 1
        /\ inbox'[1] = Junk
        /\ \A i \in 2..Len(inbox') : inbox'[i] = T[i - 1]
    BY <1>1, <1>8, <2>1, ConcatProperties
  <2>3. ~Real(Junk)
    BY DEF Real, Junk
  <2>4. \A i \in 1..Len(inbox') : Real(inbox'[i]) => i - 1 \in 1..Len(T) /\ inbox'[i] = T[i - 1]
    BY <2>2, <2>3
  <2>5. InboxSorted'
    <3>. SUFFICES ASSUME NEW i \in 1..Len(inbox'), NEW j \in 1..Len(inbox'),
                        i < j, Real(inbox'[i]), Real(inbox'[j])
                 PROVE  inbox'[i].txn <= inbox'[j].txn
      BY DEF InboxSorted
    <3>1. i - 1 \in 1..Len(T) /\ j - 1 \in 1..Len(T) /\ i - 1 < j - 1
      BY <2>4
    <3>. QED
      BY <1>4, <2>4, <3>1
  <2>6. InboxTagged'
    <3>. SUFFICES ASSUME NEW i \in 1..Len(inbox'), Real(inbox'[i])
                 PROVE  /\ mailFrom'.txn <= inbox'[i].txn
                        /\ inbox'[i].txn <= clientTxn'
                        /\ inbox'[i].verb = "MAIL" => inbox'[i].txn # 0
      BY DEF InboxTagged
    <3>. QED
      BY <1>5, <1>6, <2>4
  <2>. QED
    BY <2>5, <2>6 DEF StreamOK
<1>. QED
  BY <1>7, <1>8

\* The MAIL FROM lines among the first i lines of a group are at most those
\* among the first j, for i <= j.
LEMMA MailsBetween ==
    ASSUME NEW g \in Seq(Template), NEW i \in 0..Len(g), NEW j \in 0..Len(g), i <= j
    PROVE  /\ MailsUpTo(g, i) \in Nat
           /\ MailsUpTo(g, i) <= MailsUpTo(g, j)
<1>1. IsFiniteSet(1..j)
  BY FS_Interval
<1>2. {k \in 1..i : g[k].verb = "MAIL"} \subseteq {k \in 1..j : g[k].verb = "MAIL"}
  OBVIOUS
<1>3. IsFiniteSet({k \in 1..j : g[k].verb = "MAIL"})
  BY <1>1, FS_Subset
<1>. QED
  BY <1>2, <1>3, FS_Subset, FS_CardinalityType DEF MailsUpTo

\* A MAIL FROM line is counted among the lines up to itself.
LEMMA MailCounted ==
    ASSUME NEW g \in Seq(Template), NEW i \in 1..Len(g), g[i].verb = "MAIL"
    PROVE  MailsUpTo(g, i) >= 1
<1>. DEFINE S == {k \in 1..i : g[k].verb = "MAIL"}
<1>1. IsFiniteSet(S)
  <2>1. IsFiniteSet(1..i)
    BY FS_Interval
  <2>. QED
    BY <2>1, FS_Subset
<1>2. S # {} /\ Cardinality(S) \in Nat
  BY <1>1, FS_CardinalityType
<1>3. Cardinality(S) # 0
  BY <1>1, <1>2, FS_EmptySet
<1>. QED
  BY <1>2, <1>3 DEF MailsUpTo

\* The client tags a burst in order, every line with a transaction after
\* the ones it started before, and a MAIL FROM line with the one it starts.
LEMMA StampTags ==
    ASSUME NEW g \in Seq(Template), clientTxn \in Nat
    PROVE  /\ Len(Stamp(g)) = Len(g)
           /\ \A i \in 1..Len(g) :
                 /\ Stamp(g)[i].verb = g[i].verb
                 /\ Stamp(g)[i].txn = clientTxn + MailsUpTo(g, i)
                 /\ Stamp(g)[i].txn \in Nat
                 /\ clientTxn <= Stamp(g)[i].txn
                 /\ Stamp(g)[i].txn <= clientTxn + MailsUpTo(g, Len(g))
                 /\ g[i].verb = "MAIL" => Stamp(g)[i].txn # 0
           /\ \A i, j \in 1..Len(g) : i < j => Stamp(g)[i].txn <= Stamp(g)[j].txn
<1>1. \A i \in 1..Len(g) : g[i] \in [verb : Verbs, arg : UNION {ArgOf(v) : v \in Verbs}, txn : {0}]
  BY DEF Template
<1>2. \A i \in 1..Len(g) : /\ Stamp(g)[i].verb = g[i].verb
                           /\ Stamp(g)[i].txn = clientTxn + MailsUpTo(g, i)
  BY <1>1 DEF Stamp
<1>3. \A i \in 1..Len(g) : MailsUpTo(g, i) \in Nat /\ MailsUpTo(g, i) <= MailsUpTo(g, Len(g))
  BY MailsBetween
<1>4. \A i \in 1..Len(g) : g[i].verb = "MAIL" => MailsUpTo(g, i) >= 1
  BY MailCounted
<1>5. \A i, j \in 1..Len(g) : i < j => MailsUpTo(g, i) <= MailsUpTo(g, j)
  BY MailsBetween
<1>6. Len(Stamp(g)) = Len(g)
  BY DEF Stamp
<1>7. \A i \in 1..Len(g) :
         /\ Stamp(g)[i].txn \in Nat
         /\ clientTxn <= Stamp(g)[i].txn
         /\ Stamp(g)[i].txn <= clientTxn + MailsUpTo(g, Len(g))
         /\ g[i].verb = "MAIL" => Stamp(g)[i].txn # 0
  <2>1. MailsUpTo(g, Len(g)) \in Nat
    BY MailsMonotone
  <2>. QED
    BY <1>2, <1>3, <1>4, <2>1
<1>8. \A i, j \in 1..Len(g) : i < j => Stamp(g)[i].txn <= Stamp(g)[j].txn
  BY <1>2, <1>3, <1>5
<1>. QED
  BY <1>2, <1>6, <1>7, <1>8

-----------------------------------------------------------------------------
(* Steps that keep the envelope, reset it, or store it.                    *)

\* A step that leaves the stream, the envelope, the client's count and the
\* store as they are, and stays, reads a command line or closes, keeps the
\* invariant.
LEMMA QuietRest ==
    ASSUME SInv, UNCHANGED <<inbox, state, mailFrom, rcptTo, pending, stored, clientTxn>>,
           phase' = phase \/ phase' \in {"cmd", "closed"}
    PROVE  Rest'
BY DEF SInv, Rest, EnvOK, StreamOK, Stores, SenderSet, RcptAfterMail, NoRcptOutside,
       GreetState, SenderBelowClient, InboxSorted, InboxTagged, DataPending, BodyClean,
       NoDeliveryWithDataError, StoredRecipientsSameTxn

\* A handler that answers on the command line, reads its line (perhaps
\* leaving a rejected chunk's bytes) and leaves the envelope and the store
\* as they are keeps the invariant, if any new state it enters before
\* MAIL FROM has no recipients and any state after MAIL FROM it enters is
\* entered from one.
LEMMA KeepEnvelope ==
    ASSUME SInv, HandlerCtx, phase' \in {"cmd", "closed"},
           inbox' = Tail(inbox) \/ inbox' = <<Junk>> \o Tail(inbox),
           UNCHANGED <<mailFrom, rcptTo, pending, stored>>,
           \/ state' = state
           \/ state' = "QUIT"
           \/ state' \in {"HELO", "MAIL"} /\ rcptTo = <<>>
           \/ state' \in {"RCPT", "BDAT"} /\ state \in {"RCPT", "BDAT"}
    PROVE  Rest'
<1>1. CmdCtx /\ clientTxn' = clientTxn
  BY DEF HandlerCtx, clientVars
<1>2. StreamOK'
  <2>1. mailFrom'.txn \in Nat /\ mailFrom'.txn <= mailFrom.txn
    BY DEF SInv, TypeOK, Env
  <2>. QED
    BY <1>1, <2>1, StreamTail DEF SInv, CmdCtx
<1>3. EnvOK'
  BY <1>1 DEF SInv, EnvOK, SenderSet, RcptAfterMail, NoRcptOutside, GreetState,
             SenderBelowClient
<1>4. Stores'
  BY DEF SInv, Stores, DataPending, BodyClean, NoDeliveryWithDataError,
         StoredRecipientsSameTxn
<1>. QED
  BY <1>2, <1>3, <1>4 DEF Rest

\* resetSessionState leaves no sender, no recipient and no scheduled error.
LEMMA ResetRest ==
    ASSUME ResetTxn, clientTxn' \in Nat, phase' \in {"cmd", "closed"}
    PROVE  EnvOK' /\ DataPending' /\ BodyClean'
<1>1. mailFrom' = NoSender /\ rcptTo' = <<>> /\ state' = "MAIL" /\ pending' = NoPending
  BY DEF ResetTxn
<1>2. mailFrom'.txn = 0 /\ mailFrom'.addr.verb = "none"
  BY <1>1 DEF NoSender, NoAddr
<1>. QED
  BY <1>1, <1>2 DEF EnvOK, SenderSet, RcptAfterMail, NoRcptOutside, GreetState,
                    SenderBelowClient, DataPending, BodyClean

\* storeMessage, and the last BDAT chunk: storing the envelope of a sender
\* that is set and asked for no DATA error keeps what the store promises.
LEMMA StoreRest ==
    ASSUME TypeOK, NoDeliveryWithDataError, StoredRecipientsSameTxn, RcptAfterMail,
           mailFrom.txn # 0, mailFrom.addr.verb # "data",
           NEW X, stored' = Append(stored, [from |-> mailFrom, to |-> rcptTo, txns |-> X])
    PROVE  NoDeliveryWithDataError' /\ StoredRecipientsSameTxn'
<1>. DEFINE m == [from |-> mailFrom, to |-> rcptTo, txns |-> X]
<1>1. /\ stored \in Seq([from : Env, to : Seq(Env), txns : SUBSET (0..MaxTxn)])
      /\ \A k \in 1..Len(stored') : stored'[k] = IF k <= Len(stored) THEN stored[k] ELSE m
      /\ Len(stored') = Len(stored) + 1
  <2>1. stored \in Seq([from : Env, to : Seq(Env), txns : SUBSET (0..MaxTxn)])
    BY DEF TypeOK
  <2>2. stored' = stored \o <<m>>
    BY <2>1, AppendIsConcat
  <2>3. <<m>> \in Seq({m})
    OBVIOUS
  <2>. QED
    BY <2>1, <2>2, <2>3, ConcatProperties
<1>. QED
  BY <1>1 DEF NoDeliveryWithDataError, StoredRecipientsSameTxn, RcptAfterMail

-----------------------------------------------------------------------------
(* The handlers of a command line.                                         *)

\* A handler that answers on the command line does not start a body.
LEMMA AnsweredPhase ==
    ASSUME CmdAnswered
    PROVE  phase' \in {"cmd", "closed"}
BY DEF CmdAnswered, Answer, Reply

\* The line handled is the first line of the stream unless it is junk.
LEMMA CmdIsHead ==
    ASSUME CmdCtx, Real(Cmd)
    PROVE  /\ Cmd = Head(inbox) /\ Cmd = inbox[1] /\ Len(inbox) >= 1
           /\ Real(inbox[1])
<1>1. Cmd = Head(inbox)
  BY DEF Cmd, Real, Junk
<1>. QED
  BY <1>1 DEF CmdCtx, TypeOK

\* parseAndLogCommand's 500 and 503.
LEMMA RejectRest ==
    ASSUME SInv, HandlerCtx, Reject
    PROVE  Rest'
<1>1. phase' \in {"cmd", "closed"}
  BY DEF Reject, Reply
<1>2. inbox' = Tail(inbox) \/ inbox' = <<Junk>> \o Tail(inbox)
  BY DEF Reject, Unread
<1>. QED
  BY <1>1, <1>2, KeepEnvelope DEF Reject, sessVars

\* handleHelo and handleEhlo: only HELO's state moves on, to MAIL.
LEMMA HeloRest ==
    ASSUME SInv, HandlerCtx, Helo
    PROVE  Rest'
<1>1. phase' \in {"cmd", "closed"}
  BY HeloAnswers, AnsweredPhase
<1>2. state' = state \/ (state = "HELO" /\ state' = "MAIL")
  BY DEF Helo, sessVars
<1>3. state' = state \/ (state' \in {"HELO", "MAIL"} /\ rcptTo = <<>>)
  BY <1>2 DEF SInv, EnvOK, NoRcptOutside
<1>. QED
  BY <1>1, <1>3, KeepEnvelope DEF Helo, sessVars, txnVars

\* handleAuth: a successful login goes on in MAIL, from MAIL or AUTH.
LEMMA AuthRest ==
    ASSUME SInv, HandlerCtx, Auth
    PROVE  Rest'
<1>1. phase' \in {"cmd", "closed"}
  BY AuthAnswers, AnsweredPhase
<1>2. state' = state \/ (state \in {"MAIL", "AUTH"} /\ state' = "MAIL")
  BY DEF Auth, sessVars, Admitted, Allowed
<1>3. state' = state \/ (state' \in {"HELO", "MAIL"} /\ rcptTo = <<>>)
  BY <1>2 DEF SInv, EnvOK, NoRcptOutside
<1>. QED
  BY <1>1, <1>3, KeepEnvelope DEF Auth, sessVars, txnVars

\* handleNoop.
LEMMA NoopRest ==
    ASSUME SInv, HandlerCtx, Noop
    PROVE  Rest'
BY NoopAnswers, AnsweredPhase, KeepEnvelope DEF Noop, sessVars

\* handleVrfy.
LEMMA VrfyRest ==
    ASSUME SInv, HandlerCtx, Vrfy
    PROVE  Rest'
BY VrfyAnswers, AnsweredPhase, KeepEnvelope DEF Vrfy, sessVars

\* handleStartTLS: the upgrade goes back to HELO, from HELO or MAIL.
LEMMA StartTLSRest ==
    ASSUME SInv, HandlerCtx, StartTLS
    PROVE  Rest'
<1>1. phase' \in {"cmd", "closed"}
  BY StartTLSAnswers, AnsweredPhase
<1>2. state' = state \/ (state \in {"HELO", "MAIL"} /\ state' = "HELO")
  BY DEF StartTLS, sessVars, Admitted, Allowed
<1>3. state' = state \/ (state' \in {"HELO", "MAIL"} /\ rcptTo = <<>>)
  BY <1>2 DEF SInv, EnvOK, NoRcptOutside
<1>. QED
  BY <1>1, <1>3, KeepEnvelope DEF StartTLS, sessVars, txnVars

\* handleQuit.
LEMMA QuitRest ==
    ASSUME SInv, HandlerCtx, Quit
    PROVE  Rest'
<1>1. phase' \in {"cmd", "closed"}
  BY QuitAnswers, AnsweredPhase
<1>2. state' = state \/ state' = "QUIT"
  BY DEF Quit
<1>. QED
  BY <1>1, <1>2, KeepEnvelope DEF Quit, txnVars

\* What handleMail sets when it accepts a sender.
MailSets(a, t) ==
    /\ a \in Addresses
    /\ pending' = PendingFrom(a)
    /\ mailFrom' = [addr |-> a, txn |-> t]

\* A sender that asks for a DATA error gets one scheduled: handleMail
\* keeps DataPending.
LEMMA MailDataPending ==
    ASSUME NEW a, NEW t, MailSets(a, t)
    PROVE  DataPending'
<1>1. a.verb = "data" => a.code \in 0..999
  BY CodeRange DEF MailSets
<1>2. /\ mailFrom'.addr = a
      /\ pending'["data"] = IF a.verb = "data" THEN a.code ELSE NoError
  BY DEF MailSets, PendingFrom, Deferred
<1>3. mailFrom'.addr.verb = "data" => pending'["data"] \in 0..999
  BY <1>1, <1>2
<1>. QED
  BY <1>3 DEF DataPending, NoError

\* handleMail: a refused sender leaves the envelope alone; an accepted one,
\* in MAIL where there are no recipients, becomes the line's transaction,
\* which is not 0 and not after the client's count, with the DATA error
\* its local part asks for.
LEMMA MailRest ==
    ASSUME SInv, HandlerCtx, Mail
    PROVE  Rest'
<1>1. CmdCtx /\ clientTxn' = clientTxn /\ inbox' = Tail(inbox)
  BY DEF HandlerCtx, clientVars, Mail
<1>2. phase' \in {"cmd", "closed"}
  BY MailAnswers, AnsweredPhase
<1>3. CASE UNCHANGED sessVars
  BY <1>2, <1>3, KeepEnvelope DEF Mail, sessVars
<1>4. CASE /\ ValidMailbox(Cmd.arg)
           /\ Cmd.arg.verb # "mail"
           /\ pending' = PendingFrom(Cmd.arg)
           /\ mailFrom' = [addr |-> Cmd.arg, txn |-> Cmd.txn]
           /\ state' = "RCPT"
           /\ UNCHANGED rcptTo
  <2>1. Cmd.verb = "MAIL" /\ state = "MAIL"
    BY DEF Mail, Admitted, Allowed
  <2>2. Real(Cmd) /\ Cmd = Head(inbox) /\ Cmd = inbox[1] /\ Len(inbox) >= 1
    BY <1>1, <2>1, CmdIsHead DEF Real
  <2>3. /\ mailFrom.txn <= Cmd.txn /\ Cmd.txn <= clientTxn /\ Cmd.txn # 0
    BY <2>1, <2>2 DEF SInv, StreamOK, InboxTagged
  <2>4. Cmd.txn \in Nat /\ Cmd.arg \in Addresses
    BY <1>1, <2>1, CmdType DEF ArgOf
  <2>5. rcptTo = <<>>
    BY <2>1 DEF SInv, EnvOK, NoRcptOutside
  <2>6. StreamOK'
    BY <1>1, <1>4, <2>2, <2>4, StreamTail DEF SInv, CmdCtx
  <2>7. EnvOK'
    BY <1>1, <1>2, <1>4, <2>3, <2>5 DEF EnvOK, SenderSet, RcptAfterMail, NoRcptOutside,
                                         GreetState, SenderBelowClient
  <2>8. DataPending'
    <3>1. MailSets(Cmd.arg, Cmd.txn)
      BY <1>4, <2>4 DEF MailSets
    <3>. QED
      BY <3>1, MailDataPending
  <2>9. UNCHANGED stored
    BY DEF Mail
  <2>. QED
    BY <1>2, <2>6, <2>7, <2>8, <2>9 DEF Rest, Stores, SInv, BodyClean,
                                       NoDeliveryWithDataError, StoredRecipientsSameTxn
<1>. QED
  BY <1>3, <1>4 DEF Mail

\* handleRcpt: an accepted recipient, given in the RCPT state, carries its
\* line's transaction, which is no earlier than the sender's.
LEMMA RcptRest ==
    ASSUME SInv, HandlerCtx, Rcpt
    PROVE  Rest'
<1>1. CmdCtx /\ clientTxn' = clientTxn /\ inbox' = Tail(inbox)
  BY DEF HandlerCtx, clientVars, Rcpt
<1>2. phase' \in {"cmd", "closed"}
  BY RcptAnswers, AnsweredPhase
<1>3. CASE UNCHANGED sessVars
  BY <1>2, <1>3, KeepEnvelope DEF Rcpt, sessVars
<1>4. CASE /\ rcptTo' = Append(rcptTo, [addr |-> Cmd.arg, txn |-> Cmd.txn])
           /\ UNCHANGED <<state, mailFrom, pending>>
  <2>1. Cmd.verb = "RCPT" /\ state = "RCPT"
    BY DEF Rcpt, Admitted, Allowed
  <2>2. Real(Cmd) /\ Cmd = inbox[1] /\ Len(inbox) >= 1
    BY <1>1, <2>1, CmdIsHead DEF Real
  <2>3. mailFrom.txn <= Cmd.txn
    BY <2>2 DEF SInv, StreamOK, InboxTagged
  <2>4. StreamOK'
    BY <1>1, <1>4, StreamTail DEF SInv, CmdCtx, TypeOK, Env
  <2>5. RcptAfterMail'
    <3>1. rcptTo \in Seq(Env) /\ [addr |-> Cmd.arg, txn |-> Cmd.txn] \in [addr : ArgOf("RCPT"), txn : 0..MaxTxn]
      BY <1>1, <2>1, CmdType DEF CmdCtx, TypeOK
    <3>2. /\ Len(rcptTo') = Len(rcptTo) + 1
          /\ \A r \in 1..Len(rcptTo) : rcptTo'[r] = rcptTo[r]
          /\ rcptTo'[Len(rcptTo) + 1].txn = Cmd.txn
      <4>1. rcptTo \in Seq(UNION {Env, [addr : ArgOf("RCPT"), txn : 0..MaxTxn]})
        BY <3>1
      <4>. QED
        BY <1>4, <3>1, <4>1, AppendProperties
    <3>. QED
      BY <1>4, <2>3, <3>2 DEF SInv, EnvOK, RcptAfterMail
  <2>6. EnvOK'
    BY <1>1, <1>2, <1>4, <2>1, <2>5 DEF SInv, EnvOK, SenderSet, NoRcptOutside, GreetState,
                                  SenderBelowClient
  <2>7. Stores'
    BY <1>2, <1>4 DEF Rcpt, SInv, Stores, DataPending, BodyClean,
                      NoDeliveryWithDataError, StoredRecipientsSameTxn
  <2>. QED
    BY <2>4, <2>6, <2>7 DEF Rest
<1>. QED
  BY <1>3, <1>4 DEF Rcpt

\* handleData: the 354 that starts a body is written in RCPT, where the
\* sender is set, and only when MAIL FROM scheduled no DATA error.
LEMMA DataRest ==
    ASSUME SInv, HandlerCtx, Data
    PROVE  Rest'
<1>1. CmdCtx /\ clientTxn' = clientTxn /\ inbox' = Tail(inbox)
  BY DEF HandlerCtx, clientVars, Data
<1>2. CASE pending["data"] # NoError /\ Answer(pending["data"], "cmd") /\ UNCHANGED sessVars
  <2>1. phase' \in {"cmd", "closed"}
    BY <1>2 DEF Answer, Reply
  <2>. QED
    BY <1>1, <1>2, <2>1, KeepEnvelope DEF Data, sessVars
<1>3. CASE /\ pending["data"] = NoError
           /\ state' = "DATA"
           /\ Answer(354, "body")
           /\ UNCHANGED txnVars
  <2>1. state = "RCPT" /\ phase' \in {"body", "closed"}
    BY <1>3 DEF Data, Admitted, Allowed, Answer, Reply
  <2>2. StreamOK'
    BY <1>1, <1>3, StreamTail DEF SInv, CmdCtx, TypeOK, Env, txnVars
  <2>3. EnvOK'
    BY <1>1, <1>3, <2>1 DEF SInv, EnvOK, SenderSet, RcptAfterMail, NoRcptOutside,
                            GreetState, SenderBelowClient, txnVars
  <2>4. Stores'
    BY <1>3, <2>1 DEF Data, SInv, Stores, DataPending, BodyClean, NoDeliveryWithDataError,
                      StoredRecipientsSameTxn, txnVars
  <2>. QED
    BY <2>2, <2>3, <2>4 DEF Rest
<1>. QED
  BY <1>2, <1>3 DEF Data

\* handleRset: a reset goes back to MAIL with no sender and no recipient.
LEMMA RsetRest ==
    ASSUME SInv, HandlerCtx, Rset
    PROVE  Rest'
<1>1. CmdCtx /\ clientTxn' = clientTxn /\ inbox' = Tail(inbox)
  BY DEF HandlerCtx, clientVars, Rset
<1>2. phase' \in {"cmd", "closed"}
  BY RsetAnswers, AnsweredPhase
<1>3. CASE UNCHANGED sessVars
  BY <1>1, <1>2, <1>3, KeepEnvelope DEF Rset, sessVars
<1>4. CASE state' = "MAIL" /\ mailFrom' = NoSender /\ rcptTo' = <<>> /\ UNCHANGED pending
  <2>1. mailFrom'.txn = 0 /\ mailFrom'.addr.verb = "none"
    BY <1>4 DEF NoSender, NoAddr
  <2>2. StreamOK'
    BY <1>1, <2>1, StreamTail DEF SInv, CmdCtx, TypeOK, Env
  <2>3. EnvOK'
    BY <1>1, <1>2, <1>4, <2>1 DEF SInv, EnvOK, SenderSet, RcptAfterMail, NoRcptOutside,
                                  GreetState, SenderBelowClient, TypeOK
  <2>4. Stores'
    BY <1>2, <1>4, <2>1 DEF Rset, SInv, Stores, DataPending, BodyClean,
                            NoDeliveryWithDataError, StoredRecipientsSameTxn
  <2>. QED
    BY <2>2, <2>3, <2>4 DEF Rest
<1>. QED
  BY <1>3, <1>4 DEF Rset

\* handleBdat: the last chunk stores the envelope only when MAIL FROM
\* scheduled no DATA error; the sender is set in RCPT and BDAT.
LEMMA BdatRest ==
    ASSUME SInv, HandlerCtx, Bdat
    PROVE  Rest'
<1>1. CmdCtx /\ clientTxn' = clientTxn /\ state \in {"RCPT", "BDAT"}
  BY DEF HandlerCtx, clientVars, Bdat, Admitted, Allowed
<1>2. phase' \in {"cmd", "closed"}
  BY BdatAnswers, AnsweredPhase
<1>3. CASE inbox' = Unread /\ UNCHANGED <<sessVars, stored>>
  <2>1. inbox' = Tail(inbox) \/ inbox' = <<Junk>> \o Tail(inbox)
    BY <1>3 DEF Unread
  <2>. QED
    BY <1>2, <1>3, <2>1, KeepEnvelope DEF sessVars
<1>4. CASE inbox' = Tail(inbox) /\ UNCHANGED <<state, txnVars, stored>>
  BY <1>2, <1>4, KeepEnvelope DEF txnVars
<1>5. CASE inbox' = Tail(inbox) /\ state' = "BDAT" /\ UNCHANGED <<txnVars, stored>>
  BY <1>1, <1>2, <1>5, KeepEnvelope DEF txnVars
<1>6. CASE /\ inbox' = Tail(inbox)
           /\ pending["data"] = NoError
           /\ stored' = Append(stored, [from |-> mailFrom, to |-> rcptTo,
                                        txns |-> bdatTxns \cup (IF Cmd.arg.size > 0
                                                                THEN {Cmd.txn} ELSE {})])
           /\ ResetTxn
  <2>1. mailFrom.txn # 0 /\ mailFrom.addr.verb # "data"
    BY <1>1, <1>6 DEF SInv, EnvOK, SenderSet, Stores, DataPending
  <2>2. NoDeliveryWithDataError' /\ StoredRecipientsSameTxn'
    BY <1>6, <2>1, StoreRest DEF SInv, EnvOK, Stores
  <2>3. EnvOK' /\ DataPending' /\ BodyClean'
    BY <1>1, <1>2, <1>6, ResetRest DEF SInv, TypeOK
  <2>4. StreamOK'
    <3>1. mailFrom'.txn = 0
      BY <1>6 DEF ResetTxn, NoSender
    <3>. QED
      BY <1>1, <1>6, <3>1, StreamTail DEF SInv, CmdCtx, TypeOK, Env
  <2>. QED
    BY <2>2, <2>3, <2>4 DEF Rest, Stores
<1>. QED
  BY <1>3, <1>4, <1>5, <1>6 DEF Bdat

\* One pass of runCommandLoop.
LEMMA ReceiveRest ==
    ASSUME SInv, Receive
    PROVE  Rest'
<1>1. HandlerCtx
  BY DEF Receive, HandlerCtx, CmdCtx, SInv
<1>. QED
  BY <1>1, RejectRest, HeloRest, AuthRest, MailRest, RcptRest, DataRest, BdatRest,
     RsetRest, NoopRest, VrfyRest, StartTLSRest, QuitRest DEF Receive

-----------------------------------------------------------------------------
(* The other steps.                                                        *)

\* handleData after the 354: a body within the size limit is stored with
\* the envelope of a sender that is set (the state is DATA) and that asked
\* for no DATA error (none is pending), and the envelope is reset.
LEMMA DataBodyRest ==
    ASSUME SInv, DataBody
    PROVE  Rest'
<1>1. phase = "body" /\ UNCHANGED <<inbox, clientTxn>>
  BY DEF DataBody, clientVars
<1>2. pending["data"] = NoError /\ state = "DATA"
  BY <1>1 DEF SInv, Stores, BodyClean
<1>3. mailFrom.txn # 0 /\ mailFrom.addr.verb # "data"
  BY <1>2 DEF SInv, EnvOK, SenderSet, Stores, DataPending
<1>4. CASE phase' = "closed" /\ UNCHANGED <<sessVars, stored>>
  BY <1>1, <1>4, QuietRest DEF sessVars
<1>5. CASE /\ Reply(450, rcvd, pipeliningMode, responseQueue, wire, "cmd")
           /\ UNCHANGED <<sessVars, stored>>
  <2>1. phase' \in {"cmd", "closed"}
    BY <1>5 DEF Reply
  <2>. QED
    BY <1>1, <1>5, <2>1, QuietRest DEF sessVars
<1>6. CASE /\ stored' = Append(stored, [from |-> mailFrom, to |-> rcptTo, txns |-> {clientTxn}])
           /\ ResetTxn
           /\ Reply(250, rcvd, pipeliningMode, responseQueue, wire, "cmd")
  <2>1. phase' \in {"cmd", "closed"}
    BY <1>6 DEF Reply
  <2>2. NoDeliveryWithDataError' /\ StoredRecipientsSameTxn'
    BY <1>3, <1>6, StoreRest DEF SInv, EnvOK, Stores
  <2>3. EnvOK' /\ DataPending' /\ BodyClean'
    BY <1>1, <1>6, <2>1, ResetRest DEF SInv, TypeOK
  <2>4. StreamOK'
    <3>1. mailFrom'.txn = 0 /\ \A i \in 1..Len(inbox) : inbox[i].txn \in Nat
      BY <1>6, ItemFields DEF ResetTxn, NoSender, SInv, TypeOK
    <3>. QED
      BY <1>1, <3>1 DEF SInv, StreamOK, InboxSorted, InboxTagged
  <2>. QED
    BY <2>2, <2>3, <2>4 DEF Rest, Stores
<1>. QED
  BY <1>4, <1>5, <1>6 DEF DataBody

\* setupSessionBehaviourAndGreet: the greeting leaves GREETING, where there
\* are no recipients, for HELO.
LEMMA GreetRest ==
    ASSUME SInv, Greet
    PROVE  Rest'
<1>1. /\ phase = "greet" /\ phase' \in {"closed", "cmd"}
      /\ state' \in {state, "HELO"}
      /\ UNCHANGED <<inbox, txnVars, stored, clientTxn>>
  BY DEF Greet, clientVars
<1>2. rcptTo = <<>>
  BY <1>1 DEF SInv, EnvOK, GreetState, NoRcptOutside
<1>. QED
  BY <1>1, <1>2 DEF SInv, Rest, EnvOK, StreamOK, Stores, SenderSet, RcptAfterMail,
                    NoRcptOutside, GreetState, SenderBelowClient, InboxSorted, InboxTagged,
                    DataPending, BodyClean, NoDeliveryWithDataError,
                    StoredRecipientsSameTxn, txnVars

\* The client writes a burst: it tags it after the transactions it started
\* before, and in order.
LEMMA ClientSendRest ==
    ASSUME SInv, ClientSend
    PROVE  Rest'
<1>1. PICK g \in Groups :
          /\ clientTxn + MailsUpTo(g, Len(g)) <= MaxTxn
          /\ inbox' = Stamp(g)
          /\ clientTxn' = clientTxn + MailsUpTo(g, Len(g))
  BY DEF ClientSend
<1>2. g \in Seq(Template) /\ clientTxn \in Nat /\ mailFrom.txn <= clientTxn
  BY ConstantsAssumption DEF SInv, TypeOK, EnvOK, SenderBelowClient
<1>3. UNCHANGED <<phase, state, mailFrom, rcptTo, pending, stored>>
  BY DEF ClientSend, sessVars
<1>5. clientTxn <= clientTxn' /\ clientTxn' \in Nat
  BY <1>1, <1>2, MailsMonotone
<1>4. StreamOK'
  <2>1. /\ Len(inbox') = Len(g)
        /\ \A i \in 1..Len(g) :
              /\ inbox'[i].verb = g[i].verb
              /\ inbox'[i].txn \in Nat
              /\ clientTxn <= inbox'[i].txn
              /\ inbox'[i].txn <= clientTxn'
              /\ g[i].verb = "MAIL" => inbox'[i].txn # 0
        /\ \A i, j \in 1..Len(g) : i < j => inbox'[i].txn <= inbox'[j].txn
    BY <1>1, <1>2, StampTags
  <2>2. InboxSorted'
    BY <2>1 DEF InboxSorted
  <2>3. InboxTagged'
    <3>. SUFFICES ASSUME NEW i \in 1..Len(inbox'), Real(inbox'[i])
                 PROVE  /\ mailFrom'.txn <= inbox'[i].txn
                        /\ inbox'[i].txn <= clientTxn'
                        /\ inbox'[i].verb = "MAIL" => inbox'[i].txn # 0
      BY DEF InboxTagged
    <3>1. i \in 1..Len(g) /\ mailFrom'.txn = mailFrom.txn
      BY <1>3, <2>1
    <3>2. mailFrom.txn \in Nat
      BY DEF SInv, TypeOK, Env
    <3>3. /\ inbox'[i].txn \in Nat /\ clientTxn <= inbox'[i].txn
          /\ inbox'[i].txn <= clientTxn'
          /\ inbox'[i].verb = "MAIL" => inbox'[i].txn # 0
      BY <2>1, <3>1
    <3>4. mailFrom'.txn <= inbox'[i].txn
      BY <1>2, <3>1, <3>2, <3>3
    <3>. QED
      BY <3>3, <3>4
  <2>. QED
    BY <2>2, <2>3 DEF StreamOK
<1>6. EnvOK'
  <2>1. mailFrom.txn <= clientTxn'
    BY <1>2, <1>5 DEF SInv, TypeOK, Env
  <2>. QED
    BY <1>3, <2>1 DEF SInv, EnvOK, SenderSet, RcptAfterMail, NoRcptOutside, GreetState,
                      SenderBelowClient
<1>7. Stores'
  BY <1>3 DEF SInv, Stores, DataPending, BodyClean, NoDeliveryWithDataError,
              StoredRecipientsSameTxn
<1>. QED
  BY <1>4, <1>6, <1>7 DEF Rest

\* Every step of the session keeps the invariant.
LEMMA NextRest == SInv /\ [Next]_vars => SInv'
<1>. SUFFICES ASSUME SInv, [Next]_vars PROVE SInv'
  OBVIOUS
<1>1. TypeOK'
  BY NextType DEF SInv
<1>2. Rest'
  <2>1. CASE Receive
    BY <2>1, ReceiveRest
  <2>2. CASE DataBody
    BY <2>2, DataBodyRest
  <2>3. CASE Greet
    BY <2>3, GreetRest
  <2>4. CASE ClientSend
    BY <2>4, ClientSendRest
  <2>5. CASE ClientClose \/ SessionEOF \/ Terminated \/ UNCHANGED vars
    <3>1. UNCHANGED <<inbox, state, mailFrom, rcptTo, pending, stored, clientTxn>>
      BY <2>5 DEF ClientClose, SessionEOF, Terminated, vars, connVars, sessVars, clientVars
    <3>2. phase' = phase \/ phase' \in {"cmd", "closed"}
      BY <2>5 DEF ClientClose, SessionEOF, Terminated, vars, connVars
    <3>. QED
      BY <3>1, <3>2, QuietRest
  <2>. QED
    BY <2>1, <2>2, <2>3, <2>4, <2>5 DEF Next
<1>. QED
  BY <1>1, <1>2 DEF SInv, Rest

\* A connection starts with no sender, no recipient, an empty stream and
\* an empty store.
LEMMA InitRest == Init => SInv
<1>. SUFFICES ASSUME Init PROVE SInv
  OBVIOUS
<1>1. TypeOK
  BY InitType
<1>2. mailFrom.txn = 0 /\ mailFrom.addr.verb = "none"
  BY DEF Init, NoSender, NoAddr
<1>. QED
  BY <1>1, <1>2 DEF Init, SInv, EnvOK, StreamOK, Stores, SenderSet, RcptAfterMail,
                    NoRcptOutside, GreetState, SenderBelowClient, InboxSorted, InboxTagged,
                    DataPending, BodyClean, NoDeliveryWithDataError, StoredRecipientsSameTxn

-----------------------------------------------------------------------------
(* The theorems.                                                           *)

\* handleMail, handleData, handleBdat and storeMessage, for every value of
\* the constants: no message whose sender scheduled a DATA error is ever
\* stored, neither through DATA nor through BDAT.
THEOREM NoDataErrorStored == Spec => []NoDeliveryWithDataError
<1>1. SInv => NoDeliveryWithDataError
  BY DEF SInv, Stores
<1>. QED
  BY InitRest, NextRest, <1>1, PTL DEF Spec

\* handleMail, handleRcpt, handleRset and resetSessionState, for every value
\* of the constants: a stored message's sender is set, and it names no
\* recipient the client gave in a transaction before its sender's.
THEOREM StoredEnvelopeSameTxn == Spec => []StoredRecipientsSameTxn
<1>1. SInv => StoredRecipientsSameTxn
  BY DEF SInv, Stores
<1>. QED
  BY InitRest, NextRest, <1>1, PTL DEF Spec

=============================================================================
