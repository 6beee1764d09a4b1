---------------------------- MODULE WriterProofs ----------------------------
(***************************************************************************)
(* The response writer's invariant of Session.tla, for every value of the *)
(* constants: writeResponse only queues a response in pipelining mode,    *)
(* and once DATA reads the message body the queue is empty and the last   *)
(* response written is the 354.                                            *)
(*                                                                         *)
(* The invariant is inductive together with the type invariant: a queued  *)
(* response survives a step only if the step keeps pipelining mode on,    *)
(* and handleCommand switches the mode off only before a breaking         *)
(* command, after flushing the queue (Q and W of Session.tla).            *)
(***************************************************************************)
EXTENDS SessionProofs

\* The handler answered the line without starting a message body.
CmdAnswered == \E c \in Nat : Answer(c, "cmd") \/ Answer(c, "closed")

-----------------------------------------------------------------------------
(* writeResponse.                                                          *)

\* A response written with a queue that is empty unless pm holds, and that
\* starts a message body only when it is a 354 written straight to the
\* connection, leaves the writer's invariant true.
LEMMA ReplyQueue ==
    ASSUME NEW code \in Nat, NEW n, NEW pm \in BOOLEAN,
           NEW q \in Seq(Response), NEW w \in Seq(Response), NEW ph,
           q # << >> => pm,
           ph = "body" => ~pm /\ q = << >> /\ code = 354,
           Reply(code, n, pm, q, w, ph)
    PROVE  QueueOnlyInPipelining'
<1>. DEFINE r == [code |-> code, cmd |-> n]
<1>1. CASE pm /\ code # 421
  <2>1. pipeliningMode' /\ phase' = ph /\ ph # "body"
    BY <1>1 DEF Reply
  <2>. QED
    BY <2>1 DEF QueueOnlyInPipelining
<1>2. CASE pm /\ code = 421
  <2>1. responseQueue' = << >> /\ phase' = "closed"
    BY <1>2 DEF Reply
  <2>. QED
    BY <2>1 DEF QueueOnlyInPipelining
<1>3. CASE ~pm
  <2>1. /\ responseQueue' = << >>
        /\ wire' = Append(w, r)
        /\ phase' = IF code = 421 THEN "closed" ELSE ph
    BY <1>3 DEF Reply
  <2>2. Append(w, r) # << >> /\ Last(Append(w, r)) = r
    <3>1. w \in Seq(Response \cup {r}) /\ r \in Response \cup {r}
      OBVIOUS
    <3>2. /\ Append(w, r) # << >>
          /\ Len(Append(w, r)) = Len(w) + 1
          /\ Append(w, r)[Len(w) + 1] = r
      BY <3>1, AppendProperties
    <3>. QED
      BY <3>2 DEF Last
  <2>3. phase' = "body" => code = 354
    <3>1. CASE code = 421
      BY <2>1, <3>1
    <3>2. CASE code # 421
      BY <2>1, <3>2
    <3>. QED
      BY <3>1, <3>2
  <2>. QED
    BY <2>1, <2>2, <2>3 DEF QueueOnlyInPipelining
<1>. QED
  BY <1>1, <1>2, <1>3

\* handleCommand's flush: a queued response is kept only when the command
\* does not break pipelining, and then pipelining mode stays on; a breaking
\* command writes the queue out and answers with the mode off.
LEMMA AnswerQueue ==
    ASSUME CmdCtx, QueueOnlyInPipelining, NEW code \in Nat, NEW ph,
           ph = "body" => Brk /\ code = 354,
           Answer(code, ph)
    PROVE  QueueOnlyInPipelining'
<1>1. PM \in BOOLEAN /\ Q \in Seq(Response) /\ W \in Seq(Response)
  BY CmdType
<1>2. Q # << >> => PM
  <2>1. Q # << >> => ~Brk /\ responseQueue # << >>
    BY DEF Q
  <2>2. responseQueue # << >> => pipeliningMode
    BY DEF QueueOnlyInPipelining
  <2>. QED
    BY <2>1, <2>2 DEF PM, PM1
<1>3. Brk => ~PM /\ Q = << >>
  BY DEF PM, Q
<1>. QED
  BY <1>1, <1>2, <1>3, ReplyQueue DEF Answer

\* An answer that does not start a message body keeps the invariant.
LEMMA CmdAnsweredQueue ==
    ASSUME CmdCtx, QueueOnlyInPipelining, CmdAnswered
    PROVE  QueueOnlyInPipelining'
<1>1. PICK c \in Nat : Answer(c, "cmd") \/ Answer(c, "closed")
  BY DEF CmdAnswered
<1>. QED
  BY <1>1, AnswerQueue

\* An answer of some code on the command line, or closing it.
LEMMA CmdAnsweredIntro ==
    ASSUME NEW c \in Nat, Answer(c, "cmd") \/ Answer(c, "closed")
    PROVE  CmdAnswered
BY DEF CmdAnswered

-----------------------------------------------------------------------------
(* Every handler but DATA answers without starting a message body.        *)

\* handleHelo and handleEhlo.
LEMMA HeloAnswers == HandlerCtx /\ Helo => CmdAnswered
<1>. SUFFICES ASSUME HandlerCtx, Helo PROVE CmdAnswered
  OBVIOUS
<1>1. Cmd.arg.code \in Nat
  BY ArgTypes DEF Helo, HandlerCtx, HostnameType
<1>2. Answer(503, "cmd") \/ Answer(Cmd.arg.code, "cmd") \/ Answer(250, "cmd") \/ Answer(502, "cmd")
  BY DEF Helo
<1>. QED
  BY <1>1, <1>2, CmdAnsweredIntro

\* handleAuth.
LEMMA AuthAnswers == HandlerCtx /\ Auth => CmdAnswered
<1>. SUFFICES ASSUME HandlerCtx, Auth PROVE CmdAnswered
  OBVIOUS
<1>1. pending["auth"] \in Nat
  BY DEF HandlerCtx, CmdCtx, TypeOK, Deferred
<1>2. \/ Answer(pending["auth"], "cmd")
      \/ Answer(IF Cmd.arg = "badmech" THEN 504 ELSE 535, "cmd")
      \/ Answer(235, "cmd")
  BY DEF Auth
<1>. QED
  BY <1>1, <1>2, CmdAnsweredIntro

\* handleMail.
LEMMA MailAnswers == HandlerCtx /\ Mail => CmdAnswered
<1>. SUFFICES ASSUME HandlerCtx, Mail PROVE CmdAnswered
  OBVIOUS
<1>1. Cmd.arg.code \in Nat
  BY ArgTypes DEF Mail, HandlerCtx, AddressType
<1>2. Answer(501, "cmd") \/ Answer(Cmd.arg.code, "cmd") \/ Answer(250, "cmd")
  BY DEF Mail
<1>. QED
  BY <1>1, <1>2, CmdAnsweredIntro

\* handleRcpt.
LEMMA RcptAnswers == HandlerCtx /\ Rcpt => CmdAnswered
<1>. SUFFICES ASSUME HandlerCtx, Rcpt PROVE CmdAnswered
  OBVIOUS
<1>1. Cmd.arg.code \in Nat
  BY ArgTypes DEF Rcpt, HandlerCtx, AddressType
<1>2. Answer(501, "cmd") \/ Answer(Cmd.arg.code, "cmd") \/ Answer(250, "cmd")
  BY DEF Rcpt
<1>. QED
  BY <1>1, <1>2, CmdAnsweredIntro

\* handleBdat.
LEMMA BdatAnswers == HandlerCtx /\ Bdat => CmdAnswered
<1>. SUFFICES ASSUME HandlerCtx, Bdat PROVE CmdAnswered
  OBVIOUS
<1>1. pending["data"] \in Nat
  BY DEF HandlerCtx, CmdCtx, TypeOK, Deferred
<1>2. \/ Answer(pending["data"], "cmd") \/ Answer(552, "cmd")
      \/ Answer(250, "cmd") \/ Answer(450, "cmd")
  BY DEF Bdat
<1>. QED
  BY <1>1, <1>2, CmdAnsweredIntro

\* handleRset.
LEMMA RsetAnswers == HandlerCtx /\ Rset => CmdAnswered
<1>. SUFFICES ASSUME HandlerCtx, Rset PROVE CmdAnswered
  OBVIOUS
<1>1. pending["rset"] \in Nat
  BY DEF HandlerCtx, CmdCtx, TypeOK, Deferred
<1>2. Answer(pending["rset"], "cmd") \/ Answer(250, "cmd")
  BY DEF Rset
<1>. QED
  BY <1>1, <1>2, CmdAnsweredIntro

\* handleNoop.
LEMMA NoopAnswers == HandlerCtx /\ Noop => CmdAnswered
<1>. SUFFICES ASSUME HandlerCtx, Noop PROVE CmdAnswered
  OBVIOUS
<1>1. (IF pending["noop"] # NoError THEN pending["noop"] ELSE 250) \in Nat
  BY DEF HandlerCtx, CmdCtx, TypeOK, Deferred
<1>. QED
  BY <1>1, CmdAnsweredIntro DEF Noop

\* handleVrfy.
LEMMA VrfyAnswers == HandlerCtx /\ Vrfy => CmdAnswered
<1>. SUFFICES ASSUME HandlerCtx, Vrfy PROVE CmdAnswered
  OBVIOUS
<1>1. Cmd.arg \in {"exists", "unknown", "ambiguous", "other", "bad"}
  BY CmdType DEF Vrfy, HandlerCtx, ArgOf
<1>2. (CASE Cmd.arg = "exists" -> 250
         [] Cmd.arg = "unknown" -> 551
         [] Cmd.arg = "ambiguous" -> 553
         [] Cmd.arg = "other" -> 550
         [] Cmd.arg = "bad" -> 501) \in Nat
  BY <1>1
<1>. QED
  BY <1>2, CmdAnsweredIntro DEF Vrfy

\* handleStartTLS.
LEMMA StartTLSAnswers == HandlerCtx /\ StartTLS => CmdAnswered
<1>. SUFFICES ASSUME HandlerCtx, StartTLS PROVE CmdAnswered
  OBVIOUS
<1>1. pending["starttls"] \in Nat
  BY DEF HandlerCtx, CmdCtx, TypeOK, Deferred
<1>2. \/ Answer(pending["starttls"], "cmd") \/ Answer(554, "cmd")
      \/ Answer(220, "closed") \/ Answer(220, "cmd")
  BY DEF StartTLS
<1>. QED
  BY <1>1, <1>2, CmdAnsweredIntro

\* handleQuit.
LEMMA QuitAnswers == HandlerCtx /\ Quit => CmdAnswered
<1>. SUFFICES ASSUME HandlerCtx, Quit PROVE CmdAnswered
  OBVIOUS
<1>1. (IF pending["quit"] # NoError THEN pending["quit"] ELSE 221) \in Nat
  BY DEF HandlerCtx, CmdCtx, TypeOK, Deferred
<1>. QED
  BY <1>1, CmdAnsweredIntro DEF Quit

-----------------------------------------------------------------------------
(* DATA, refusals, and the whole of runCommandLoop's step.                 *)

\* handleData: the 354 is written only for an admitted DATA, which breaks
\* pipelining, so the queue has just been flushed and the mode is off.
LEMMA DataQueue ==
    ASSUME HandlerCtx, QueueOnlyInPipelining, Data
    PROVE  QueueOnlyInPipelining'
<1>1. CmdCtx
  BY DEF HandlerCtx
<1>2. Brk
  BY DEF Data, Brk, Breaking
<1>3. pending["data"] \in Nat
  BY <1>1 DEF CmdCtx, TypeOK, Deferred
<1>4. Answer(pending["data"], "cmd") \/ Answer(354, "body")
  BY DEF Data
<1>. QED
  BY <1>1, <1>2, <1>3, <1>4, AnswerQueue

\* parseAndLogCommand's refusals answer in the mode detectPipelining set,
\* without a flush: the queue is non-empty only if the mode was already on.
LEMMA RejectQueue ==
    ASSUME HandlerCtx, QueueOnlyInPipelining, Reject
    PROVE  QueueOnlyInPipelining'
<1>1. CmdCtx
  BY DEF HandlerCtx
<1>2. /\ PM1 \in BOOLEAN
      /\ responseQueue \in Seq(Response) /\ wire \in Seq(Response)
      /\ (IF Cmd.verb \in Verbs THEN 503 ELSE 500) \in Nat
  BY <1>1, CmdType DEF CmdCtx, TypeOK
<1>3. responseQueue # << >> => PM1
  BY DEF QueueOnlyInPipelining, PM1
<1>4. Reply(IF Cmd.verb \in Verbs THEN 503 ELSE 500, rcvd + 1, PM1, responseQueue, wire, "cmd")
  BY DEF Reject
<1>. QED
  BY <1>2, <1>3, <1>4, ReplyQueue

\* One pass of runCommandLoop keeps the writer's invariant.
LEMMA ReceiveQueue ==
    ASSUME TypeOK, QueueOnlyInPipelining, Receive
    PROVE  QueueOnlyInPipelining'
<1>1. HandlerCtx
  BY DEF Receive, HandlerCtx, CmdCtx
<1>2. CmdCtx
  BY <1>1 DEF HandlerCtx
<1>3. CASE Reject \/ Data
  BY <1>1, <1>3, RejectQueue, DataQueue
<1>4. CASE Helo \/ Auth \/ Mail \/ Rcpt \/ Bdat \/ Rset \/ Noop \/ Vrfy \/ StartTLS \/ Quit
  <2>1. CmdAnswered
    BY <1>1, <1>4, HeloAnswers, AuthAnswers, MailAnswers, RcptAnswers, BdatAnswers,
       RsetAnswers, NoopAnswers, VrfyAnswers, StartTLSAnswers, QuitAnswers
  <2>. QED
    BY <1>2, <2>1, CmdAnsweredQueue
<1>. QED
  BY <1>3, <1>4 DEF Receive

\* The end of a message body: storeMessage's answer is written in the mode
\* and with the queue the DATA command left, both empty.
LEMMA DataBodyQueue ==
    ASSUME TypeOK, QueueOnlyInPipelining, DataBody
    PROVE  QueueOnlyInPipelining'
<1>1. /\ pipeliningMode \in BOOLEAN /\ rcvd \in Nat
      /\ responseQueue \in Seq(Response) /\ wire \in Seq(Response)
  BY DEF TypeOK
<1>2. responseQueue # << >> => pipeliningMode
  BY DEF QueueOnlyInPipelining
<1>3. \/ phase' = "closed" /\ UNCHANGED <<wire, responseQueue, pipeliningMode>>
      \/ Reply(250, rcvd, pipeliningMode, responseQueue, wire, "cmd")
      \/ Reply(450, rcvd, pipeliningMode, responseQueue, wire, "cmd")
  BY DEF DataBody
<1>4. CASE phase' = "closed" /\ UNCHANGED <<wire, responseQueue, pipeliningMode>>
  BY <1>2, <1>4 DEF QueueOnlyInPipelining
<1>. QED
  BY <1>1, <1>2, <1>3, <1>4, ReplyQueue

\* The invariant that makes it inductive: the type invariant.
IInv == TypeOK /\ QueueOnlyInPipelining

\* Every step of the session keeps the writer's invariant.
LEMMA NextQueue == IInv /\ [Next]_vars => QueueOnlyInPipelining'
<1>. SUFFICES ASSUME TypeOK, QueueOnlyInPipelining, [Next]_vars
              PROVE  QueueOnlyInPipelining'
  BY DEF IInv
<1>1. CASE Receive
  BY <1>1, ReceiveQueue
<1>2. CASE DataBody
  BY <1>2, DataBodyQueue
<1>3. CASE ClientSend \/ ClientClose \/ SessionEOF \/ Terminated \/ UNCHANGED vars
  <2>1. UNCHANGED <<wire, responseQueue, pipeliningMode>>
    BY <1>3 DEF ClientSend, ClientClose, SessionEOF, Terminated, vars, connVars
  <2>2. phase' = phase \/ phase' = "closed"
    BY <1>3 DEF ClientSend, ClientClose, SessionEOF, Terminated, vars, connVars
  <2>. QED
    BY <2>1, <2>2 DEF QueueOnlyInPipelining
<1>4. CASE Greet
  <2>1. UNCHANGED <<responseQueue, pipeliningMode>> /\ phase' \in {"closed", "cmd"}
    BY <1>4 DEF Greet
  <2>. QED
    BY <2>1 DEF QueueOnlyInPipelining
<1>. QED
  BY <1>1, <1>2, <1>3, <1>4 DEF Next

\* handleCommand and writeResponse, in every reachable state and for every
\* value of the constants: responses are only ever queued in pipelining
\* mode, and while DATA reads the message the queue is empty and the 354 is
\* the last response written.
THEOREM QueueInvariant == Spec => []QueueOnlyInPipelining
<1>1. Init => IInv
  <2>1. Init => QueueOnlyInPipelining
    BY DEF Init, QueueOnlyInPipelining
  <2>. QED
    BY <2>1, InitType DEF IInv
<1>2. IInv /\ [Next]_vars => IInv'
  BY NextType, NextQueue DEF IInv
<1>3. IInv => QueueOnlyInPipelining
  BY DEF IInv
<1>. QED
  BY <1>1, <1>2, <1>3, PTL DEF Spec

=============================================================================
