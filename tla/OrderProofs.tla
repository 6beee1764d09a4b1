---------------------------- MODULE OrderProofs ----------------------------
(***************************************************************************)
(* The order of the responses of Session.tla, for every value of the      *)
(* constants: responses reach the client in the order of the lines they   *)
(* answer, and a 421 is the last response the client ever receives.       *)
(*                                                                         *)
(* The argument is one fact about the response writer: as long as a       *)
(* non-empty queue implies pipelining mode (WriterProofs), every call of  *)
(* writeResponse, whichever of its three paths it takes (queue, flush and  *)
(* 421, write), appends exactly its response to what has been written     *)
(* followed by what is queued, All below.  handleCommand's flush before a  *)
(* breaking command moves responses from the queue to the wire and leaves *)
(* All as it is.  So All only ever grows at its end, by a response to the  *)
(* line just read, and nothing is appended once a 421 has closed it.      *)
(***************************************************************************)
EXTENDS WriterProofs

\* What the client has received followed by what is queued for it.
All == wire \o responseQueue

\* Every response answers a line already read (the greeting answers line 0).
CmdBound == \A i \in 1..Len(All) : All[i].cmd <= rcvd

\* A 421 is the last response, with nothing queued behind it, and the
\* session has stopped.
Inv421 ==
    \A i \in 1..Len(All) :
        All[i].code = 421 => /\ i = Len(All)
                             /\ responseQueue = <<>>
                             /\ phase = "closed"

\* Nothing is written or queued before the greeting.
GreetEmpty == phase = "greet" => All = <<>>

\* The inductive invariant.
OInv ==
    /\ TypeOK
    /\ QueueOnlyInPipelining
    /\ GreetEmpty
    /\ CmdBound
    /\ Inv421
    /\ ResponsesInOrder

\* What is written and queued is a sequence of responses.
LEMMA AllType ==
    ASSUME TypeOK
    PROVE  /\ All \in Seq(Response)
           /\ \A k \in 1..Len(All) : All[k].cmd \in Nat /\ All[k].code \in Nat
<1>1. All \in Seq(Response)
  BY ConcatProperties DEF TypeOK, All
<1>2. \A k \in 1..Len(All) : All[k] \in Response
  BY <1>1, ElementOfSeq
<1>. QED
  BY <1>1, <1>2 DEF Response

-----------------------------------------------------------------------------
(* writeResponse and handleCommand's flush append one response to All.     *)

\* What ReplyAppends needs of a writeResponse call: typed arguments and a
\* queue that is empty unless pm holds.
ReplyOK(code, n, pm, q, w, ph) ==
    /\ code \in Nat /\ n \in Nat /\ pm \in BOOLEAN
    /\ q \in Seq(Response) /\ w \in Seq(Response)
    /\ q # <<>> => pm
    /\ Reply(code, n, pm, q, w, ph)

\* writeResponse with a queue that is empty unless pm holds: what is written
\* followed by what is queued grows by the response, and a 421 empties the
\* queue and closes the session.
LEMMA ReplyAppends ==
    ASSUME NEW code, NEW n, NEW pm, NEW q, NEW w, NEW ph, ReplyOK(code, n, pm, q, w, ph)
    PROVE  /\ wire' \o responseQueue' = Append(w \o q, [code |-> code, cmd |-> n])
           /\ code = 421 => responseQueue' = <<>> /\ phase' = "closed"
           /\ code # 421 => phase' = ph
<1>. USE DEF ReplyOK
<1>. DEFINE r == [code |-> code, cmd |-> n]
<1>1. r \in Response /\ <<r>> \in Seq(Response) /\ w \o q \in Seq(Response)
  BY DEF Response
<1>2. Append(w \o q, r) = (w \o q) \o <<r>>
  BY <1>1, AppendIsConcat
<1>3. CASE pm /\ code # 421
  <2>1. wire' = w /\ responseQueue' = Append(q, r) /\ phase' = ph
    BY <1>3 DEF Reply
  <2>2. Append(q, r) = q \o <<r>>
    BY <1>1, AppendIsConcat
  <2>3. w \o (q \o <<r>>) = (w \o q) \o <<r>>
    BY <1>1, ConcatAssociative
  <2>. QED
    BY <1>2, <1>3, <2>1, <2>2, <2>3
<1>4. CASE pm /\ code = 421
  <2>1. wire' = (w \o q) \o <<r>> /\ responseQueue' = <<>> /\ phase' = "closed"
    BY <1>4 DEF Reply
  <2>2. ((w \o q) \o <<r>>) \o <<>> = (w \o q) \o <<r>>
    BY <1>1, ConcatEmptySeq, ConcatProperties
  <2>. QED
    BY <1>2, <1>4, <2>1, <2>2
<1>5. CASE ~pm
  <2>1. q = <<>>
    BY <1>5
  <2>2. wire' = Append(w, r) /\ responseQueue' = <<>>
        /\ phase' = IF code = 421 THEN "closed" ELSE ph
    BY <1>5, <2>1 DEF Reply
  <2>3. Append(w, r) \in Seq(Response) /\ w \o <<>> = w
    BY <1>1, AppendProperties, ConcatEmptySeq
  <2>4. Append(w, r) \o <<>> = Append(w, r)
    BY <2>3, ConcatEmptySeq
  <2>. QED
    BY <2>1, <2>2, <2>3, <2>4
<1>. QED
  BY <1>3, <1>4, <1>5

\* The answer to a command line: handleCommand's flush moves the queue to
\* the wire, so All grows by the answer to line rcvd + 1.
LEMMA AnswerAppends ==
    ASSUME CmdCtx, QueueOnlyInPipelining, NEW code \in Nat, NEW ph,
           Answer(code, ph)
    PROVE  /\ All' = Append(All, [code |-> code, cmd |-> rcvd + 1])
           /\ code = 421 => responseQueue' = <<>> /\ phase' = "closed"
           /\ code # 421 => phase' = ph
<1>1. /\ PM \in BOOLEAN /\ Q \in Seq(Response) /\ W \in Seq(Response)
      /\ rcvd + 1 \in Nat
  BY CmdType
<1>2. Q # <<>> => PM
  <2>1. Q # <<>> => ~Brk /\ responseQueue # <<>>
    BY DEF Q
  <2>2. responseQueue # <<>> => pipeliningMode
    BY DEF QueueOnlyInPipelining
  <2>. QED
    BY <2>1, <2>2 DEF PM, PM1
<1>3. W \o Q = All
  <2>1. wire \in Seq(Response) /\ responseQueue \in Seq(Response)
    BY DEF CmdCtx, TypeOK
  <2>2. CASE Brk
    <3>1. W = wire \o responseQueue /\ Q = <<>>
      BY <2>2 DEF W, Q
    <3>. QED
      BY <2>1, <3>1, ConcatProperties, ConcatEmptySeq DEF All
  <2>3. CASE ~Brk
    BY <2>3 DEF W, Q, All
  <2>. QED
    BY <2>2, <2>3
<1>4. Reply(code, rcvd + 1, PM, Q, W, ph)
  BY DEF Answer
<1>5. /\ wire' \o responseQueue' = Append(W \o Q, [code |-> code, cmd |-> rcvd + 1])
      /\ code = 421 => responseQueue' = <<>> /\ phase' = "closed"
      /\ code # 421 => phase' = ph
  <2>1. ReplyOK(code, rcvd + 1, PM, Q, W, ph)
    BY <1>1, <1>2, <1>4 DEF ReplyOK
  <2>. QED
    BY <2>1, ReplyAppends
<1>. QED
  BY <1>3, <1>5 DEF All

-----------------------------------------------------------------------------
(* A step that appends one response keeps the invariant.                   *)

\* Appending to a sequence ordered by line a response to a line no earlier
\* than all of them keeps it ordered.
LEMMA AppendOrdered ==
    ASSUME NEW s \in Seq(Response), NEW r \in Response,
           \A i, j \in 1..Len(s) : i < j => s[i].cmd <= s[j].cmd,
           \A i \in 1..Len(s) : s[i].cmd <= r.cmd
    PROVE  \A i, j \in 1..Len(Append(s, r)) :
              i < j => Append(s, r)[i].cmd <= Append(s, r)[j].cmd
<1>1. /\ Len(Append(s, r)) = Len(s) + 1
      /\ \A k \in 1..Len(s) : Append(s, r)[k] = s[k]
      /\ Append(s, r)[Len(s) + 1] = r
  BY AppendProperties
<1>. QED
  BY <1>1

\* A write while the session runs: the response answers a line no earlier
\* than every response before it and no later than the lines read after
\* the step; if it is a 421 the queue is empty and the session closed.
Writes(code, n) ==
    /\ phase # "closed" /\ phase' # "greet"
    /\ All' = Append(All, [code |-> code, cmd |-> n])
    /\ \A i \in 1..Len(All) : All[i].cmd <= n
    /\ rcvd' \in Nat /\ rcvd <= rcvd' /\ n <= rcvd'
    /\ code = 421 => responseQueue' = <<>> /\ phase' = "closed"

\* Such a write keeps the invariant.
LEMMA WriteStep ==
    ASSUME OInv, NEW code \in Nat, NEW n \in Nat, Writes(code, n)
    PROVE  GreetEmpty' /\ CmdBound' /\ Inv421' /\ ResponsesInOrder'
<1>. DEFINE r == [code |-> code, cmd |-> n]
<1>. USE DEF Writes
<1>1. All \in Seq(Response) /\ r \in Response
  BY AllType DEF OInv, Response
<1>2. /\ Len(All') = Len(All) + 1
      /\ \A k \in 1..Len(All) : All'[k] = All[k]
      /\ All'[Len(All) + 1] = r
  BY <1>1, AppendProperties
<1>3. \A k \in 1..Len(All) : All[k].code # 421
  BY DEF OInv, Inv421
<1>4. GreetEmpty'
  BY DEF GreetEmpty
<1>5. CmdBound'
  <2>1. \A k \in 1..Len(All) : All[k].cmd <= rcvd /\ All[k].cmd \in Nat
    BY AllType DEF OInv, CmdBound
  <2>2. rcvd \in Nat
    BY DEF OInv, TypeOK
  <2>. QED
    BY <1>2, <2>1, <2>2 DEF CmdBound
<1>6. Inv421'
  BY <1>2, <1>3 DEF Inv421
<1>7. ResponsesInOrder'
  <2>1. \A i, j \in 1..Len(All) : i < j => All[i].cmd <= All[j].cmd
    BY DEF OInv, ResponsesInOrder, All
  <2>2. \A i, j \in 1..Len(All') : i < j => All'[i].cmd <= All'[j].cmd
    BY <1>1, <2>1, AppendOrdered
  <2>. QED
    BY <2>2 DEF ResponsesInOrder, All
<1>. QED
  BY <1>4, <1>5, <1>6, <1>7

\* A step that leaves what is written and queued, and the lines read, as
\* they are, and does not go back to the greeting, keeps the invariant;
\* it may close the session.
LEMMA QuietStep ==
    ASSUME OInv, UNCHANGED <<wire, responseQueue, rcvd>>,
           phase' = phase \/ (phase' = "closed" /\ phase # "closed")
    PROVE  GreetEmpty' /\ CmdBound' /\ Inv421' /\ ResponsesInOrder'
<1>1. All' = All
  BY DEF All
<1>2. CASE phase' = phase
  BY <1>1, <1>2 DEF OInv, GreetEmpty, CmdBound, Inv421, ResponsesInOrder, All
<1>3. CASE phase' = "closed" /\ phase # "closed"
  <2>1. \A k \in 1..Len(All) : All[k].code # 421
    BY <1>3 DEF OInv, Inv421
  <2>. QED
    BY <1>1, <1>3, <2>1 DEF OInv, GreetEmpty, CmdBound, Inv421, ResponsesInOrder, All
<1>. QED
  BY <1>2, <1>3

-----------------------------------------------------------------------------
(* The steps of the session.                                               *)

\* An answer to the line being handled keeps the invariant.
LEMMA AnswerStep ==
    ASSUME OInv, CmdCtx, NEW code \in Nat, NEW ph \in {"cmd", "body", "closed"},
           Answer(code, ph)
    PROVE  GreetEmpty' /\ CmdBound' /\ Inv421' /\ ResponsesInOrder'
<1>1. /\ All' = Append(All, [code |-> code, cmd |-> rcvd + 1])
      /\ code = 421 => responseQueue' = <<>> /\ phase' = "closed"
      /\ code # 421 => phase' = ph
  BY AnswerAppends DEF OInv
<1>2. rcvd \in Nat /\ rcvd' = rcvd + 1
  BY DEF CmdCtx, TypeOK
<1>3. \A i \in 1..Len(All) : All[i].cmd <= rcvd + 1
  BY <1>2, AllType DEF OInv, CmdBound
<1>4. phase # "closed" /\ phase' # "greet"
  BY <1>1 DEF CmdCtx
<1>5. Writes(code, rcvd + 1)
  BY <1>1, <1>2, <1>3, <1>4 DEF Writes
<1>. QED
  BY <1>2, <1>5, WriteStep

\* parseAndLogCommand's refusals.
LEMMA RejectStep ==
    ASSUME OInv, HandlerCtx, Reject
    PROVE  GreetEmpty' /\ CmdBound' /\ Inv421' /\ ResponsesInOrder'
<1>1. CmdCtx
  BY DEF HandlerCtx
<1>2. /\ PM1 \in BOOLEAN /\ rcvd \in Nat /\ rcvd + 1 \in Nat
      /\ responseQueue \in Seq(Response) /\ wire \in Seq(Response)
  BY <1>1, CmdType DEF CmdCtx, TypeOK
<1>3. responseQueue # <<>> => PM1
  BY DEF OInv, QueueOnlyInPipelining, PM1
<1>4. PICK code \in {500, 503} : Reply(code, rcvd + 1, PM1, responseQueue, wire, "cmd")
  BY DEF Reject
<1>5. /\ wire' \o responseQueue' = Append(wire \o responseQueue, [code |-> code, cmd |-> rcvd + 1])
      /\ phase' = "cmd"
  <2>1. code \in Nat /\ code # 421
    OBVIOUS
  <2>2. /\ wire' \o responseQueue' = Append(wire \o responseQueue, [code |-> code, cmd |-> rcvd + 1])
        /\ code # 421 => phase' = "cmd"
    <3>1. ReplyOK(code, rcvd + 1, PM1, responseQueue, wire, "cmd")
      BY <1>2, <1>3, <1>4, <2>1 DEF ReplyOK
    <3>. QED
      BY <3>1, ReplyAppends
  <2>. QED
    BY <2>1, <2>2
<1>6. \A i \in 1..Len(All) : All[i].cmd <= rcvd + 1
  BY <1>2, AllType DEF OInv, CmdBound
<1>7. rcvd' = rcvd + 1 /\ phase = "cmd"
  BY <1>1 DEF CmdCtx
<1>8. All' = Append(All, [code |-> code, cmd |-> rcvd + 1])
  BY <1>5 DEF All
<1>9. /\ phase # "closed" /\ phase' # "greet"
      /\ rcvd' \in Nat /\ rcvd <= rcvd' /\ rcvd + 1 <= rcvd'
      /\ code = 421 => responseQueue' = <<>> /\ phase' = "closed"
  BY <1>2, <1>5, <1>7
<1>10. code \in Nat /\ Writes(code, rcvd + 1)
  BY <1>2, <1>6, <1>8, <1>9 DEF Writes
<1>. QED
  BY <1>2, <1>10, WriteStep

\* One pass of runCommandLoop keeps the invariant.
LEMMA ReceiveStep ==
    ASSUME OInv, Receive
    PROVE  GreetEmpty' /\ CmdBound' /\ Inv421' /\ ResponsesInOrder'
<1>1. HandlerCtx
  BY DEF Receive, HandlerCtx, CmdCtx, OInv
<1>2. CmdCtx
  BY <1>1 DEF HandlerCtx
<1>3. CASE Reject
  BY <1>1, <1>3, RejectStep
<1>4. CASE Data
  <2>1. pending["data"] \in Nat
    BY <1>2 DEF CmdCtx, TypeOK, Deferred
  <2>2. Answer(pending["data"], "cmd") \/ Answer(354, "body")
    BY <1>4 DEF Data
  <2>. QED
    BY <1>2, <2>1, <2>2, AnswerStep
<1>5. CASE Helo \/ Auth \/ Mail \/ Rcpt \/ Bdat \/ Rset \/ Noop \/ Vrfy \/ StartTLS \/ Quit
  <2>1. CmdAnswered
    BY <1>1, <1>5, HeloAnswers, AuthAnswers, MailAnswers, RcptAnswers, BdatAnswers,
       RsetAnswers, NoopAnswers, VrfyAnswers, StartTLSAnswers, QuitAnswers
  <2>2. PICK c \in Nat : Answer(c, "cmd") \/ Answer(c, "closed")
    BY <2>1 DEF CmdAnswered
  <2>. QED
    BY <1>2, <2>2, AnswerStep
<1>. QED
  BY <1>3, <1>4, <1>5 DEF Receive

\* The end of a message body: storeMessage's 250 or handleStorageError's
\* 450 answers the DATA line, the last line read; a body over the size
\* limit ends the session without an answer.
LEMMA DataBodyStep ==
    ASSUME OInv, DataBody
    PROVE  GreetEmpty' /\ CmdBound' /\ Inv421' /\ ResponsesInOrder'
<1>1. /\ pipeliningMode \in BOOLEAN /\ rcvd \in Nat
      /\ responseQueue \in Seq(Response) /\ wire \in Seq(Response)
      /\ All \in Seq(Response)
  BY ConcatProperties DEF OInv, TypeOK, All
<1>2. responseQueue # <<>> => pipeliningMode
  BY DEF OInv, QueueOnlyInPipelining
<1>3. phase = "body" /\ rcvd' = rcvd
  BY DEF DataBody
<1>4. CASE phase' = "closed" /\ UNCHANGED <<wire, responseQueue, pipeliningMode>>
  BY <1>3, <1>4, QuietStep
<1>5. ASSUME NEW c \in {250, 450},
             Reply(c, rcvd, pipeliningMode, responseQueue, wire, "cmd")
      PROVE  GreetEmpty' /\ CmdBound' /\ Inv421' /\ ResponsesInOrder'
  <2>1. /\ wire' \o responseQueue' = Append(wire \o responseQueue, [code |-> c, cmd |-> rcvd])
        /\ phase' = "cmd"
    <3>1. c \in Nat /\ c # 421
      OBVIOUS
    <3>2. /\ wire' \o responseQueue' = Append(wire \o responseQueue, [code |-> c, cmd |-> rcvd])
          /\ c # 421 => phase' = "cmd"
      <4>1. ReplyOK(c, rcvd, pipeliningMode, responseQueue, wire, "cmd")
        BY <1>1, <1>2, <1>5, <3>1 DEF ReplyOK
      <4>. QED
        BY <4>1, ReplyAppends
    <3>. QED
      BY <3>1, <3>2
  <2>2. \A i \in 1..Len(All) : All[i].cmd <= rcvd
    BY DEF OInv, CmdBound
  <2>3. All' = Append(All, [code |-> c, cmd |-> rcvd])
    BY <2>1 DEF All
  <2>4. c \in Nat /\ c # 421
    OBVIOUS
  <2>5. /\ phase # "closed" /\ phase' # "greet"
        /\ rcvd' \in Nat /\ rcvd <= rcvd' /\ rcvd <= rcvd'
        /\ c = 421 => responseQueue' = <<>> /\ phase' = "closed"
    BY <1>1, <1>3, <2>1, <2>4
  <2>6. Writes(c, rcvd)
    BY <2>2, <2>3, <2>5 DEF Writes
  <2>. QED
    BY <1>1, <2>4, <2>6, WriteStep
<1>. QED
  BY <1>4, <1>5 DEF DataBody

\* setupSessionBehaviourAndGreet: the 220 is the first response.
LEMMA GreetStep ==
    ASSUME OInv, Greet
    PROVE  GreetEmpty' /\ CmdBound' /\ Inv421' /\ ResponsesInOrder'
<1>1. All = <<>> /\ phase = "greet"
  BY DEF Greet, OInv, GreetEmpty
<1>2. wire = <<>> /\ responseQueue = <<>>
  BY <1>1, ConcatEqualIffEmpty DEF OInv, TypeOK, All
<1>3. CASE phase' = "closed" /\ UNCHANGED wire
  <2>1. UNCHANGED <<responseQueue, rcvd>>
    BY DEF Greet
  <2>. QED
    BY <1>1, <1>3, <2>1, QuietStep
<1>4. CASE wire' = <<[code |-> 220, cmd |-> 0]>> /\ phase' = "cmd"
  <2>1. UNCHANGED <<responseQueue, rcvd>> /\ rcvd \in Nat
    BY DEF Greet, OInv, TypeOK
  <2>2. All' = Append(All, [code |-> 220, cmd |-> 0])
    BY <1>1, <1>2, <1>4, <2>1 DEF All
  <2>3. Writes(220, 0)
    BY <1>1, <1>4, <2>1, <2>2 DEF Writes
  <2>. QED
    BY <2>3, WriteStep
<1>. QED
  BY <1>3, <1>4 DEF Greet

\* Every step of the session keeps the invariant.
LEMMA NextOrder == OInv /\ [Next]_vars => OInv'
<1>. SUFFICES ASSUME OInv, [Next]_vars
              PROVE  OInv'
  OBVIOUS
<1>1. TypeOK' /\ QueueOnlyInPipelining'
  BY NextType, NextQueue DEF OInv, IInv
<1>2. GreetEmpty' /\ CmdBound' /\ Inv421' /\ ResponsesInOrder'
  <2>1. CASE Receive
    BY <2>1, ReceiveStep
  <2>2. CASE DataBody
    BY <2>2, DataBodyStep
  <2>3. CASE Greet
    BY <2>3, GreetStep
  <2>4. CASE ClientSend \/ ClientClose \/ Terminated \/ UNCHANGED vars
    <3>1. UNCHANGED <<wire, responseQueue, rcvd, phase>>
      BY <2>4 DEF ClientSend, ClientClose, Terminated, vars, connVars
    <3>. QED
      BY <3>1, QuietStep
  <2>5. CASE SessionEOF
    <3>1. UNCHANGED <<wire, responseQueue, rcvd>> /\ phase' = "closed" /\ phase # "closed"
      BY <2>5 DEF SessionEOF
    <3>. QED
      BY <3>1, QuietStep
  <2>. QED
    BY <2>1, <2>2, <2>3, <2>4, <2>5 DEF Next
<1>. QED
  BY <1>1, <1>2 DEF OInv

\* The session starts with nothing written.
LEMMA InitOrder == Init => OInv
<1>. SUFFICES ASSUME Init PROVE OInv
  OBVIOUS
<1>1. All = <<>>
  BY DEF Init, All
<1>2. GreetEmpty /\ CmdBound /\ Inv421 /\ ResponsesInOrder
  BY <1>1 DEF GreetEmpty, CmdBound, Inv421, ResponsesInOrder, All
<1>3. QueueOnlyInPipelining
  BY DEF Init, QueueOnlyInPipelining
<1>. QED
  BY <1>2, <1>3, InitType DEF OInv

\* The invariant holds in every reachable state.
LEMMA OrderInvariant == Spec => []OInv
BY InitOrder, NextOrder, PTL DEF Spec

-----------------------------------------------------------------------------

\* writeResponse, flushResponses and handleCommand, for every value of the
\* constants: responses reach the client in the order of the lines they
\* answer, counting those still queued behind the ones written.
THEOREM RepliesInOrder == Spec => []ResponsesInOrder
BY OrderInvariant, PTL DEF OInv

\* writeResponse's 421 path, for every value of the constants: a 421 is the
\* last response the client ever receives, nothing is left queued behind it,
\* and the session has stopped.
THEOREM NoResponseAfter421 == Spec => []NothingAfter421
<1>1. OInv => NothingAfter421
  <2>. SUFFICES ASSUME OInv, NEW i \in 1..Len(wire), wire[i].code = 421
                PROVE  i = Len(wire) /\ responseQueue = <<>> /\ phase = "closed"
    BY DEF NothingAfter421
  <2>1. wire \in Seq(Response) /\ responseQueue \in Seq(Response)
    BY DEF OInv, TypeOK
  <2>2. Len(All) = Len(wire) + Len(responseQueue) /\ All[i] = wire[i]
    BY <2>1, ConcatProperties DEF All
  <2>3. i = Len(All) /\ responseQueue = <<>> /\ phase = "closed"
    BY <2>1, <2>2 DEF OInv, Inv421
  <2>. QED
    BY <2>2, <2>3
<1>. QED
  BY <1>1, OrderInvariant, PTL

=============================================================================
