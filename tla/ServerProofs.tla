--------------------------- MODULE ServerProofs ---------------------------
(***************************************************************************)
(* Proofs about the session registry of server/server.go: Shutdown's      *)
(* WaitGroup counts exactly the registered sessions, so when Wait returns  *)
(* every session that received a CloseWith421 has exited.                  *)
(***************************************************************************)
EXTENDS Server, FiniteSetTheorems, TLAPS

\* The connections whose goroutine is between registerSession and
\* unregisterSession.
Live(f) == {c \in Conns : f[c] \in {"live", "exit"}}

CStates == {"idle", "accepted", "live", "exit", "done"}

\* The inductive invariant: Server.sessions is the set of live
\* connections, the WaitGroup counter its size, the snapshot holds only
\* connections that registered, and Shutdown's result is final.
RegInv ==
    /\ cpc \in [Conns -> CStates]
    /\ sessions = Live(cpc)
    /\ wg = Cardinality(sessions)
    /\ hooked \subseteq {c \in Conns : cpc[c] \in {"live", "exit", "done"}}
    /\ shres \in {"none", "noSessions", "allClosed", "deadline"}
    /\ shres # "none" => shpc = "done"
    /\ AllClosedMeansNotifiedDone

LEMMA LiveFinite == \A f \in [Conns -> CStates] : IsFiniteSet(Live(f))
BY ServerAssumption, FS_Subset DEF Live

\* A step that touches none of the registry's variables keeps RegInv.
LEMMA RegFrame ==
    ASSUME RegInv, UNCHANGED <<cpc, sessions, wg, hooked, shres, shpc>>
    PROVE RegInv'
BY DEF RegInv, Live, AllClosedMeansNotifiedDone

\* A session goroutine returning from Handle moves live to exit, which
\* leaves the registry as it is.
LEMMA RegHandleReturns ==
    ASSUME RegInv, NEW c \in Conns, cpc[c] = "live",
           cpc' = [cpc EXCEPT ![c] = "exit"] \/ cpc' = cpc,
           UNCHANGED <<sessions, wg, hooked, shres, shpc>>
    PROVE RegInv'
<1>1. cpc' \in [Conns -> CStates]
  BY DEF RegInv, CStates
<1>2. Live(cpc') = Live(cpc)
  BY DEF Live, RegInv
<1>3. \A d \in Conns : cpc'[d] \in {"live", "exit", "done"} <=> cpc[d] \in {"live", "exit", "done"}
  BY DEF RegInv
<1>4. shres = "allClosed" => \A d \in hooked : cpc'[d] = "done"
  BY DEF RegInv, AllClosedMeansNotifiedDone
<1>. QED
  BY <1>1, <1>2, <1>3, <1>4 DEF RegInv, AllClosedMeansNotifiedDone

\* registerSession adds a connection that was not live and counts it.
LEMMA RegRegister ==
    ASSUME RegInv, NEW c \in Conns, RegisterSession(c)
    PROVE RegInv'
<1>1. cpc[c] = "accepted" /\ cpc' = [cpc EXCEPT ![c] = "live"]
      /\ sessions' = sessions \cup {c} /\ wg' = wg + 1
      /\ UNCHANGED <<hooked, shres, shpc>>
  BY DEF RegisterSession, srvVars
<1>2. cpc' \in [Conns -> CStates]
  BY <1>1 DEF RegInv, CStates
<1>3. Live(cpc') = Live(cpc) \cup {c} /\ c \notin Live(cpc)
  BY <1>1 DEF Live, RegInv
<1>4. IsFiniteSet(Live(cpc))
  BY LiveFinite DEF RegInv
<1>5. Cardinality(Live(cpc) \cup {c}) = Cardinality(Live(cpc)) + 1
  BY <1>3, <1>4, FS_AddElement
<1>6. hooked' \subseteq {d \in Conns : cpc'[d] \in {"live", "exit", "done"}}
  BY <1>1 DEF RegInv
<1>7. shres' = "allClosed" => \A d \in hooked' : cpc'[d] = "done"
  BY <1>1 DEF RegInv, AllClosedMeansNotifiedDone
<1>. QED
  BY <1>1, <1>2, <1>3, <1>5, <1>6, <1>7 DEF RegInv, AllClosedMeansNotifiedDone

\* unregisterSession removes a live connection and uncounts it.
LEMMA RegUnregister ==
    ASSUME RegInv, NEW c \in Conns, UnregisterSession(c)
    PROVE RegInv'
<1>1. cpc[c] = "exit" /\ cpc' = [cpc EXCEPT ![c] = "done"]
      /\ sessions' = sessions \ {c} /\ wg' = wg - 1
      /\ UNCHANGED <<hooked, shres, shpc>>
  BY DEF UnregisterSession, srvVars
<1>2. cpc' \in [Conns -> CStates]
  BY <1>1 DEF RegInv, CStates
<1>3. Live(cpc') = Live(cpc) \ {c} /\ c \in Live(cpc)
  BY <1>1 DEF Live, RegInv
<1>4. IsFiniteSet(Live(cpc))
  BY LiveFinite DEF RegInv
<1>5. Cardinality(Live(cpc) \ {c}) = Cardinality(Live(cpc)) - 1
  BY <1>3, <1>4, FS_RemoveElement
<1>6. hooked' \subseteq {d \in Conns : cpc'[d] \in {"live", "exit", "done"}}
  BY <1>1 DEF RegInv
<1>7. shres' = "allClosed" => \A d \in hooked' : cpc'[d] = "done"
  BY <1>1 DEF RegInv, AllClosedMeansNotifiedDone
<1>. QED
  BY <1>1, <1>2, <1>3, <1>5, <1>6, <1>7 DEF RegInv, AllClosedMeansNotifiedDone

\* Accept hands an idle connection to a new goroutine, not yet registered.
LEMMA RegAccept ==
    ASSUME RegInv, NEW l \in Listeners, NEW c \in Conns, Accept(l, c)
    PROVE RegInv'
<1>1. cpc[c] = "idle" /\ cpc' = [cpc EXCEPT ![c] = "accepted"]
      /\ UNCHANGED <<sessions, wg, hooked, shres, shpc>>
  BY DEF Accept, srvVars
<1>2. cpc' \in [Conns -> CStates]
  BY <1>1 DEF RegInv, CStates
<1>3. Live(cpc') = Live(cpc)
  BY <1>1 DEF Live, RegInv
<1>4. c \notin hooked
  BY <1>1 DEF RegInv
<1>5. hooked' \subseteq {d \in Conns : cpc'[d] \in {"live", "exit", "done"}}
  BY <1>1, <1>4 DEF RegInv
<1>6. shres' = "allClosed" => \A d \in hooked' : cpc'[d] = "done"
  BY <1>1, <1>4 DEF RegInv, AllClosedMeansNotifiedDone
<1>. QED
  BY <1>1, <1>2, <1>3, <1>5, <1>6 DEF RegInv, AllClosedMeansNotifiedDone

\* Wait returns only at a zero counter: no connection is live, so every
\* one of the snapshot has reached "done".
LEMMA RegAllClosed ==
    ASSUME RegInv, AllSessionsClosed
    PROVE RegInv'
<1>1. wg = 0 /\ shres' = "allClosed" /\ shpc' = "done"
      /\ UNCHANGED <<cpc, sessions, wg, hooked>>
  BY DEF AllSessionsClosed, regVars
<1>2. Live(cpc) = {}
  BY <1>1, LiveFinite, FS_EmptySet DEF RegInv
<1>3. \A d \in hooked : cpc[d] = "done"
  BY <1>2 DEF RegInv, Live
<1>. QED
  BY <1>1, <1>3 DEF RegInv, Live, AllClosedMeansNotifiedDone

LEMMA RegInit == Init => RegInv
<1>. SUFFICES ASSUME Init PROVE RegInv
  OBVIOUS
<1>1. Live(cpc) = {}
  BY DEF Init, Live
<1>. QED
  BY <1>1, FS_EmptySet DEF Init, RegInv, CStates, AllClosedMeansNotifiedDone

\* The Shutdown goroutine's own steps before Wait.
LEMMA RegShutdownSteps ==
    ASSUME RegInv, Signal \/ CountSessions \/ SnapshotSessions \/ Deadline
    PROVE RegInv'
<1>1. CASE Signal
  <2>1. shpc = "idle" /\ shpc' = "close" /\ UNCHANGED <<cpc, sessions, wg, hooked, shres>>
    BY <1>1 DEF Signal, regVars
  <2>. QED
    BY <2>1 DEF RegInv, Live, AllClosedMeansNotifiedDone
<1>2. CASE CountSessions
  <2>1. shpc = "close" /\ UNCHANGED <<cpc, sessions, wg, hooked>>
    BY <1>2 DEF CountSessions, regVars
  <2>2. \/ shres' = "noSessions" /\ shpc' = "done"
        \/ shres' = shres /\ shpc' = "snapshot"
    <3>1. CASE sessions = {}
      BY <1>2, <3>1 DEF CountSessions
    <3>2. CASE sessions # {}
      BY <1>2, <3>2 DEF CountSessions
    <3>. QED
      BY <3>1, <3>2
  <2>. QED
    BY <2>1, <2>2 DEF RegInv, Live, AllClosedMeansNotifiedDone
<1>3. CASE SnapshotSessions
  <2>1. shpc = "snapshot" /\ shpc' = "wait" /\ hooked' = sessions
        /\ UNCHANGED <<cpc, sessions, wg, shres>>
    BY <1>3 DEF SnapshotSessions, regVars
  <2>2. hooked' \subseteq {d \in Conns : cpc'[d] \in {"live", "exit", "done"}}
    BY <2>1 DEF RegInv, Live
  <2>. QED
    BY <2>1, <2>2 DEF RegInv, Live, AllClosedMeansNotifiedDone
<1>4. CASE Deadline
  <2>1. shres' = "deadline" /\ shpc' = "done" /\ UNCHANGED <<cpc, sessions, wg, hooked>>
    BY <1>4 DEF Deadline, regVars
  <2>. QED
    BY <2>1 DEF RegInv, Live, AllClosedMeansNotifiedDone
<1>. QED
  BY <1>1, <1>2, <1>3, <1>4

\* The session goroutine's steps: each leaves cpc alone or takes its
\* connection from live to exit.
LEMMA RegSessionStep ==
    ASSUME RegInv, NEW c \in Conns, SessionStep(c)
    PROVE RegInv'
<1>. DEFINE Exit == cpc' = [cpc EXCEPT ![c] = "exit"] \/ cpc' = cpc
<1>1. CASE Greet(c)
  <2>1. cpc[c] = "live" /\ Exit /\ UNCHANGED <<sessions, wg, hooked, shres, shpc>>
    BY <1>1 DEF Greet, HandleReturns, srvVars
  <2>. QED
    BY <2>1, RegHandleReturns
<1>2. CASE ReadFails(c)
  <2>1. cpc[c] = "live" /\ Exit /\ UNCHANGED <<sessions, wg, hooked, shres, shpc>>
    BY <1>2 DEF ReadFails, HandleReturns, srvVars
  <2>. QED
    BY <2>1, RegHandleReturns
<1>3. CASE SessionFlushWrite(c)
  <2>1. cpc[c] = "live" /\ Exit /\ UNCHANGED <<sessions, wg, hooked, shres, shpc>>
    BY <1>3 DEF SessionFlushWrite, HandleReturns, srvVars
  <2>. QED
    BY <2>1, RegHandleReturns
<1>4. CASE Reply(c)
  <2>1. cpc[c] = "live" /\ Exit /\ UNCHANGED <<sessions, wg, hooked, shres, shpc>>
    BY <1>4 DEF Reply, HandleReturns, srvVars
  <2>. QED
    BY <2>1, RegHandleReturns
<1>5. CASE SessionFlushEnd(c)
  BY <1>5, RegFrame DEF SessionFlushEnd, srvVars, regVars
<1>. QED
  BY <1>1, <1>2, <1>3, <1>4, <1>5 DEF SessionStep

LEMMA RegNext == RegInv /\ [Next]_vars => RegInv'
<1>. SUFFICES ASSUME RegInv, [Next]_vars PROVE RegInv'
  OBVIOUS
<1>1. CASE Start
  BY <1>1, RegFrame DEF Start, regVars
<1>2. CASE Signal \/ CountSessions \/ SnapshotSessions \/ Deadline
  BY <1>2, RegShutdownSteps
<1>3. CASE AllSessionsClosed
  BY <1>3, RegAllClosed
<1>4. CASE \E l \in Listeners : CloseListener(l)
  BY <1>4, RegFrame DEF CloseListener, regVars
<1>5. CASE \E l \in Listeners : Listen(l) \/ AcceptClosed(l)
  BY <1>5, RegFrame DEF Listen, AcceptClosed, regVars
<1>6. CASE \E l \in Listeners, c \in Conns : Accept(l, c)
  BY <1>6, RegAccept
<1>7. ASSUME NEW c \in Conns,
             \/ RegisterSession(c) \/ UnregisterSession(c)
             \/ ReadCommand(c) \/ ClientQuit(c)
             \/ SessionStep(c) \/ HookStep(c)
      PROVE RegInv'
  <2>1. CASE RegisterSession(c)
    BY <2>1, RegRegister
  <2>2. CASE UnregisterSession(c)
    BY <2>2, RegUnregister
  <2>3. CASE ReadCommand(c) \/ ClientQuit(c)
    BY <2>3, RegFrame DEF ReadCommand, ClientQuit, srvVars, regVars
  <2>4. CASE SessionStep(c)
    BY <2>4, RegSessionStep
  <2>5. CASE HookStep(c)
    BY <2>5, RegFrame DEF HookStep, HookStart, HookFlushWrite, HookFlushEnd,
                          HookWrite421, HookClose, srvVars, regVars
  <2>. QED
    BY <1>7, <2>1, <2>2, <2>3, <2>4, <2>5
<1>8. CASE UNCHANGED vars
  BY <1>8, RegFrame DEF vars, srvVars, regVars
<1>. QED
  BY <1>1, <1>2, <1>3, <1>4, <1>5, <1>6, <1>7, <1>8 DEF Next, ShutdownStep

\* When sessionsWG.Wait lets Shutdown report that all sessions closed,
\* every session it notified with CloseWith421 has left Handle and been
\* unregistered, for any number of connections and listeners.
THEOREM WaitCoversNotified == Spec => []AllClosedMeansNotifiedDone
<1>1. Init => RegInv
  BY RegInit
<1>2. RegInv /\ [Next]_vars => RegInv'
  BY RegNext
<1>3. RegInv => AllClosedMeansNotifiedDone
  BY DEF RegInv
<1>. QED
  BY <1>1, <1>2, <1>3, PTL DEF Spec

-----------------------------------------------------------------------------
(* The type invariant.                                                     *)

\* A session numbers a reply only while it has one left to produce.
ReplyBound ==
    \A c \in Conns : spc[c] \in {"flush", "reply"} => nreply[c] < MaxReplies[c]

\* The range loops of flushResponses index their slices from 1.
IndexOK == \A c \in Conns : sfi[c] >= 1 /\ hfi[c] >= 1

\* The inductive invariant of the type proof: the WaitGroup counter is the
\* size of the registry, so it never goes below zero, and reply numbers
\* stay within their bound.
TInv == TypeOK /\ RegInv /\ nreply \in [Conns -> Nat] /\ ReplyBound /\ IndexOK

\* The type invariant with the facts that keep it inductive, but for the
\* registry.
TOK == TypeOK /\ nreply \in [Conns -> Nat] /\ ReplyBound /\ IndexOK

\* The counter of the WaitGroup is a natural number while it is the size
\* of the registry.
LEMMA WgNat == RegInv => wg \in Nat
BY LiveFinite, FS_CardinalityType DEF RegInv

\* A reply number of a connection within its bound is a line.
LEMMA LineOf ==
    ASSUME NEW c \in Conns, NEW k \in 0..MaxReplies[c]
    PROVE  k \in Line
BY DEF Line

\* conn.Write of a line keeps every connection's lines typed.
LEMMA WriteType ==
    ASSUME NEW c \in Conns, NEW l \in Line, wire \in [Conns -> Seq(Line)], Write(c, l)
    PROVE  wire' \in [Conns -> Seq(Line)]
BY DEF Write

\* Setting one session's reply counter to a number within its bound keeps
\* every counter typed.
LEMMA NreplyStep ==
    ASSUME nreply \in [Conns -> Nat], \A d \in Conns : nreply[d] \in 0..MaxReplies[d],
           NEW c \in Conns, NEW k \in 0..MaxReplies[c], nreply' = [nreply EXCEPT ![c] = k]
    PROVE  nreply' \in [Conns -> Nat] /\ \A d \in Conns : nreply'[d] \in 0..MaxReplies[d]
BY ServerAssumption

\* A step that leaves the per-connection variables and the counter alone,
\* given the rest of the type, keeps the invariant.
LEMMA TypeSrvFrame ==
    ASSUME TInv, UNCHANGED <<cpc, sessions, wg, sessVars, hookVars>>,
           startPc' \in {"init", "blocked"},
           lpc' \in [Listeners -> {"none", "listen", "accept", "exit"}],
           listeners' \subseteq Listeners, lclosed' \subseteq Listeners,
           lsnap' \subseteq Listeners, hooked' \subseteq Conns,
           shpc' \in {"idle", "close", "snapshot", "wait", "done"},
           shres' \in {"none", "noSessions", "allClosed", "deadline"}
    PROVE  TOK'
BY DEF TInv, TOK, TypeOK, ReplyBound, IndexOK, sessVars, hookVars

\* Start, the listeners and the Shutdown goroutine.
LEMMA TypeServer ==
    ASSUME TInv,
           \/ Start \/ Signal \/ CountSessions \/ SnapshotSessions
           \/ AllSessionsClosed \/ Deadline
           \/ \E l \in Listeners : CloseListener(l) \/ Listen(l) \/ AcceptClosed(l)
    PROVE  TOK'
<1>1. CASE Start
  BY <1>1, TypeSrvFrame DEF Start, TInv, TypeOK, regVars
<1>2. CASE Signal
  BY <1>2, TypeSrvFrame DEF Signal, TInv, TypeOK, regVars
<1>3. CASE CountSessions
  BY <1>3, TypeSrvFrame DEF CountSessions, TInv, TypeOK, regVars
<1>4. CASE SnapshotSessions
  <2>1. hpc' \in [Conns -> {"none", "start", "flush", "write", "close", "end"}]
    BY <1>4 DEF SnapshotSessions, TInv, TypeOK
  <2>2. UNCHANGED <<cpc, sessions, wg, sessVars, hsnap, hfi>> /\ hooked' = sessions
    BY <1>4 DEF SnapshotSessions, regVars
  <2>. QED
    BY <1>4, <2>1, <2>2 DEF SnapshotSessions, TInv, TOK, TypeOK, ReplyBound, IndexOK, sessVars
<1>5. CASE AllSessionsClosed \/ Deadline
  BY <1>5, TypeSrvFrame DEF AllSessionsClosed, Deadline, TInv, TypeOK, regVars
<1>6. CASE \E l \in Listeners : CloseListener(l) \/ Listen(l) \/ AcceptClosed(l)
  BY <1>6, TypeSrvFrame DEF CloseListener, Listen, AcceptClosed, TInv, TypeOK, regVars
<1>. QED
  BY <1>1, <1>2, <1>3, <1>4, <1>5, <1>6

\* Accept and the registry.
LEMMA TypeRegistry ==
    ASSUME TInv, wg' \in Nat, NEW c \in Conns,
           \/ \E l \in Listeners : Accept(l, c)
           \/ RegisterSession(c) \/ UnregisterSession(c) \/ ClientQuit(c)
    PROVE  TOK'
<1>1. CASE \E l \in Listeners : Accept(l, c)
  BY <1>1 DEF Accept, TInv, TOK, TypeOK, ReplyBound, IndexOK, srvVars, sessVars, hookVars
<1>2. CASE RegisterSession(c) \/ UnregisterSession(c)
  BY <1>2 DEF RegisterSession, UnregisterSession, TInv, TOK, TypeOK, ReplyBound, IndexOK, srvVars,
              sessVars, hookVars
<1>3. CASE ClientQuit(c)
  BY <1>3 DEF ClientQuit, TInv, TOK, TypeOK, ReplyBound, IndexOK, srvVars, regVars, hookVars
<1>. QED
  BY <1>1, <1>2, <1>3

\* The session goroutine: runCommandLoop's read, and Handle returning.
LEMMA TypeRead ==
    ASSUME TInv, NEW c \in Conns, ReadCommand(c) \/ ReadFails(c)
    PROVE  TOK'
<1>1. CASE ReadCommand(c)
  <2>1. nreply[c] < MaxReplies[c] /\ UNCHANGED <<nreply, queue>>
    BY <1>1 DEF ReadCommand
  <2>2. PICK more, breaking \in BOOLEAN :
          /\ pm' = [pm EXCEPT ![c] = @ \/ more]
          /\ spc' = [spc EXCEPT ![c] = IF breaking THEN "flush" ELSE "reply"]
          /\ ssnap' = [ssnap EXCEPT ![c] = IF breaking THEN queue[c] ELSE <<>>]
          /\ sfi' = [sfi EXCEPT ![c] = 1]
    BY <1>1 DEF ReadCommand
  <2>3. ReplyBound'
    BY <2>1, <2>2 DEF TInv, TypeOK, ReplyBound
  <2>. QED
    BY <1>1, <2>1, <2>2, <2>3 DEF ReadCommand, TInv, TOK, TypeOK, IndexOK, srvVars, regVars, hookVars
<1>2. CASE ReadFails(c)
  BY <1>2 DEF ReadFails, HandleReturns, TInv, TOK, TypeOK, ReplyBound, IndexOK, srvVars, hookVars
<1>. QED
  BY <1>1, <1>2

\* setupSessionBehaviourAndGreet writes reply 1.
LEMMA TypeGreet ==
    ASSUME TInv, NEW c \in Conns, Greet(c)
    PROVE  TOK'
<1>1. 1 \in Line /\ 1 \in 0..MaxReplies[c]
  BY ServerAssumption, LineOf
<1>2. wire' \in [Conns -> Seq(Line)]
  BY <1>1, WriteType DEF Greet, TInv, TypeOK
<1>3. nreply' \in [Conns -> Nat] /\ \A d \in Conns : nreply'[d] \in 0..MaxReplies[d]
  BY <1>1, NreplyStep DEF Greet, TInv, TypeOK
<1>4. /\ UNCHANGED <<srvVars, sessions, wg, pm, queue, ssnap, sfi, quit, hookVars>>
      /\ nreply' = [nreply EXCEPT ![c] = 1]
  BY DEF Greet
<1>5. CASE closed[c]
  <2>1. /\ spc' = [spc EXCEPT ![c] = "exit"] /\ cpc' = [cpc EXCEPT ![c] = "exit"]
        /\ closed' = [closed EXCEPT ![c] = TRUE]
    BY <1>5 DEF Greet, HandleReturns
  <2>. QED
    BY <1>2, <1>3, <1>4, <2>1 DEF TInv, TOK, TypeOK, ReplyBound, IndexOK, srvVars, hookVars
<1>6. CASE ~closed[c]
  <2>1. spc' = [spc EXCEPT ![c] = "read"] /\ UNCHANGED <<cpc, closed>>
    BY <1>6 DEF Greet
  <2>. QED
    BY <1>2, <1>3, <1>4, <2>1 DEF TInv, TOK, TypeOK, ReplyBound, IndexOK, srvVars, hookVars
<1>. QED
  BY <1>5, <1>6

\* flushResponses in the session goroutine, and writeResponse.
LEMMA TypeFlush ==
    ASSUME TInv, NEW c \in Conns, SessionFlushWrite(c) \/ SessionFlushEnd(c) \/ Reply(c)
    PROVE  TOK'
<1>1. CASE SessionFlushWrite(c)
  <2>1. ssnap[c][sfi[c]] \in Line
    BY <1>1 DEF SessionFlushWrite, TInv, TypeOK, IndexOK
  <2>2. wire' \in [Conns -> Seq(Line)]
    BY <1>1, <2>1, WriteType DEF SessionFlushWrite, TInv, TypeOK
  <2>3. sfi' \in [Conns -> Nat] /\ \A d \in Conns : sfi'[d] >= 1
    BY <1>1 DEF SessionFlushWrite, TInv, TypeOK, IndexOK
  <2>4. CASE closed[c]
    <3>1. /\ spc' = [spc EXCEPT ![c] = "exit"] /\ cpc' = [cpc EXCEPT ![c] = "exit"]
          /\ closed' = [closed EXCEPT ![c] = TRUE]
      BY <1>1, <2>4 DEF SessionFlushWrite, HandleReturns
    <3>. QED
      BY <1>1, <2>2, <2>3, <3>1 DEF SessionFlushWrite, TInv, TOK, TypeOK, ReplyBound, IndexOK,
                                    srvVars, hookVars
  <2>5. CASE ~closed[c]
    <3>1. UNCHANGED <<spc, cpc, closed>>
      BY <1>1, <2>5 DEF SessionFlushWrite
    <3>. QED
      BY <1>1, <2>2, <2>3, <3>1 DEF SessionFlushWrite, TInv, TOK, TypeOK, ReplyBound, IndexOK,
                                    srvVars, hookVars
  <2>. QED
    BY <2>4, <2>5
<1>2. CASE SessionFlushEnd(c)
  BY <1>2 DEF SessionFlushEnd, TInv, TOK, TypeOK, ReplyBound, IndexOK, srvVars, regVars, hookVars
<1>3. CASE Reply(c)
  <2>1. nreply[c] + 1 \in Line /\ nreply[c] + 1 \in 0..MaxReplies[c]
    <3>1. nreply[c] \in Nat /\ nreply[c] < MaxReplies[c] /\ MaxReplies[c] \in Nat
      BY <1>3, ServerAssumption DEF Reply, TInv, ReplyBound
    <3>. QED
      BY <3>1, LineOf
  <2>2. CASE pm[c]
    <3>1. /\ queue' = [queue EXCEPT ![c] = Append(@, nreply[c] + 1)]
          /\ spc' = [spc EXCEPT ![c] = "read"]
          /\ UNCHANGED <<wire, cpc, closed, pm, ssnap, sfi, quit>>
      BY <1>3, <2>2 DEF Reply
    <3>2. queue' \in [Conns -> Seq(Line)]
      BY <2>1, <3>1 DEF TInv, TypeOK
    <3>3. nreply' \in [Conns -> Nat] /\ \A d \in Conns : nreply'[d] \in 0..MaxReplies[d]
      BY <1>3, <2>1, NreplyStep DEF Reply, TInv, TypeOK
    <3>. QED
      BY <1>3, <3>1, <3>2, <3>3 DEF Reply, TInv, TOK, TypeOK, ReplyBound, IndexOK, srvVars,
                                    hookVars
  <2>3. CASE ~pm[c]
    <3>1. wire' \in [Conns -> Seq(Line)]
      BY <1>3, <2>1, <2>3, WriteType DEF Reply, TInv, TypeOK
    <3>2. /\ UNCHANGED <<queue, pm, ssnap, sfi, quit>>
          /\ nreply' \in [Conns -> Nat] /\ \A d \in Conns : nreply'[d] \in 0..MaxReplies[d]
      <4>1. UNCHANGED queue
        BY <1>3, <2>3 DEF Reply
      <4>2. UNCHANGED <<pm, ssnap, sfi, quit>>
        BY <1>3 DEF Reply
      <4>3. nreply' \in [Conns -> Nat] /\ \A d \in Conns : nreply'[d] \in 0..MaxReplies[d]
        BY <1>3, <2>1, NreplyStep DEF Reply, TInv, TypeOK
      <4>. QED
        BY <4>1, <4>2, <4>3
    <3>3. CASE closed[c]
      <4>1. /\ spc' = [spc EXCEPT ![c] = "exit"] /\ cpc' = [cpc EXCEPT ![c] = "exit"]
            /\ closed' = [closed EXCEPT ![c] = TRUE]
        BY <1>3, <2>3, <3>3 DEF Reply, HandleReturns
      <4>. QED
        BY <1>3, <3>1, <3>2, <4>1 DEF Reply, TInv, TOK, TypeOK, ReplyBound, IndexOK, srvVars,
                                      hookVars
    <3>4. CASE ~closed[c]
      <4>1. /\ spc' = [spc EXCEPT ![c] = "read"] /\ UNCHANGED <<cpc, closed>>
        BY <1>3, <2>3, <3>4 DEF Reply
      <4>. QED
        BY <1>3, <3>1, <3>2, <4>1 DEF Reply, TInv, TOK, TypeOK, ReplyBound, IndexOK, srvVars,
                                      hookVars
    <3>. QED
      BY <3>3, <3>4
  <2>. QED
    BY <2>2, <2>3
<1>. QED
  BY <1>1, <1>2, <1>3

\* CloseWith421: flushResponses, the 421 and the close.
LEMMA TypeHook ==
    ASSUME TInv, NEW c \in Conns, HookStep(c)
    PROVE  TOK'
<1>1. CASE HookStart(c)
  <2>1. /\ hpc' \in [Conns -> {"none", "start", "flush", "write", "close", "end"}]
        /\ hsnap' = [hsnap EXCEPT ![c] = queue[c]]
        /\ hfi' = [hfi EXCEPT ![c] = 1]
    BY <1>1 DEF HookStart, TInv, TypeOK
  <2>2. /\ hsnap' \in [Conns -> Seq(Line)]
        /\ hfi' \in [Conns -> Nat] /\ \A d \in Conns : hfi'[d] >= 1
    BY <2>1 DEF TInv, TypeOK, IndexOK
  <2>3. UNCHANGED <<srvVars, regVars, sessVars>>
    BY <1>1 DEF HookStart
  <2>. QED
    BY <2>1, <2>2, <2>3 DEF TInv, TOK, TypeOK, ReplyBound, IndexOK, srvVars, regVars, sessVars
<1>2. CASE HookFlushWrite(c)
  <2>1. hsnap[c][hfi[c]] \in Line
    BY <1>2 DEF HookFlushWrite, TInv, TypeOK, IndexOK
  <2>2. wire' \in [Conns -> Seq(Line)]
    BY <1>2, <2>1, WriteType DEF HookFlushWrite, TInv, TypeOK
  <2>3. /\ hpc' \in [Conns -> {"none", "start", "flush", "write", "close", "end"}]
        /\ hfi' \in [Conns -> Nat] /\ \A d \in Conns : hfi'[d] >= 1
    BY <1>2 DEF HookFlushWrite, TInv, TypeOK, IndexOK
  <2>4. UNCHANGED <<srvVars, regVars, spc, pm, queue, nreply, ssnap, sfi, closed, quit, hsnap>>
    BY <1>2 DEF HookFlushWrite
  <2>. QED
    BY <2>2, <2>3, <2>4 DEF TInv, TOK, TypeOK, ReplyBound, IndexOK, srvVars, regVars
<1>3. CASE HookFlushEnd(c)
  BY <1>3 DEF HookFlushEnd, TInv, TOK, TypeOK, ReplyBound, IndexOK, srvVars, regVars
<1>4. CASE HookWrite421(c)
  <2>1. Shut \in Line
    BY ServerAssumption, LineOf DEF Shut
  <2>2. wire' \in [Conns -> Seq(Line)]
    BY <1>4, <2>1, WriteType DEF HookWrite421, TInv, TypeOK
  <2>. QED
    BY <1>4, <2>2 DEF HookWrite421, TInv, TOK, TypeOK, ReplyBound, IndexOK, srvVars, regVars
<1>5. CASE HookClose(c)
  BY <1>5 DEF HookClose, TInv, TOK, TypeOK, ReplyBound, IndexOK, srvVars, regVars
<1>. QED
  BY <1>1, <1>2, <1>3, <1>4, <1>5 DEF HookStep

\* Every step of the server, its sessions and its hooks keeps the
\* strengthened type invariant.
LEMMA NextTInv == TInv /\ [Next]_vars => TInv'
<1>. SUFFICES ASSUME TInv, [Next]_vars PROVE TInv'
  OBVIOUS
<1>1. RegInv'
  BY RegNext DEF TInv
<1>2. wg' \in Nat
  <2>1. IsFiniteSet(Live(cpc'))
    BY <1>1, LiveFinite DEF RegInv
  <2>. QED
    BY <1>1, <2>1, FS_CardinalityType DEF RegInv
<1>3. TOK'
  <2>1. CASE Start \/ Signal \/ ShutdownStep
              \/ \E l \in Listeners : Listen(l) \/ AcceptClosed(l)
    BY <2>1, TypeServer DEF ShutdownStep
  <2>2. CASE \E l \in Listeners, c \in Conns : Accept(l, c)
    BY <2>2, <1>2, TypeRegistry
  <2>3. ASSUME NEW c \in Conns,
               \/ RegisterSession(c) \/ UnregisterSession(c)
               \/ ReadCommand(c) \/ ClientQuit(c)
               \/ SessionStep(c) \/ HookStep(c)
        PROVE  TOK'
    <3>1. CASE RegisterSession(c) \/ UnregisterSession(c) \/ ClientQuit(c)
      BY <3>1, <1>2, TypeRegistry
    <3>2. CASE ReadCommand(c) \/ ReadFails(c)
      BY <3>2, TypeRead
    <3>3. CASE Greet(c)
      BY <3>3, TypeGreet
    <3>4. CASE SessionFlushWrite(c) \/ SessionFlushEnd(c) \/ Reply(c)
      BY <3>4, TypeFlush
    <3>5. CASE HookStep(c)
      BY <3>5, TypeHook
    <3>. QED
      BY <2>3, <3>1, <3>2, <3>3, <3>4, <3>5 DEF SessionStep
  <2>4. CASE UNCHANGED vars
    BY <2>4 DEF TInv, TOK, TypeOK, ReplyBound, IndexOK, vars, srvVars, regVars, sessVars,
                hookVars
  <2>. QED
    BY <2>1, <2>2, <2>3, <2>4 DEF Next
<1>. QED
  BY <1>1, <1>3 DEF TInv, TOK

\* The initial state satisfies the strengthened type invariant.
LEMMA InitTInv == Init => TInv
<1>. SUFFICES ASSUME Init PROVE TInv
  OBVIOUS
<1>1. RegInv
  BY RegInit
<1>2. \A c \in Conns : 0 \in 0..MaxReplies[c]
  BY ServerAssumption
<1>. QED
  BY <1>1, <1>2 DEF Init, TInv, TypeOK, ReplyBound, IndexOK

\* Type correctness of the server model: whatever the order in which
\* Start, the listeners, Shutdown, the session goroutines, their hooks and
\* the clients run, every variable keeps its type; in particular the
\* sessionsWG counter of Server.Start/Handle never goes below zero, and the
\* reply counter of a session never passes its bound.
THEOREM ServerTypeCorrect == Spec => []TypeOK
<1>1. Init => TInv
  BY InitTInv
<1>2. TInv /\ [Next]_vars => TInv'
  BY NextTInv
<1>3. TInv => TypeOK
  BY DEF TInv
<1>. QED
  BY <1>1, <1>2, <1>3, PTL DEF Spec

=============================================================================
