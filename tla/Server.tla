------------------------------ MODULE Server ------------------------------
(***************************************************************************)
(* The server of server/server.go around its sessions: Start and the       *)
(* listener goroutines it spawns, one goroutine per accepted connection    *)
(* (handleConnectionForPort: registerSession, Handle, unregisterSession),  *)
(* and the Shutdown goroutine with the CloseWith421 hooks it starts, one   *)
(* per session of its snapshot.                                            *)
(*                                                                         *)
(* A session is seen only through what the shutdown path shares with it:  *)
(* its connection, its response queue and pipelining mode, and the lines   *)
(* it writes.  Replies are numbered in the order the session produces      *)
(* them; how a command is handled is Session's business, so whether a     *)
(* command is breaking and whether more input is buffered are free         *)
(* choices here.  The hooks touch responseQueue and conn without a lock    *)
(* (a data race): a range loop reads the slice once and the assignment    *)
(* of nil happens after it, which is what the build does with the race.  *)
(***************************************************************************)
EXTENDS Naturals, Sequences, FiniteSets

CONSTANTS
    Listeners,   \* the listener goroutines Start spawns (one per port)
    Conns,       \* the connections clients open
    MaxReplies   \* bound, per connection: replies (greeting included) its session produces

ASSUME ServerAssumption ==
    /\ IsFiniteSet(Listeners) /\ IsFiniteSet(Conns)
    /\ MaxReplies \in [Conns -> Nat \ {0}]

\* The line "421 Service shutting down" that CloseWith421 writes; replies
\* are numbered from 1.
Shut == 0
Line == UNION {0..MaxReplies[c] : c \in Conns}

VARIABLES
    startPc,       \* Start: "init", then "blocked" on <-make(chan struct{}) for ever
    lpc,           \* per listener goroutine: "none", "listen", "accept", "exit"
    listeners,     \* Server.listeners
    lclosed,       \* listeners whose Close has been called
    cpc,           \* per connection goroutine: "idle", "accepted", "live", "exit", "done"
    sessions,      \* Server.sessions
    wg,            \* the counter of Server.sessionsWG
    shpc,          \* the Shutdown goroutine: "idle", "close", "count", "snapshot", "wait", "done"
    shres,         \* what Shutdown returned: "none", "noSessions", "allClosed", "deadline"
    lsnap,         \* closeAllListeners' copy of the listeners
    hooked,        \* sessions of activeSessionSnapshot, given a CloseWith421
    \* per session
    spc,           \* "greet", "read", "flush", "reply", "exit"
    pm,            \* Session.pipeliningMode
    queue,         \* Session.responseQueue
    nreply,        \* replies produced so far
    ssnap, sfi,    \* the session's flushResponses: the slice it ranges over, the index
    wire,          \* lines written to the connection
    closed,        \* the connection has been closed
    quit,          \* the client has closed its side
    \* per CloseWith421 hook
    hpc,           \* "none", "start", "flush", "write", "close", "end"
    hsnap, hfi     \* the hook's flushResponses: its slice and index

srvVars == <<startPc, lpc, listeners, lclosed, shpc, shres, lsnap, hooked>>
regVars == <<cpc, sessions, wg>>
sessVars == <<spc, pm, queue, nreply, ssnap, sfi, wire, closed, quit>>
hookVars == <<hpc, hsnap, hfi>>
vars == <<srvVars, regVars, sessVars, hookVars>>

\* conn.Write: the line is appended unless the connection is closed, in
\* which case the write fails and the connection stays as it is.
Write(c, l) == wire' = IF closed[c] THEN wire ELSE [wire EXCEPT ![c] = Append(@, l)]

\* A session goroutine's error return: Handle's deferred conn.Close runs.
HandleReturns(c) ==
    /\ spc' = [spc EXCEPT ![c] = "exit"]
    /\ cpc' = [cpc EXCEPT ![c] = "exit"]
    /\ closed' = [closed EXCEPT ![c] = TRUE]

-----------------------------------------------------------------------------
(* Start, the listeners and the connection goroutines.                     *)

\* Start: install the signal handler, spawn the listener goroutines, then
\* block on a channel that nothing closes.
Start ==
    /\ startPc = "init"
    /\ startPc' = "blocked"
    /\ lpc' = [l \in Listeners |-> "listen"]
    /\ UNCHANGED <<listeners, lclosed, shpc, shres, lsnap, hooked, regVars, sessVars, hookVars>>

\* startPortListener: net.Listen, then addListener; or the port is in use
\* and the goroutine logs and returns.
Listen(l) ==
    /\ lpc[l] = "listen"
    /\ \/ /\ lpc' = [lpc EXCEPT ![l] = "accept"]
          /\ listeners' = listeners \cup {l}
       \/ /\ lpc' = [lpc EXCEPT ![l] = "exit"]
          /\ UNCHANGED listeners
    /\ UNCHANGED <<startPc, lclosed, shpc, shres, lsnap, hooked, regVars, sessVars, hookVars>>

\* listener.Accept returns a connection and `go handleConnectionForPort`.
Accept(l, c) ==
    /\ lpc[l] = "accept" /\ l \notin lclosed
    /\ cpc[c] = "idle"
    /\ cpc' = [cpc EXCEPT ![c] = "accepted"]
    /\ UNCHANGED <<srvVars, sessions, wg, sessVars, hookVars>>

\* Accept fails on a closed listener: the loop returns and the deferred
\* removeListener drops it from Server.listeners.
AcceptClosed(l) ==
    /\ lpc[l] = "accept" /\ l \in lclosed
    /\ lpc' = [lpc EXCEPT ![l] = "exit"]
    /\ listeners' = listeners \ {l}
    /\ UNCHANGED <<startPc, lclosed, shpc, shres, lsnap, hooked, regVars, sessVars, hookVars>>

\* registerSession without its sessionsWG.Add(1).
RegisterSessionNoAdd(c) ==
    /\ cpc[c] = "accepted"
    /\ cpc' = [cpc EXCEPT ![c] = "live"]
    /\ sessions' = sessions \cup {c}
    /\ UNCHANGED <<srvVars, wg, sessVars, hookVars>>

\* handleConnectionForPort: NewSessionWithHostname, registerSession
\* (sessions[sess] = struct{}{}, sessionsWG.Add(1)), then Handle.
RegisterSession(c) ==
    /\ cpc[c] = "accepted"
    /\ cpc' = [cpc EXCEPT ![c] = "live"]
    /\ sessions' = sessions \cup {c}
    /\ wg' = wg + 1
    /\ UNCHANGED <<srvVars, sessVars, hookVars>>

\* The deferred unregisterSession once Handle has returned.
UnregisterSession(c) ==
    /\ cpc[c] = "exit"
    /\ cpc' = [cpc EXCEPT ![c] = "done"]
    /\ sessions' = sessions \ {c}
    /\ wg' = wg - 1
    /\ UNCHANGED <<srvVars, sessVars, hookVars>>

-----------------------------------------------------------------------------
(* The session goroutine, as far as the shutdown path sees it.             *)

\* setupSessionBehaviourAndGreet writes the 220 directly.
Greet(c) ==
    /\ cpc[c] = "live" /\ spc[c] = "greet"
    /\ nreply' = [nreply EXCEPT ![c] = 1]
    /\ Write(c, 1)
    /\ IF closed[c] THEN HandleReturns(c)
       ELSE /\ spc' = [spc EXCEPT ![c] = "read"]
            /\ UNCHANGED <<cpc, closed>>
    /\ UNCHANGED <<srvVars, sessions, wg, pm, queue, ssnap, sfi, quit, hookVars>>

\* runCommandLoop reads a line (the client has written one), peeks for more
\* input (detectPipelining), and handleCommand flushes the queue and leaves
\* pipelining mode before a breaking command.
ReadCommand(c) ==
    /\ cpc[c] = "live" /\ spc[c] = "read"
    /\ ~closed[c] /\ ~quit[c] /\ nreply[c] < MaxReplies[c]
    /\ \E more, breaking \in BOOLEAN :
          /\ pm' = [pm EXCEPT ![c] = @ \/ more]
          /\ spc' = [spc EXCEPT ![c] = IF breaking THEN "flush" ELSE "reply"]
          /\ ssnap' = [ssnap EXCEPT ![c] = IF breaking THEN queue[c] ELSE <<>>]
          /\ sfi' = [sfi EXCEPT ![c] = 1]
    /\ UNCHANGED <<srvVars, regVars, queue, nreply, wire, closed, quit, hookVars>>

\* ReadLine fails: the client has closed its side, or the connection has
\* been closed under the session; Handle returns.
ReadFails(c) ==
    /\ cpc[c] = "live" /\ spc[c] = "read"
    /\ closed[c] \/ quit[c]
    /\ HandleReturns(c)
    /\ UNCHANGED <<srvVars, sessions, wg, pm, queue, nreply, ssnap, sfi, wire, quit, hookVars>>

\* flushResponses, one iteration of `for _, response := range s.responseQueue`;
\* a failed write returns the error and Handle returns.
SessionFlushWrite(c) ==
    /\ cpc[c] = "live" /\ spc[c] = "flush" /\ sfi[c] <= Len(ssnap[c])
    /\ Write(c, ssnap[c][sfi[c]])
    /\ IF closed[c] THEN HandleReturns(c)
       ELSE UNCHANGED <<spc, cpc, closed>>
    /\ sfi' = [sfi EXCEPT ![c] = @ + 1]
    /\ UNCHANGED <<srvVars, sessions, wg, pm, queue, nreply, ssnap, quit, hookVars>>

\* The end of flushResponses (s.responseQueue = nil) and handleCommand's
\* s.pipeliningMode = false.
SessionFlushEnd(c) ==
    /\ cpc[c] = "live" /\ spc[c] = "flush" /\ sfi[c] > Len(ssnap[c])
    /\ queue' = [queue EXCEPT ![c] = <<>>]
    /\ pm' = [pm EXCEPT ![c] = FALSE]
    /\ spc' = [spc EXCEPT ![c] = "reply"]
    /\ UNCHANGED <<srvVars, regVars, nreply, ssnap, sfi, wire, closed, quit, hookVars>>

\* The handler's writeResponse: queued in pipelining mode, else written.
Reply(c) ==
    /\ cpc[c] = "live" /\ spc[c] = "reply"
    /\ nreply' = [nreply EXCEPT ![c] = @ + 1]
    /\ IF pm[c]
       THEN /\ queue' = [queue EXCEPT ![c] = Append(@, nreply[c] + 1)]
            /\ spc' = [spc EXCEPT ![c] = "read"]
            /\ UNCHANGED <<wire, cpc, closed>>
       ELSE /\ Write(c, nreply[c] + 1)
            /\ IF closed[c] THEN HandleReturns(c)
               ELSE /\ spc' = [spc EXCEPT ![c] = "read"]
                    /\ UNCHANGED <<cpc, closed>>
            /\ UNCHANGED queue
    /\ UNCHANGED <<srvVars, sessions, wg, pm, ssnap, sfi, quit, hookVars>>

\* The client closes its side of the connection.
ClientQuit(c) ==
    /\ cpc[c] \in {"accepted", "live"} /\ ~quit[c]
    /\ quit' = [quit EXCEPT ![c] = TRUE]
    /\ UNCHANGED <<srvVars, regVars, spc, pm, queue, nreply, ssnap, sfi, wire, closed, hookVars>>

-----------------------------------------------------------------------------
(* Shutdown, run by the signal handler Start installed.                    *)

\* SIGINT or SIGTERM: CompareAndSwap of shuttingDown, then
\* closeAllListeners copies Server.listeners under listenersMu.
Signal ==
    /\ startPc = "blocked" /\ shpc = "idle"
    /\ shpc' = "close"
    /\ lsnap' = listeners
    /\ UNCHANGED <<startPc, lpc, listeners, lclosed, shres, hooked, regVars, sessVars, hookVars>>

\* closeAllListeners: l.Close() for each listener of the copy.
CloseListener(l) ==
    /\ shpc = "close" /\ l \in lsnap \ lclosed
    /\ lclosed' = lclosed \cup {l}
    /\ UNCHANGED <<startPc, lpc, listeners, shpc, shres, lsnap, hooked, regVars, sessVars, hookVars>>

\* activeSessionCount: with no session, Shutdown reports completion.
CountSessions ==
    /\ shpc = "close" /\ lsnap \subseteq lclosed
    /\ IF sessions = {}
       THEN shpc' = "done" /\ shres' = "noSessions"
       ELSE shpc' = "snapshot" /\ UNCHANGED shres
    /\ UNCHANGED <<startPc, lpc, listeners, lclosed, lsnap, hooked, regVars, sessVars, hookVars>>

\* activeSessionSnapshot, and `go CloseWith421` for each session in it.
SnapshotSessions ==
    /\ shpc = "snapshot"
    /\ shpc' = "wait"
    /\ hooked' = sessions
    /\ hpc' = [c \in Conns |-> IF c \in sessions THEN "start" ELSE hpc[c]]
    /\ UNCHANGED <<startPc, lpc, listeners, lclosed, shres, lsnap, regVars, sessVars, hsnap, hfi>>

\* sessionsWG.Wait returns: the select takes `done`.
AllSessionsClosed ==
    /\ shpc = "wait" /\ wg = 0
    /\ shpc' = "done" /\ shres' = "allClosed"
    /\ UNCHANGED <<startPc, lpc, listeners, lclosed, lsnap, hooked, regVars, sessVars, hookVars>>

\* The shutdown context's deadline passes first: Shutdown returns ctx.Err().
Deadline ==
    /\ shpc = "wait"
    /\ shpc' = "done" /\ shres' = "deadline"
    /\ UNCHANGED <<startPc, lpc, listeners, lclosed, lsnap, hooked, regVars, sessVars, hookVars>>

-----------------------------------------------------------------------------
(* CloseWith421, one goroutine per session of the snapshot.  It shares     *)
(* responseQueue and conn with the session goroutine and takes no lock.   *)

\* flushResponses: return at once on an empty queue, else range over it.
HookStart(c) ==
    /\ hpc[c] = "start"
    /\ hpc' = [hpc EXCEPT ![c] = IF queue[c] = <<>> THEN "write" ELSE "flush"]
    /\ hsnap' = [hsnap EXCEPT ![c] = queue[c]]
    /\ hfi' = [hfi EXCEPT ![c] = 1]
    /\ UNCHANGED <<srvVars, regVars, sessVars>>

\* One iteration of the range loop; on a failed write flushResponses
\* returns, and CloseWith421 logs it and goes on to the 421.
HookFlushWrite(c) ==
    /\ hpc[c] = "flush" /\ hfi[c] <= Len(hsnap[c])
    /\ Write(c, hsnap[c][hfi[c]])
    /\ IF closed[c] THEN hpc' = [hpc EXCEPT ![c] = "write"]
       ELSE UNCHANGED hpc
    /\ hfi' = [hfi EXCEPT ![c] = @ + 1]
    /\ UNCHANGED <<srvVars, regVars, spc, pm, queue, nreply, ssnap, sfi, closed, quit, hsnap>>

\* s.responseQueue = nil after the loop.
HookFlushEnd(c) ==
    /\ hpc[c] = "flush" /\ hfi[c] > Len(hsnap[c])
    /\ queue' = [queue EXCEPT ![c] = <<>>]
    /\ hpc' = [hpc EXCEPT ![c] = "write"]
    /\ UNCHANGED <<srvVars, regVars, spc, pm, nreply, ssnap, sfi, wire, closed, quit, hsnap, hfi>>

\* CloseWith421 returning after the 421 without closing the connection.
HookWrite421NoClose(c) ==
    /\ hpc[c] = "write"
    /\ Write(c, Shut)
    /\ hpc' = [hpc EXCEPT ![c] = "end"]
    /\ UNCHANGED <<srvVars, regVars, spc, pm, queue, nreply, ssnap, sfi, closed, quit, hsnap, hfi>>

\* conn.Write of the 421; if it fails the connection is closed at once.
HookWrite421(c) ==
    /\ hpc[c] = "write"
    /\ Write(c, Shut)
    /\ hpc' = [hpc EXCEPT ![c] = IF closed[c] THEN "end" ELSE "close"]
    /\ UNCHANGED <<srvVars, regVars, spc, pm, queue, nreply, ssnap, sfi, closed, quit, hsnap, hfi>>

\* conn.Close after the 421.
HookClose(c) ==
    /\ hpc[c] = "close"
    /\ closed' = [closed EXCEPT ![c] = TRUE]
    /\ hpc' = [hpc EXCEPT ![c] = "end"]
    /\ UNCHANGED <<srvVars, regVars, spc, pm, queue, nreply, ssnap, sfi, wire, quit, hsnap, hfi>>

-----------------------------------------------------------------------------
(* Properties.                                                             *)

TypeOK ==
    /\ startPc \in {"init", "blocked"}
    /\ lpc \in [Listeners -> {"none", "listen", "accept", "exit"}]
    /\ listeners \subseteq Listeners /\ lclosed \subseteq Listeners
    /\ lsnap \subseteq Listeners
    /\ cpc \in [Conns -> {"idle", "accepted", "live", "exit", "done"}]
    /\ sessions \subseteq Conns /\ hooked \subseteq Conns
    /\ wg \in Nat
    /\ shpc \in {"idle", "close", "snapshot", "wait", "done"}
    /\ shres \in {"none", "noSessions", "allClosed", "deadline"}
    /\ spc \in [Conns -> {"greet", "read", "flush", "reply", "exit"}]
    /\ pm \in [Conns -> BOOLEAN]
    /\ queue \in [Conns -> Seq(Line)] /\ ssnap \in [Conns -> Seq(Line)]
    /\ hsnap \in [Conns -> Seq(Line)] /\ wire \in [Conns -> Seq(Line)]
    /\ \A c \in Conns : nreply[c] \in 0..MaxReplies[c]
    /\ sfi \in [Conns -> Nat] /\ hfi \in [Conns -> Nat]
    /\ closed \in [Conns -> BOOLEAN] /\ quit \in [Conns -> BOOLEAN]
    /\ hpc \in [Conns -> {"none", "start", "flush", "write", "close", "end"}]

\* Spec 5 (ordering) and 6 (421 is the last line): while CloseWith421 and
\* the session goroutine both write and flush responseQueue, the client
\* reads the replies in the order they were produced, each once, and the
\* 421 only as the last line.
ShutdownWireInOrder ==
    \A c \in Conns : \A i \in 1..Len(wire[c]) :
        \/ wire[c][i] = i
        \/ wire[c][i] = Shut /\ i = Len(wire[c])

\* Shutdown returns nil ("shutdown complete") only once no accepted
\* connection is still served: none waits in handleConnectionForPort to
\* register, none is in Handle.
ShutdownCompleteClosesAll ==
    shres \in {"noSessions", "allClosed"} =>
        \A c \in Conns : cpc[c] \in {"idle", "done"}

\* registerSession's sessionsWG.Add and unregisterSession's Done: when
\* Wait lets Shutdown report completion, every session it sent a 421 to
\* has left Handle and been unregistered.
AllClosedMeansNotifiedDone ==
    shres = "allClosed" => \A c \in hooked : cpc[c] = "done"

\* CloseWith421 ends its session whatever the client does: the close
\* wakes the session blocked in ReadLine, Handle returns and the session
\* is unregistered.
NotifiedSessionsEnd ==
    \A c \in Conns : (c \in hooked) ~> (cpc[c] = "done")

-----------------------------------------------------------------------------

Init ==
    /\ startPc = "init"
    /\ lpc = [l \in Listeners |-> "none"]
    /\ listeners = {} /\ lclosed = {}
    /\ cpc = [c \in Conns |-> "idle"]
    /\ sessions = {} /\ wg = 0
    /\ shpc = "idle" /\ shres = "none"
    /\ lsnap = {} /\ hooked = {}
    /\ spc = [c \in Conns |-> "greet"]
    /\ pm = [c \in Conns |-> FALSE]
    /\ queue = [c \in Conns |-> <<>>]
    /\ nreply = [c \in Conns |-> 0]
    /\ ssnap = [c \in Conns |-> <<>>]
    /\ sfi = [c \in Conns |-> 1]
    /\ wire = [c \in Conns |-> <<>>]
    /\ closed = [c \in Conns |-> FALSE]
    /\ quit = [c \in Conns |-> FALSE]
    /\ hpc = [c \in Conns |-> "none"]
    /\ hsnap = [c \in Conns |-> <<>>]
    /\ hfi = [c \in Conns |-> 1]

SessionStep(c) ==
    Greet(c) \/ ReadFails(c) \/ SessionFlushWrite(c) \/ SessionFlushEnd(c) \/ Reply(c)

HookStep(c) ==
    HookStart(c) \/ HookFlushWrite(c) \/ HookFlushEnd(c) \/ HookWrite421(c) \/ HookClose(c)

ShutdownStep ==
    \/ \E l \in Listeners : CloseListener(l)
    \/ CountSessions \/ SnapshotSessions \/ AllSessionsClosed \/ Deadline

Next ==
    \/ Start \/ Signal \/ ShutdownStep
    \/ \E l \in Listeners : Listen(l) \/ AcceptClosed(l)
    \/ \E l \in Listeners, c \in Conns : Accept(l, c)
    \/ \E c \in Conns : \/ RegisterSession(c) \/ UnregisterSession(c)
                        \/ ReadCommand(c) \/ ClientQuit(c)
                        \/ SessionStep(c) \/ HookStep(c)

\* Goroutines that can run eventually do: Start, the listeners, the
\* connection goroutines, Shutdown once signalled (its context deadline is
\* a timer that fires), and the CloseWith421 hooks.  The client and the
\* signal are not obliged to do anything.
Fairness ==
    /\ WF_vars(Start)
    /\ \A l \in Listeners : WF_vars(Listen(l)) /\ WF_vars(AcceptClosed(l))
    /\ WF_vars(ShutdownStep)
    /\ \A c \in Conns : /\ WF_vars(RegisterSession(c))
                        /\ WF_vars(UnregisterSession(c))
                        /\ WF_vars(SessionStep(c))
                        /\ WF_vars(HookStep(c))

Spec == Init /\ [][Next]_vars /\ Fairness

=============================================================================
