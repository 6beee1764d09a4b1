----------------------------- MODULE BdatSize -----------------------------
(***************************************************************************)
(* The size accounting of handleBdat (server/session.go) in Go's int      *)
(* arithmetic: the chunk size n comes from strconv.Atoi, so it may be any  *)
(* int up to the largest, and the check totalSoFar+n > maxSize is made on *)
(* ints of IntWidth bits, which wrap.  readBDATChunk then allocates and    *)
(* reads n bytes.  The buffer length bufLen is counted in true integers.   *)
(***************************************************************************)
EXTENDS Naturals

CONSTANTS
    IntWidth,   \* bits of Go's int in the build
    MaxSize,    \* getMaxMessageSize()
    Sizes       \* the chunk sizes clients write after BDAT, as ints

MaxInt == 2^(IntWidth - 1) - 1

\* The constants are meant to satisfy IntWidth > 1, MaxSize \in 1..MaxInt
\* and Sizes \subseteq 0..MaxInt (what strconv.Atoi returns past the n < 0
\* refusal).

\* Go's + on two non-negative ints: the sum modulo 2^IntWidth, read as a
\* two's complement int.
GoAdd(a, b) == IF a + b > MaxInt THEN a + b - 2^IntWidth ELSE a + b

VARIABLES
    state,      \* "RCPT", "BDAT" or "MAIL"
    bufLen,     \* len(s.bdatBuffer)
    dataError,  \* s.dataErrorResult # nil (scheduled by MAIL FROM)
    stored      \* messages handed to storeMessage

vars == <<state, bufLen, dataError, stored>>

\* A fresh session (nil bdatBuffer) just after handleMail accepted a sender,
\* which may have scheduled a DATA error, and moved to RCPT.
Init ==
    /\ state = "RCPT"
    /\ bufLen = 0
    /\ dataError \in BOOLEAN
    /\ stored = 0

\* handleBdat with BDAT <n> [LAST]: the state check, the scheduled DATA
\* error on LAST, the size check, readBDATChunk and the append, then on
\* LAST storeMessage (which may fail: handleStorageError) or 250 OK.
Bdat(n, last) ==
    /\ state \in {"RCPT", "BDAT"}
    /\ ~(dataError /\ last)
    /\ ~(GoAdd(bufLen, n) > MaxSize)
    /\ IF last
       THEN \/ /\ bufLen' = 0 /\ state' = "MAIL" /\ dataError' = FALSE
               /\ stored' = stored + 1
            \/ /\ bufLen' = bufLen + n
               /\ UNCHANGED <<state, dataError, stored>>
       ELSE /\ bufLen' = bufLen + n /\ state' = "BDAT"
            /\ UNCHANGED <<dataError, stored>>

\* The refusals of handleBdat (503, the scheduled error, 552) change nothing.
Next == \E n \in Sizes, last \in BOOLEAN : Bdat(n, last)

Spec == Init /\ [][Next]_vars

\* Spec 4.6: a chunk is read and appended only while the buffer plus the
\* chunk stay within the effective SIZE, so the session never reads or
\* allocates more than maxSize bytes for a message.
BufferWithinSize == bufLen <= MaxSize

=============================================================================
