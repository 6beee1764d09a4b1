---------------------------- MODULE MCSession ----------------------------
(***************************************************************************)
(* Small instances of Session for TLC.  Hostnames and mailboxes are the   *)
(* capability labels and local-part patterns the server interprets; the   *)
(* groups are the bursts a pipelining client writes.                       *)
(***************************************************************************)
EXTENDS Session

\* EHLO pipe.example: every capability on, no size part.
HostPipe == [pipelining |-> TRUE, smtputf8 |-> TRUE, nosize |-> FALSE,
             size |-> 0, reject |-> FALSE, code |-> NoError]
\* EHLO size500-nopipelining-nosmtputf8.example: SIZE clamped up to 1000.
HostSmall == [pipelining |-> FALSE, smtputf8 |-> FALSE, nosize |-> FALSE,
              size |-> 500, reject |-> FALSE, code |-> NoError]
\* EHLO reject.example: refused with 502.
HostReject == [pipelining |-> TRUE, smtputf8 |-> TRUE, nosize |-> FALSE,
               size |-> 0, reject |-> TRUE, code |-> NoError]
\* HELO helo421.example: a scheduled 421.
Host421 == [pipelining |-> TRUE, smtputf8 |-> TRUE, nosize |-> FALSE,
            size |-> 0, reject |-> FALSE, code |-> 421]

\* user@example.com
AddrOk == [syntax |-> "ascii", verb |-> "none", code |-> NoError]
\* usér@example.com: valid only with SMTPUTF8
AddrUtf8 == [syntax |-> "utf8", verb |-> "none", code |-> NoError]
\* data451@example.com, noop421@example.com, mail550@example.com,
\* rset450@example.com
AddrData == [syntax |-> "ascii", verb |-> "data", code |-> 451]
AddrNoop421 == [syntax |-> "ascii", verb |-> "noop", code |-> 421]
AddrMail550 == [syntax |-> "ascii", verb |-> "mail", code |-> 550]
AddrRset == [syntax |-> "ascii", verb |-> "rset", code |-> 450]
\* rcpt550@example.com, starttls454@example.com, auth454@example.com
AddrRcpt550 == [syntax |-> "ascii", verb |-> "rcpt", code |-> 550]
AddrTls454 == [syntax |-> "ascii", verb |-> "starttls", code |-> 454]
AddrAuth454 == [syntax |-> "ascii", verb |-> "auth", code |-> 454]

MCHostnames == {HostPipe, HostSmall, HostReject, Host421}
MCAddresses == {AddrOk, AddrUtf8, AddrData, AddrNoop421, AddrMail550, AddrRset,
                AddrRcpt550, AddrTls454, AddrAuth454}

It(v, a) == [verb |-> v, arg |-> a, txn |-> 0]
Chunk(n, l) == It("BDAT", [size |-> n, last |-> l])

\* The bursts the client may write: a greeting, envelopes closed by DATA
\* or BDAT, single commands, and RFC 2920 groups ending in NOOP.
MCGroups ==
    { <<It("EHLO", HostPipe)>>, <<It("EHLO", HostSmall)>>,
      <<It("EHLO", HostReject)>>, <<It("HELO", Host421)>>,
      <<It("MAIL", AddrOk), It("RCPT", AddrOk), It("DATA", "none")>>,
      <<It("MAIL", AddrData), It("RCPT", AddrUtf8), It("DATA", "none")>>,
      <<It("MAIL", AddrNoop421), It("RCPT", AddrOk), It("NOOP", "none")>>,
      <<It("MAIL", AddrMail550), It("RCPT", AddrOk), It("DATA", "none")>>,
      <<It("MAIL", AddrOk), It("RCPT", AddrOk), Chunk(600, FALSE), Chunk(600, TRUE)>>,
      <<It("RSET", "none")>>, <<It("QUIT", "none")>>, <<It("STARTTLS", "none")>>,
      <<It("AUTH", "gooduser")>>, <<It("VRFY", "exists")>> }

\* The commands outside the mail transaction: HELO, SMTPUTF8 refusals,
\* the deferred STARTTLS and AUTH errors, an RSET refused by a scheduled
\* error after a recipient, TLS, AUTH and VRFY.
MCGroupsCmds ==
    { <<It("HELO", HostSmall)>>, <<It("EHLO", HostPipe)>>, <<It("EHLO", HostSmall)>>,
      <<It("MAIL", AddrUtf8), It("RCPT", AddrOk), It("DATA", "none")>>,
      <<It("MAIL", AddrTls454), It("RCPT", AddrRcpt550), It("RSET", "none"),
        It("STARTTLS", "none")>>,
      <<It("MAIL", AddrAuth454), It("RSET", "none")>>,
      <<It("MAIL", AddrRset), It("RCPT", AddrOk), It("RSET", "none")>>,
      <<It("STARTTLS", "none")>>, <<It("AUTH", "badmech")>>,
      <<It("AUTH", "baduser")>>, <<It("AUTH", "gooduser")>>,
      <<It("VRFY", "ambiguous"), It("NOOP", "none")>>, <<It("QUIT", "none")>> }

\* Pipelined envelopes whose last command is NOOP (RFC 2920 lets the client
\* wait for the replies there).
MCGroupsPipe ==
    { <<It("EHLO", HostPipe)>>,
      <<It("MAIL", AddrOk), It("RCPT", AddrOk), It("NOOP", "none")>> }

\* BDAT transactions: a chunk refused by a scheduled DATA error, and a LAST
\* chunk whose storage may fail, followed by RSET and a new transaction.
MCGroupsBdat ==
    { <<It("EHLO", HostPipe)>>,
      <<It("MAIL", AddrOk), It("RCPT", AddrOk), Chunk(600, TRUE)>>,
      <<It("MAIL", AddrData), It("RCPT", AddrOk), Chunk(600, TRUE)>>,
      <<It("RSET", "none")>> }

MCBodySizes == {100, 2000}
MCChunkSizes == {600}
MCMaxMessageSize == 10485760

=============================================================================
