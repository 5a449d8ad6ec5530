-------------------------------- MODULE Relay --------------------------------
(***************************************************************************)
(* One update on its way through the daemon: the webhook (r1.php) frames   *)
(* the request body with a two-byte length and sends it to the master      *)
(* (conn_handler in master.php), which reads it, forwards what it has read *)
(* to a logger worker (logger_handler in logger.php) and answers "ok".     *)
(*                                                                         *)
(* Bytes are counted, not represented.  TCP delivers a stream in pieces of *)
(* any size up to what fread() asks for.  fread() returns nothing when the *)
(* peer has closed the connection or its timeout has passed.               *)
(***************************************************************************)
EXTENDS Integers

CONSTANTS
  MaxLen,     \* bound: the longest request body
  ReadSize,   \* bytes fread() asks for (4096 in the code)
  HeaderMod   \* lengths that fit the header of pack("S") (2^16 in the code)

ASSUME RelayAssumption ==
  /\ MaxLen \in Nat
  /\ ReadSize \in Nat /\ ReadSize >= 2
  /\ HeaderMod \in Nat /\ HeaderMod > 0

Header == 2   \* bytes of pack("S", ...)

VARIABLES
  len,      \* length of the request body
  json,     \* whether the body is a JSON array or object
  sent,     \* bytes the webhook has put on the wire
  hook,     \* the webhook: sending, waiting, gone, or its HTTP status
  got,      \* bytes the master has read
  first,    \* size of the master's first read
  master,   \* the master's coroutine: first, loop, send, done
  lgot,     \* bytes the logger has read
  lfirst,   \* size of the logger's first read
  logger    \* the logger's coroutine: idle, first, loop, run, reject

relayVars == <<len, json, sent, hook, got, first, master, lgot, lfirst, logger>>
hookVars == <<len, json, sent, hook>>
masterVars == <<got, first, master>>
loggerVars == <<lgot, lfirst, logger>>

RelayInit ==
  /\ len \in 0..MaxLen
  /\ json \in BOOLEAN
  /\ json => len >= 2
  /\ sent = 0 /\ hook = "sending"
  /\ got = 0 /\ first = 0 /\ master = "first"
  /\ lgot = 0 /\ lfirst = 0 /\ logger = "idle"

\* What one fread() may return when n bytes are waiting and the peer may be silent.
Reads(n) == IF n = 0 THEN {0} ELSE 1..(IF n < ReadSize THEN n ELSE ReadSize)

\* unpack("S", substr($rawData, 0, 2))[1] of a first read of n bytes is more than m:
\* never so for the null of a read too short to hold the header.
Unpacked(n, m) == n >= Header /\ len % HeaderMod > m

-----------------------------------------------------------------------------
\* r1.php: socket_send() of header and body, which the kernel takes piece by piece.
hookSends ==
  /\ hook = "sending"
  /\ \E n \in Reads(len + Header - sent) : sent' = sent + n
  /\ hook' = IF sent' = len + Header THEN "waiting" ELSE "sending"
  /\ UNCHANGED <<len, json, masterVars, loggerVars>>

\* The web server gives up on the request, or the send fails (status 500).
hookDies ==
  /\ hook \in {"sending", "waiting"}
  /\ hook' = "gone"
  /\ UNCHANGED <<len, json, sent, masterVars, loggerVars>>

-----------------------------------------------------------------------------
\* Faulty variant: the header counted twice.
Incomplete_HeaderTwice(n) == Unpacked(first', n + Header)

\* conn_handler(): the first fread(); the loop starts from the length with header.
Incomplete(n) == Unpacked(first', n)

masterFirst ==
  /\ master = "first"
  /\ \E n \in Reads(sent - got) : got' = n /\ first' = n
  /\ master' = IF Incomplete(got') THEN "loop" ELSE "send"
  /\ UNCHANGED <<hookVars, loggerVars>>

\* One turn of the loop.  Without new bytes fread() returns "" and the loop turns
\* again: after a timeout, or at once and for ever when the webhook is gone.
masterLoop ==
  /\ master = "loop"
  /\ \E n \in Reads(sent - got) : got' = got + n
  /\ first' = first
  /\ master' = IF Incomplete(got') THEN "loop" ELSE "send"
  /\ UNCHANGED <<hookVars, loggerVars>>

\* send_to_logger() connects and writes what was read; conn_handler() answers "ok" and
\* closes.  Closing with bytes unread resets the connection, and the webhook may
\* see the reset before the answer.
Answers(unread) == IF unread = 0 THEN {"200"} ELSE {"200", "500"}

masterSends ==
  /\ master = "send"
  /\ master' = "done"
  /\ logger' = "first"
  /\ hook' \in IF hook = "gone" THEN {"gone"} ELSE Answers(len + Header - got)
  /\ UNCHANGED <<len, json, sent, got, first, lgot, lfirst>>

-----------------------------------------------------------------------------
\* Faulty variant: one turn too many.
LoggerIncomplete_OffByOne(n) == Unpacked(lfirst', n - Header - 1)

\* logger_handler(): the header is taken off before the loop, which ends when the
\* rest is as long as the header says, or turns for ever once the master has closed.
LoggerIncomplete(n) == Unpacked(lfirst', n - Header)

\* json_decode() of a body that is not complete is not an array.
Decodes(n) == json /\ n - Header = len

loggerFirst ==
  /\ logger = "first"
  /\ \E n \in Reads(got) : lgot' = n /\ lfirst' = n
  /\ logger' = IF LoggerIncomplete(lgot') THEN "loop"
               ELSE IF Decodes(lgot') THEN "run" ELSE "reject"
  /\ UNCHANGED <<hookVars, masterVars>>

loggerLoop ==
  /\ logger = "loop"
  /\ \E n \in Reads(got - lgot) : lgot' = lgot + n
  /\ lfirst' = lfirst
  /\ logger' = IF LoggerIncomplete(lgot') THEN "loop"
               ELSE IF Decodes(lgot') THEN "run" ELSE "reject"
  /\ UNCHANGED <<hookVars, masterVars>>

RelayNext ==
  \/ hookSends \/ hookDies
  \/ masterFirst \/ masterLoop \/ masterSends
  \/ loggerFirst \/ loggerLoop

RelaySpec == RelayInit /\ [][RelayNext]_relayVars

\* The coroutine schedulers of master and logger resume whoever has bytes to read;
\* nothing obliges the webhook to finish its request.
RelayFairness ==
  /\ WF_relayVars(masterFirst) /\ WF_relayVars(masterLoop) /\ WF_relayVars(masterSends)
  /\ WF_relayVars(loggerFirst) /\ WF_relayVars(loggerLoop)

FairRelay == RelaySpec /\ RelayFairness

-----------------------------------------------------------------------------
\* Every variable has its type, and nobody reads what was not sent to it.
RelayTypeOK ==
  /\ len \in 0..MaxLen /\ json \in BOOLEAN
  /\ sent \in 0..(len + Header)
  /\ hook \in {"sending", "waiting", "gone", "200", "500"}
  /\ got \in 0..sent /\ first \in 0..got
  /\ master \in {"first", "loop", "send", "done"}
  /\ lgot \in 0..got /\ lfirst \in 0..lgot
  /\ logger \in {"idle", "first", "loop", "run", "reject"}

\* The header reached both handlers in one piece and holds the whole length.
Framed == first >= Header /\ len < HeaderMod

\* conn_handler() compares the length in the header with a count that includes the
\* header, so it can stop early, but never more than the header's two bytes early.
AtMostHeaderShort == master \in {"send", "done"} /\ Framed => got >= len

\* logger_handler() waits for ever only for bytes the master has not forwarded.
SpinOnlyIfShort == logger = "loop" /\ lgot = got => got < len + Header

\* logger_handler() rejects no update that the master forwarded whole, however TCP
\* cuts the stream after the header.
WholeIsAccepted ==
  logger = "reject" /\ json /\ got = len + Header /\ lfirst >= Header =>
    len >= HeaderMod

\* A webhook that has sent its request gets an answer, unless it gives up.
HookAnswered == hook = "waiting" ~> hook \in {"200", "500", "gone"}

\* A logger that is given a whole update finishes reading it.
LoggerFinishes ==
  logger = "first" /\ got = len + Header ~> logger \in {"run", "reject"}

\* What the relay may do to one request: conn_handler() stops at most the header early, and
\* logger_handler() neither waits for bytes that were forwarded nor rejects what is whole.
RelaySound == RelayTypeOK /\ AtMostHeaderShort /\ SpinOnlyIfShort /\ WholeIsAccepted

\* Both ends of the relay come to an end: the webhook that has sent its request gets an
\* answer from conn_handler(), and logger_handler() finishes with a whole update.
RelayEnds == HookAnswered /\ LoggerFinishes

\* "Read more if the payload has not been received completely": what conn_handler()
\* forwards is the whole framed request.
ForwardsWhole == master \in {"send", "done"} /\ Framed => got = len + Header
=============================================================================
