------------------------------ MODULE LogStream ------------------------------
(***************************************************************************)
(* Live container logs: the WebSocket handler that tails a log file        *)
(* (app/routers/containers.py) and the viewer on the page                  *)
(* (app/static/app.js).  The viewer opens one socket after the other, each *)
(* with its own handler, tail process and buffered lines; events of an old *)
(* socket, its flush timer and its handler are still about when the next   *)
(* one is used.                                                            *)
(***************************************************************************)
EXTENDS Naturals, Sequences, SequencesExt, FiniteSetsExt

CONSTANTS
  LogMax,      (* LOG_MAX_CHARS, counted in lines                            *)
  MaxSockets,  (* model bound: how often a log is opened                     *)
  MaxLines     (* model bound: lines the tails print in all                   *)

ASSUME LogAssumption ==
  /\ LogMax \in Nat \ {0}
  /\ MaxSockets \in Nat /\ MaxLines \in Nat

Sockets == 1..MaxSockets
NoSocket == 0

VARIABLES
  opened,     (* sockets created so far                                      *)
  logSocket,  (* the socket of the viewer, or NoSocket                       *)
  text,       (* the lines in the <pre>                                      *)
  starts,     (* where its text nodes start: how many lines stand before     *)
  client,     (* socket -> its state in the browser                          *)
  pending,    (* socket -> lines received and not flushed                    *)
  flushing,   (* socket -> is its flush timer set                            *)
  size,       (* socket -> how much text it believes is shown                *)
  got,        (* socket -> last line received (history)                      *)
  wire,       (* socket -> frames on their way to the browser                *)
  gone,       (* socket -> has the server's end been disconnected            *)
  handler,    (* socket -> where container_logs is                           *)
  tail,       (* socket -> its tail process                                  *)
  printed,    (* socket -> lines the tail printed                            *)
  sent        (* socket -> lines pump took                                   *)

viewer == <<opened, logSocket, text, starts, pending, flushing, size, got>>
server == <<handler, tail, printed, sent>>
vars == <<viewer, client, wire, gone, server>>

Line(k, n) == [sock |-> k, n |-> n]
Note(k) == Line(k, 0)             \* text of the viewer or the handler itself

Init ==
  /\ opened = 0 /\ logSocket = NoSocket
  /\ text = <<>> /\ starts = {}
  /\ client = [k \in Sockets |-> "none"]
  /\ pending = [k \in Sockets |-> <<>>]
  /\ flushing = [k \in Sockets |-> FALSE]
  /\ size = [k \in Sockets |-> 0]
  /\ got = [k \in Sockets |-> 0]
  /\ wire = [k \in Sockets |-> <<>>]
  /\ gone = [k \in Sockets |-> FALSE]
  /\ handler = [k \in Sockets |-> "none"]
  /\ tail = [k \in Sockets |-> "none"]
  /\ printed = [k \in Sockets |-> 0]
  /\ sent = [k \in Sockets |-> 0]

-----------------------------------------------------------------------------
(* The viewer.                                                               *)

\* closeLogSocket: the handlers are detached and the socket closed.
Hangup ==
  /\ gone' = [k \in Sockets |-> gone[k] \/ k = logSocket]
  /\ wire' = [k \in Sockets |-> IF k = logSocket THEN <<>> ELSE wire[k]]

\* openLogViewer; each socket stands for the container it was opened for.
OpenViewer ==
  LET k == opened + 1
  IN  /\ k \in Sockets
      /\ Hangup
      /\ opened' = k
      /\ logSocket' = k
      /\ text' = <<Note(k)>> /\ starts' = {0}     \* Connecting...
      /\ client' = [j \in Sockets |-> IF j = k THEN "connecting"
                                      ELSE IF j = logSocket THEN "closed" ELSE client[j]]
      /\ UNCHANGED <<pending, flushing, size, got, server>>

\* closeLogViewer: the modal is hidden, its text stays.
CloseViewer ==
  /\ logSocket # NoSocket
  /\ Hangup
  /\ logSocket' = NoSocket
  /\ client' = [client EXCEPT ![logSocket] = "closed"]
  /\ UNCHANGED <<opened, text, starts, pending, flushing, size, got, server>>

\* ws.onopen: the handshake is over.
OnOpen(k) ==
  /\ client[k] = "connecting" /\ handler[k] \notin {"none", "refused"}
  /\ k = logSocket
  /\ client' = [client EXCEPT ![k] = "open"]
  /\ text' = <<>> /\ starts' = {}
  /\ size' = [size EXCEPT ![k] = 0]
  /\ UNCHANGED <<opened, logSocket, pending, flushing, got, wire, gone, server>>

\* Mutant: lines that arrive before the flush replace the ones that wait.
AppendLineLast(k, line) ==
  /\ pending' = [pending EXCEPT ![k] = <<line>>]
  /\ flushing' = [flushing EXCEPT ![k] = TRUE]

\* appendLine: the line is buffered and a flush is due.
AppendLine(k, line) ==
  /\ pending' = [pending EXCEPT ![k] = Append(@, line)]
  /\ flushing' = [flushing EXCEPT ![k] = TRUE]

\* ws.onmessage.
OnMessage(k) ==
  /\ client[k] = "open" /\ wire[k] # <<>> /\ k = logSocket
  /\ wire' = [wire EXCEPT ![k] = Tail(@)]
  /\ AppendLine(k, Head(wire[k]))
  /\ got' = [got EXCEPT ![k] = IF Head(wire[k]).n > @ THEN Head(wire[k]).n ELSE @]
  /\ UNCHANGED <<opened, logSocket, text, starts, client, size, gone, server>>

\* ws.onerror: the connection breaks, with what is on it.
OnError(k) ==
  /\ client[k] \in {"connecting", "open"} /\ k = logSocket
  /\ client' = [client EXCEPT ![k] = "failing"]
  /\ wire' = [wire EXCEPT ![k] = <<>>]
  /\ gone' = [gone EXCEPT ![k] = TRUE]
  /\ AppendLine(k, Note(k))
  /\ UNCHANGED <<opened, logSocket, text, starts, size, got, server>>

\* ws.onclose: after an error, or when the server closed and all frames are in.
OnClose(k) ==
  /\ k = logSocket
  /\ \/ client[k] = "failing"
     \/ client[k] = "connecting" /\ handler[k] = "refused"
     \/ client[k] = "open" /\ handler[k] = "done" /\ wire[k] = <<>>
  /\ client' = [client EXCEPT ![k] = "closed"]
  /\ AppendLine(k, Note(k))
  /\ UNCHANGED <<opened, logSocket, text, starts, size, got, wire, gone, server>>

\* Mutant: the node that makes the text too long is not counted.
TrimmedLate(heads, last, total) ==
  LET enough == {c \in heads : total - c <= LogMax + 1}
  IN  IF enough = {} THEN last ELSE Min(enough)

\* How many lines the loop in flush removes, of the nodes that start at heads, the last
\* one at last: whole nodes from the front, until the text is short enough or one is left.
Trimmed(heads, last, total) ==
  LET enough == {c \in heads : total - c <= LogMax}
  IN  IF enough = {} THEN last ELSE Min(enough)

\* The buffered lines become one text node, and the oldest nodes are dropped.
AppendText(k) ==
  LET lines == text \o pending[k]
      heads == starts \cup {Len(text)}
      total == size[k] + Len(pending[k])
      cut == Trimmed(heads, Len(text), total)
  IN  /\ pending' = [pending EXCEPT ![k] = <<>>]
      /\ text' = SubSeq(lines, cut + 1, Len(lines))
      /\ starts' = {c - cut : c \in {c \in heads : c >= cut}}
      /\ size' = [size EXCEPT ![k] = total - cut]

\* Mutant: the timer of an old socket flushes into the new viewer.
FlushStale(k) ==
  /\ flushing[k]
  /\ flushing' = [flushing EXCEPT ![k] = FALSE]
  /\ IF pending[k] = <<>> THEN UNCHANGED <<text, starts, pending, size>> ELSE AppendText(k)
  /\ UNCHANGED <<opened, logSocket, client, got, wire, gone, server>>

\* flush.
Flush(k) ==
  /\ flushing[k]
  /\ flushing' = [flushing EXCEPT ![k] = FALSE]
  /\ IF k # logSocket \/ pending[k] = <<>>
       THEN UNCHANGED <<text, starts, pending, size>>
       ELSE AppendText(k)
  /\ UNCHANGED <<opened, logSocket, client, got, wire, gone, server>>

-----------------------------------------------------------------------------
(* The handler container_logs and its tail.                                  *)

\* A frame goes out unless the peer is gone.
Send(k, line) ==
  wire' = IF gone[k] THEN wire ELSE [wire EXCEPT ![k] = Append(@, line)]

Goto(k, where) == handler' = [handler EXCEPT ![k] = where]

\* The handshake is accepted, or refused: another origin, a malformed id.
Accept(k) ==
  /\ k <= opened /\ handler[k] = "none"
  /\ Goto(k, "lookup") \/ Goto(k, "refused")
  /\ UNCHANGED <<viewer, client, wire, gone, tail, printed, sent>>

\* crictl names a log file under the pod log tree.
PathFound(k) ==
  /\ handler[k] = "lookup"
  /\ Goto(k, "spawn")
  /\ UNCHANGED <<viewer, client, wire, gone, tail, printed, sent>>

\* It does not: an error is sent and the socket closed.
PathMissing(k) ==
  /\ handler[k] = "lookup"
  /\ Goto(k, "done")
  /\ Send(k, Note(k))
  /\ UNCHANGED <<viewer, client, gone, tail, printed, sent>>

Spawned(k) ==
  /\ handler[k] = "spawn"
  /\ Goto(k, "stream")
  /\ tail' = [tail EXCEPT ![k] = "running"]
  /\ UNCHANGED <<viewer, client, wire, gone, printed, sent>>

TailPrints(k) ==
  /\ tail[k] = "running" /\ SumFunction(printed) < MaxLines
  /\ printed' = [printed EXCEPT ![k] = @ + 1]
  /\ UNCHANGED <<viewer, client, wire, gone, handler, tail, sent>>

TailDies(k) ==
  /\ tail[k] = "running"
  /\ tail' = [tail EXCEPT ![k] = "exited"]
  /\ UNCHANGED <<viewer, client, wire, gone, handler, printed, sent>>

\* pump sends one line.  To a peer that is gone it may raise, which ends pump
\* and cancels the other task.
Pump(k) ==
  /\ handler[k] = "stream" /\ sent[k] < printed[k]
  /\ sent' = [sent EXCEPT ![k] = @ + 1]
  /\ Send(k, Line(k, sent[k] + 1))
  /\ UNCHANGED handler \/ (gone[k] /\ Goto(k, "cleanup"))
  /\ UNCHANGED <<viewer, client, gone, tail, printed>>

\* pump reaches the end of the tail's output.
PumpEnds(k) ==
  /\ handler[k] = "stream" /\ tail[k] = "exited" /\ sent[k] = printed[k]
  /\ Goto(k, "cleanup")
  /\ UNCHANGED <<viewer, client, wire, gone, tail, printed, sent>>

\* Mutant: only pump looks after the client.
UntilDisconnectUnread(k) ==
  /\ handler[k] = "stream" /\ gone[k] /\ sent[k] < printed[k]
  /\ Goto(k, "cleanup")
  /\ UNCHANGED <<viewer, client, wire, gone, tail, printed, sent>>

\* until_disconnect reads the disconnect and cancels pump.
UntilDisconnect(k) ==
  /\ handler[k] = "stream" /\ gone[k]
  /\ Goto(k, "cleanup")
  /\ UNCHANGED <<viewer, client, wire, gone, tail, printed, sent>>

\* Mutant: the handler is cancelled without its finally.
CancelledAtOnce(k) ==
  /\ handler[k] \in {"lookup", "spawn", "stream"}
  /\ Goto(k, "done")
  /\ UNCHANGED <<viewer, client, wire, gone, tail, printed, sent>>

\* The handler is cancelled at shutdown.  asyncio ends a child whose start is
\* cancelled; a running tail is left to the finally.
Cancelled(k) ==
  /\ handler[k] \in {"lookup", "spawn", "stream"}
  /\ Goto(k, IF handler[k] = "stream" THEN "cleanup" ELSE "done")
  /\ UNCHANGED <<viewer, client, wire, gone, tail, printed, sent>>

\* finally: the tail is killed if it runs ...
Kill(k) ==
  /\ handler[k] = "cleanup"
  /\ tail' = [tail EXCEPT ![k] = "exited"]
  /\ Goto(k, "wait")
  /\ UNCHANGED <<viewer, client, wire, gone, printed, sent>>

\* ... and waited for, shielded from cancellation.
Reap(k) ==
  /\ handler[k] = "wait" /\ tail[k] = "exited"
  /\ tail' = [tail EXCEPT ![k] = "reaped"]
  /\ Goto(k, "done")
  /\ UNCHANGED <<viewer, client, wire, gone, printed, sent>>

Browser(k) == OnOpen(k) \/ OnMessage(k) \/ OnError(k) \/ OnClose(k) \/ Flush(k)
Handler(k) ==
  \/ Accept(k) \/ PathFound(k) \/ PathMissing(k) \/ Spawned(k) \/ Pump(k) \/ PumpEnds(k)
  \/ UntilDisconnect(k) \/ Cancelled(k) \/ Kill(k) \/ Reap(k)

Next ==
  \/ OpenViewer \/ CloseViewer
  \/ \E k \in Sockets : Browser(k) \/ Handler(k) \/ TailPrints(k) \/ TailDies(k)

Spec == Init /\ [][Next]_vars

\* The event loop runs the handler's steps and a killed tail dies.  No client has
\* to leave and no tail has to print or to end.
FairSpec ==
  /\ Spec
  /\ \A k \in Sockets :
       WF_vars(UntilDisconnect(k)) /\ WF_vars(Kill(k)) /\ WF_vars(Reap(k))

-----------------------------------------------------------------------------
\* "would otherwise write into the viewer of the next container" (app.js:1012):
\* the viewer shows text of the socket it was opened for only.
OwnLines == logSocket # NoSocket => \A i \in DOMAIN text : text[i].sock = logSocket

\* What is shown and what waits to be flushed is the end of what was received,
\* in order and without a gap: only the oldest lines are ever dropped.  After a line
\* come the ones received later, each once.
NoGap ==
  logSocket # NoSocket =>
    LET lines == text \o pending[logSocket]
    IN  \A i \in DOMAIN lines : lines[i].n # 0 =>
          /\ lines[i].n <= got[logSocket]
          /\ {lines[j].n : j \in i + 1..Len(lines)} \ {0} = lines[i].n + 1..got[logSocket]

\* "a chatty container cannot grow the <pre> without bound" (app.js:1008): more
\* than one flush is kept only while the text fits; the placeholder is not counted.
TextBounded == starts \ {0} # {} => Len(text) <= LogMax + 1

\* "which leaked the tail and held up shutdown" (containers.py:133): a handler
\* that is done leaves no tail behind, running or not waited for.
NoOrphan == \A k \in Sockets : handler[k] = "done" => tail[k] \in {"none", "reaped"}

\* A tail whose client has gone ends and is waited for, though it may never print
\* another line.
TailEnds == \A k \in Sockets : tail[k] = "running" /\ gone[k] ~> tail[k] = "reaped"
=============================================================================
