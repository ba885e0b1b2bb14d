----------------------------- MODULE TcpForward -----------------------------
(***************************************************************************)
(* TCP forwards and the two local proxies, SOCKS5 and HTTP CONNECT.  A     *)
(* listener on the Controller's loopback accepts local connections; each   *)
(* one is a task that opens a connection on the Host and then pumps: one   *)
(* Exchange at a time carries a chunk each way.  All commands of a device  *)
(* go through its session's queue and the Host serves them one by one.  A  *)
(* connection belongs to the session generation it was opened in.          *)
(* The application behind a local connection has MaxBytes bytes to send    *)
(* and then ends its half, and so has the destination; a read may always   *)
(* time out first.  A byte is its position in its stream.                  *)
(***************************************************************************)
EXTENDS Naturals, FiniteSets, Sequences

CONSTANTS Listeners,    \* listeners that can be added
          Conns,        \* local connections
          MaxListeners, \* HARD_MAX_FORWARD_LISTENERS, HARD_MAX_SOCKS5_LISTENERS, ...
          FwCap,        \* HARD_MAX_TCP_FORWARD_CONNECTIONS_PER_SESSION
          MaxBytes,     \* length of every stream (bound)
          FwChunk,      \* HARD_MAX_TCP_FORWARD_CHUNK_BYTES
          MaxGen        \* sessions of the device (bound)

VARIABLES fwPort,   \* the listeners of the three managers
          fwTask,   \* the task of each local connection
          fwGone,   \* connections whose application went away
          fwGot,    \* what each application received, and whether its end
          fwSink,   \* what each destination received, and whether its end
          fwHost,   \* connections open in the Host's forward service
          fwRead,   \* bytes the Host has read from each destination
          fwQueue,  \* commands sent to the session and not yet served
          fwGen,    \* generation of the device's session
          fwUp      \* whether there is a session

fwVars == <<fwPort, fwTask, fwGone, fwGot, fwSink, fwHost, fwRead, fwQueue, fwGen, fwUp>>
fwRemote == <<fwSink, fwHost, fwRead, fwGen, fwUp>>

Kinds == {"forward", "socks5", "http"}
Stream(n) == [i \in 1 .. n |-> i]
NoTask == [at |-> "idle", port |-> 0, gen |-> 0, initial |-> <<>>, next |-> 1,
           eofSent |-> FALSE, reply |-> "none", read |-> <<>>, readEof |-> FALSE]
NoEnd == [bytes |-> <<>>, eof |-> FALSE]

FwInit ==
  /\ fwPort = [p \in Listeners |-> [kind |-> "none", at |-> "off"]]
  /\ fwTask = [c \in Conns |-> NoTask]
  /\ fwGone = {}
  /\ fwGot = [c \in Conns |-> NoEnd]
  /\ fwSink = [c \in Conns |-> NoEnd]
  /\ fwHost = {}
  /\ fwRead = [c \in Conns |-> 0]
  /\ fwQueue = <<>>
  /\ fwGen = 1 /\ fwUp = TRUE

(***************************************************************************)
(* The managers: the table is checked, the port is bound with no lock      *)
(* held, and the table is checked again when the listener goes in.         *)
(***************************************************************************)
Table(kind) == {p \in Listeners : fwPort[p].kind = kind /\ fwPort[p].at = "on"}
Room(kind) == Cardinality(Table(kind)) < MaxListeners
SetPort(p, kind, at) ==
  /\ fwPort' = [fwPort EXCEPT ![p] = [kind |-> kind, at |-> at]]
  /\ UNCHANGED <<fwTask, fwGone, fwGot, fwQueue, fwRemote>>

AddListener(p, kind) ==
  \/ fwPort[p].at = "off" /\ Room(kind) /\ SetPort(p, kind, "binding")
  \/ fwPort[p] = [kind |-> kind, at |-> "binding"] /\ Room(kind) /\ SetPort(p, kind, "on")
  \/ fwPort[p] = [kind |-> kind, at |-> "binding"] /\ ~Room(kind) /\ SetPort(p, "none", "off")

AddForward(p) == AddListener(p, "forward")
AddSocks5(p) == AddListener(p, "socks5")
AddHttpConnect(p) == AddListener(p, "http")

\* remove takes the listener out of the table and signals it; a signalled
\* listener accepts nothing, and aborts its tasks wherever they wait.
Remove(p) == fwPort[p].at = "on" /\ SetPort(p, fwPort[p].kind, "removed")

(***************************************************************************)
(* The local side of one connection                                        *)
(***************************************************************************)
Alive(p) == {c \in Conns : fwTask[c].port = p /\ fwTask[c].at \notin {"idle", "done"}}
Kind(c) == fwPort[fwTask[c].port].kind
Removed(c) == fwPort[fwTask[c].port].at = "removed"
Ended(c) == [fwTask EXCEPT ![c] = [NoTask EXCEPT !.at = "done", !.port = fwTask[c].port]]

Serve(c, p) ==
  /\ fwTask[c].at = "idle" /\ fwPort[p].at = "on"
  /\ fwTask' = [fwTask EXCEPT ![c].port = p,
                  ![c].at = CASE Cardinality(Alive(p)) >= FwCap -> "done"
                              [] fwPort[p].kind = "forward" -> "open"
                              [] OTHER -> "handshake"]
  /\ UNCHANGED <<fwPort, fwGone, fwGot, fwQueue, fwRemote>>

\* A SOCKS5 handshake reads exactly its request.
NegotiateSocks5(c) ==
  /\ fwTask[c].at = "handshake" /\ Kind(c) = "socks5"
  /\ fwTask' \in {Ended(c), [fwTask EXCEPT ![c].at = "open"]}
  /\ UNCHANGED <<fwPort, fwGone, fwGot, fwQueue, fwRemote>>

\* An HTTP CONNECT request is read in blocks: whatever of the stream came
\* with the header's last block is already taken from the socket.
ReadHttpConnect(c) ==
  /\ fwTask[c].at = "handshake" /\ Kind(c) = "http"
  /\ \/ fwTask' = Ended(c)
     \/ \E k \in 0 .. MaxBytes :
          fwTask' = [fwTask EXCEPT ![c].at = "open", ![c].initial = Stream(k), ![c].next = k + 1]
  /\ UNCHANGED <<fwPort, fwGone, fwGot, fwQueue, fwRemote>>

Send(c, op, bytes, eof) == fwQueue' = Append(fwQueue, [conn |-> c, op |-> op, bytes |-> bytes, eof |-> eof])

OpenConnection(c) ==
  /\ fwTask[c].at = "open"
  /\ \/ /\ fwUp
        /\ Send(c, "open", <<>>, FALSE)
        /\ fwTask' = [fwTask EXCEPT ![c].at = "opening", ![c].gen = fwGen]
     \/ ~fwUp /\ fwTask' = Ended(c) /\ UNCHANGED fwQueue
  /\ UNCHANGED <<fwPort, fwGone, fwGot, fwRemote>>

Current(c) == fwUp /\ fwTask[c].gen = fwGen

\* A proxy first tells the application that it is connected; when that
\* fails the task ends without a Close.
Opened(c) ==
  /\ fwTask[c].at = "opened"
  /\ \/ /\ fwTask[c].reply = "Opened" /\ Current(c)
        /\ ~(c \in fwGone /\ Kind(c) # "forward")
        /\ fwTask' = [fwTask EXCEPT ![c].at = "pump", ![c].reply = "none"]
     \/ /\ \/ fwTask[c].reply # "Opened" \/ ~Current(c)
           \/ c \in fwGone /\ Kind(c) # "forward"
        /\ fwTask' = Ended(c)
  /\ UNCHANGED <<fwPort, fwGone, fwGot, fwQueue, fwRemote>>

\* mutant: the pump just returns
FinishSilently(c) == fwTask' = Ended(c) /\ UNCHANGED fwQueue

\* What the pump does last, whatever made it leave its loop.
Finish(c) ==
  \/ /\ Current(c) /\ Send(c, "close", <<>>, FALSE)
     /\ fwTask' = [fwTask EXCEPT ![c] = [NoTask EXCEPT !.at = "closing", !.port = fwTask[c].port]]
  \/ ~Current(c) /\ fwTask' = Ended(c) /\ UNCHANGED fwQueue

Exchange(c, bytes, eof, task) ==
  \/ /\ Current(c) /\ Send(c, "exchange", bytes, eof)
     /\ fwTask' = [fwTask EXCEPT ![c] = [task EXCEPT !.at = "exchanging"]]
  \/ ~Current(c) /\ fwTask' = Ended(c) /\ UNCHANGED fwQueue

\* mutant: the pipelined bytes are written last
PumpInitialLast(c) ==
  LET t == fwTask[c] IN
  IF t.initial # <<>> /\ t.next > MaxBytes
  THEN Exchange(c, t.initial, FALSE, [t EXCEPT !.initial = <<>>])
  ELSE /\ t.next <= MaxBytes
       /\ Exchange(c, <<t.next>>, FALSE, [t EXCEPT !.next = @ + 1])

\* The chunk of the next exchange: pipelined bytes first, then what the local
\* read returns, then, after the end was sent, nothing.
PumpInitial(c) ==
  LET t == fwTask[c]
      n == IF Len(t.initial) < FwChunk THEN Len(t.initial) ELSE FwChunk
  IN /\ t.initial # <<>>
     /\ Exchange(c, SubSeq(t.initial, 1, n), FALSE,
                 [t EXCEPT !.initial = SubSeq(@, n + 1, Len(@))])
PumpLocal(c) ==
  LET t == fwTask[c] IN
  /\ t.initial = <<>> /\ ~t.eofSent
  /\ \/ Exchange(c, <<>>, FALSE, t)
     \/ c \in fwGone /\ Finish(c)
     \/ c \notin fwGone /\ t.next <= MaxBytes
        /\ Exchange(c, <<t.next>>, FALSE, [t EXCEPT !.next = @ + 1])
     \/ c \notin fwGone /\ t.next > MaxBytes /\ Exchange(c, <<>>, TRUE, [t EXCEPT !.eofSent = TRUE])
PumpAfterEof(c) ==
  /\ fwTask[c].initial = <<>> /\ fwTask[c].eofSent
  /\ Exchange(c, <<>>, FALSE, fwTask[c])

Pump(c) == /\ fwTask[c].at = "pump"
           /\ (PumpInitial(c) \/ PumpLocal(c) \/ PumpAfterEof(c))
           /\ UNCHANGED <<fwPort, fwGone, fwGot, fwRemote>>

Deliver(c) == [fwGot EXCEPT ![c].bytes = @ \o fwTask[c].read, ![c].eof = fwTask[c].readEof]

Exchanged(c) ==
  LET t == fwTask[c]
      ok == t.reply = "Exchanged" /\ Current(c)
      stuck == t.read # <<>> /\ c \in fwGone
  IN /\ t.at = "exchanged"
     /\ fwGot' = IF ok /\ ~stuck THEN Deliver(c) ELSE fwGot
     /\ \/ /\ ok /\ ~stuck /\ ~t.readEof
           /\ fwTask' = [fwTask EXCEPT ![c].at = "pump", ![c].reply = "none", ![c].read = <<>>]
           /\ UNCHANGED fwQueue
        \/ (~ok \/ stuck \/ t.readEof) /\ Finish(c)
     /\ UNCHANGED <<fwPort, fwGone, fwRemote>>

\* A task that sees the signal returns, or, inside the pump, finishes.
Signalled(c) ==
  /\ fwTask[c].port # 0 /\ Removed(c)
  /\ \/ fwTask[c].at \in {"handshake", "open", "opening"} /\ fwTask' = Ended(c) /\ UNCHANGED fwQueue
     \/ fwTask[c].at \in {"pump", "exchanging"} /\ Finish(c)
  /\ UNCHANGED <<fwPort, fwGone, fwGot, fwRemote>>

Aborted(c) ==
  /\ fwTask[c].at \notin {"idle", "done"} /\ Removed(c)
  /\ fwTask' = Ended(c)
  /\ UNCHANGED <<fwPort, fwGone, fwGot, fwQueue, fwRemote>>

AppGone(c) ==
  /\ fwTask[c].at # "idle" /\ c \notin fwGone
  /\ fwGone' = fwGone \cup {c}
  /\ UNCHANGED <<fwPort, fwTask, fwGot, fwQueue, fwRemote>>

(***************************************************************************)
(* The session serves the queue; the Host executes                         *)
(***************************************************************************)
\* The answer reaches whoever still waits for it.
Answer(c, waiting, task) ==
  fwTask' = IF fwTask[c].at = waiting THEN [fwTask EXCEPT ![c] = task] ELSE fwTask

HostOpen(c) ==
  LET t == [fwTask[c] EXCEPT !.at = "opened"] IN
  /\ \/ /\ Cardinality(fwHost) < FwCap
        /\ fwHost' = fwHost \cup {c}
        /\ Answer(c, "opening", [t EXCEPT !.reply = "Opened"])
     \/ Answer(c, "opening", [t EXCEPT !.reply = "Error"]) /\ UNCHANGED fwHost
  /\ UNCHANGED <<fwSink, fwRead>>

\* what the destination has for the Host within the read window
HostReads(c) ==
  {[read |-> <<>>, readEof |-> FALSE]} \cup
    IF fwRead[c] < MaxBytes THEN {[read |-> <<fwRead[c] + 1>>, readEof |-> FALSE]}
                            ELSE {[read |-> <<>>, readEof |-> TRUE]}

\* Write, half-close, read.  Each may fail, and a failed one leaves what the
\* ones before it did.
HostExchange(c, bytes, eof) ==
  LET t == [fwTask[c] EXCEPT !.at = "exchanged"]
      written == [fwSink EXCEPT ![c].bytes = @ \o bytes]
      closed == [written EXCEPT ![c].eof = @ \/ eof]
  IN /\ \/ /\ c \in fwHost
           /\ \E r \in HostReads(c) :
                /\ fwRead' = [fwRead EXCEPT ![c] = @ + Len(r.read)]
                /\ Answer(c, "exchanging", [t EXCEPT !.reply = "Exchanged", !.read = r.read, !.readEof = r.readEof])
           /\ fwSink' = closed
        \/ /\ fwSink' \in {fwSink} \cup IF c \in fwHost THEN {written, closed} ELSE {}
           /\ Answer(c, "exchanging", [t EXCEPT !.reply = "Error"])
           /\ UNCHANGED fwRead
     /\ UNCHANGED fwHost

HostClose(c) ==
  /\ fwHost' = fwHost \ {c}
  /\ Answer(c, "closing", [fwTask[c] EXCEPT !.at = "done"])
  /\ UNCHANGED <<fwSink, fwRead>>

ServeCommand ==
  LET q == Head(fwQueue) IN
  /\ fwUp /\ fwQueue # <<>>
  /\ \/ q.op = "open" /\ HostOpen(q.conn)
     \/ q.op = "exchange" /\ HostExchange(q.conn, q.bytes, q.eof)
     \/ q.op = "close" /\ HostClose(q.conn)
  /\ fwQueue' = Tail(fwQueue)
  /\ UNCHANGED <<fwPort, fwGone, fwGot, fwGen, fwUp>>

\* The session ends: every waiting task learns that the device is offline,
\* and the Host's forward service goes with its session.
SessionEnds ==
  /\ fwUp
  /\ fwUp' = FALSE /\ fwHost' = {} /\ fwQueue' = <<>>
  /\ fwTask' = [c \in Conns |->
       LET t == fwTask[c] IN
       CASE t.at \in {"opening", "closing"} -> [NoTask EXCEPT !.at = "done", !.port = t.port]
         [] t.at = "exchanging" -> [t EXCEPT !.at = "exchanged", !.reply = "Error"]
         [] OTHER -> t]
  /\ UNCHANGED <<fwPort, fwGone, fwGot, fwSink, fwRead, fwGen>>

SessionRegisters ==
  /\ ~fwUp /\ fwGen < MaxGen
  /\ fwUp' = TRUE /\ fwGen' = fwGen + 1
  /\ UNCHANGED <<fwPort, fwTask, fwGone, fwGot, fwSink, fwHost, fwRead, fwQueue>>

FwNext ==
  \/ \E p \in Listeners : AddForward(p) \/ AddSocks5(p) \/ AddHttpConnect(p) \/ Remove(p)
  \/ \E c \in Conns :
       \/ \E p \in Listeners : Serve(c, p)
       \/ NegotiateSocks5(c) \/ ReadHttpConnect(c) \/ OpenConnection(c) \/ Opened(c)
       \/ Pump(c) \/ Exchanged(c) \/ Signalled(c) \/ Aborted(c) \/ AppGone(c)
  \/ ServeCommand \/ SessionEnds \/ SessionRegisters

FwSpec == FwInit /\ [][FwNext]_fwVars

-----------------------------------------------------------------------------
\* Neither stream is ever reordered, repeated or holed, whatever chunks,
\* pipelined bytes, abandoned exchanges and new sessions it went through; and
\* an end is passed on only after everything before it.
StreamsAreIntact ==
  \A c \in Conns :
    /\ fwSink[c].bytes = Stream(Len(fwSink[c].bytes))
    /\ fwGot[c].bytes = Stream(Len(fwGot[c].bytes))
    /\ fwSink[c].eof => Len(fwSink[c].bytes) = MaxBytes
    /\ fwGot[c].eof => Len(fwGot[c].bytes) = MaxBytes

Closing(c) == \E i \in 1 .. Len(fwQueue) : fwQueue[i].conn = c /\ fwQueue[i].op = "close"

\* A connection that the Host keeps open is one that somebody still uses or
\* is about to close.  Only a listener that was removed, or an application
\* that left a proxy before it was told that it is connected, leaves one
\* behind for the rest of the session.
HostConnectionIsOwned ==
  \A c \in fwHost :
    \/ fwTask[c].at \notin {"done"} \/ Closing(c)
    \/ Removed(c)
    \/ c \in fwGone /\ Kind(c) # "forward"
=============================================================================
