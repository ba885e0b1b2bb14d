---------------------------- MODULE InnerSession ----------------------------
(***************************************************************************)
(* The end-to-end session that runs inside an outer stream, direct or      *)
(* carried by a helper: the handshake of a member or of a sealed           *)
(* bootstrap, the identity proofs bound to its transcript, the numbered    *)
(* packets after it, and the request and reply discipline on top.          *)
(*                                                                         *)
(* Link l joins a device's end with an end accepted by a Controller.  What *)
(* carries the packets may lose, repeat and reorder them, and may join the *)
(* wrong ends.  Noise is external: a packet opens only under the transcript*)
(* and the counter under which it was sealed.                              *)
(***************************************************************************)
EXTENDS Naturals, Sequences, FiniteSets

CONSTANTS MaxCalls,   \* requests of one session
          MaxFaults   \* packets mistreated, links crossed, reads cut off

Links == 1..2
Ends == {"dev", "ctl"}

VARIABLES isKind,    \* [Links -> {"member", "sealed"}]
          isCtl,     \* [Links -> {"mine", "other"}]: who accepts the link
          isAllowed, \* [Links -> BOOLEAN]: the device is an active member
          isEnd,     \* [Links -> [Ends -> the state of this end]]
          isWire,    \* [Links -> [Ends -> packets on their way to this end]]
          isCross,   \* the carrier joins each device with the other acceptor
          isRevoking, \* devices revoked whose session is still to be disconnected
          isCut,     \* [Links -> {"none", "stopped", "missed"}]: what a disconnect did here
          isFaults

isVars == <<isKind, isCtl, isAllowed, isEnd, isWire, isCross, isRevoking, isCut, isFaults>>

None == <<>>

\* put and got are what this end sealed and what it was given, read how far
\* the reader of the Host's loop is in a packet.
NewEnd(stage) ==
  [stage |-> stage, hash |-> None, peer |-> 0, put |-> <<>>, got |-> <<>>,
   read |-> "whole", task |-> 0, calls |-> 0]

\* The pinned Controller accepts one of the links, and one of the devices is
\* a member.
IsInit ==
  /\ isKind \in [Links -> {"member", "sealed"}]
  /\ isCtl \in [Links -> {"mine", "other"}]
  /\ isAllowed \in [Links -> BOOLEAN]
  /\ isCtl[2] = "mine" /\ isAllowed[1]
  /\ isEnd = [l \in Links |-> [e \in Ends |->
                NewEnd(IF e = "dev" THEN "start" ELSE "listen")]]
  /\ isWire = [l \in Links |-> [e \in Ends |-> <<>>]]
  /\ isCross = FALSE
  /\ isRevoking = {}
  /\ isCut = [l \in Links |-> "none"]
  /\ isFaults = 0

-----------------------------------------------------------------------------
(* Packets and endings                                                     *)

Other(e) == IF e = "dev" THEN "ctl" ELSE "dev"
Route(l) == IF isCross THEN 3 - l ELSE l

\* write_packet: to the end that the carrier joins with this one.
Writes(l, e, packets) ==
  isWire' = [isWire EXCEPT ![Route(l)][Other(e)] = @ \o packets]

Becomes(l, e, end) == isEnd' = [isEnd EXCEPT ![l][e] = end]

Closed(end) == [end EXCEPT !.stage = "closed", !.task = 0]

Still == UNCHANGED <<isKind, isCtl, isAllowed, isCross, isRevoking, isCut, isFaults>>

\* The next packet for this end, and the wire without it.
First(l, e) == Head(isWire[l][e])
Rest(l, e) == [isWire EXCEPT ![l][e] = Tail(@)]

\* The packet is read and nothing is written.
Takes(l, e, end) == isWire' = Rest(l, e) /\ Becomes(l, e, end) /\ Still

\* The packet is read and answered.
Answers(l, e, end, packet) ==
  /\ isWire' = [Rest(l, e) EXCEPT ![Route(l)][Other(e)] = Append(@, packet)]
  /\ Becomes(l, e, end)
  /\ Still

Open(end) == end.stage = "open"

\* The cipher counts every packet of a direction, and the proofs are the first
\* ones of a member session.  A member's packets carry a number of their own.
InnerSeals(end, e, body) ==
  [type |-> "data", hash |-> end.hash, from |-> e, nonce |-> Len(end.put) + 1,
   seq |-> Len(end.put), body |-> body]

SealedSeals(end, e, body) ==
  [type |-> "data", hash |-> end.hash, from |-> e, nonce |-> Len(end.put),
   seq |-> 0, body |-> body]

Seals(l, e, body) ==
  IF isKind[l] = "member" THEN InnerSeals(isEnd[l][e], e, body)
                          ELSE SealedSeals(isEnd[l][e], e, body)

Sends(end, body) == [end EXCEPT !.put = Append(@, body)]

Decrypts(end, e, p) ==
  p.type = "data" /\ p.hash = end.hash /\ p.from = Other(e)

InnerOpens(end, e, p) ==
  Decrypts(end, e, p) /\ p.nonce = Len(end.got) + 1 /\ p.seq = Len(end.got)

SealedOpens(end, e, p) == Decrypts(end, e, p) /\ p.nonce = Len(end.got)

OpensAnyPacket(l, e, p) == Decrypts(isEnd[l][e], e, p)

\* The packet was sealed for this session, for this direction and as the next
\* one.
Opens(l, e, p) ==
  IF isKind[l] = "member" THEN InnerOpens(isEnd[l][e], e, p)
                          ELSE SealedOpens(isEnd[l][e], e, p)

-----------------------------------------------------------------------------
(* The handshake                                                           *)

Ephemeral(l, e) == <<l, e>>

MemberHello(l) ==
  [type |-> "member", dev |-> Ephemeral(l, "dev"), ctl |-> "any"]

\* The first packet of a sealed bootstrap is bound to the Controller's
\* bootstrap key and to the context of the prologue.
SealedHello(l) ==
  [type |-> "sealed", dev |-> Ephemeral(l, "dev"), ctl |-> "mine"]

\* The stream says which protocol it carries.
Connect(l) ==
  /\ isEnd[l]["dev"].stage = "start"
  /\ Becomes(l, "dev", [isEnd[l]["dev"] EXCEPT !.stage = "hello"])
  /\ Writes(l, "dev", <<IF isKind[l] = "member" THEN MemberHello(l)
                                                ELSE SealedHello(l)>>)
  /\ Still

\* Whichever packet does not continue the handshake fails it.
Refuses(l, e) == Takes(l, e, Closed(isEnd[l][e]))

Classified(l, p) == p.type = isKind[l]

\* A sealed bootstrap is open after two packets, a member goes on.
Accept(l) ==
  LET p == First(l, "ctl")
      hash == <<p.dev, Ephemeral(l, "ctl"), isCtl[l]>>
      end == [isEnd[l]["ctl"] EXCEPT !.hash = hash,
                !.stage = IF isKind[l] = "sealed" THEN "open" ELSE "accept"]
  IN
  /\ isEnd[l]["ctl"].stage = "listen" /\ isWire[l]["ctl"] # <<>>
  /\ IF Classified(l, p) /\ p.ctl \in {"any", isCtl[l]}
     THEN Answers(l, "ctl", end, [type |-> "second", hash |-> hash])
     ELSE Refuses(l, "ctl")

DeviceProof(l, hash) ==
  [type |-> "device_proof", hash |-> hash, device |-> l, controller |-> "mine"]

\* A member finishes the handshake and sends its proof right behind it.
Finish(l) ==
  LET p == First(l, "dev")
      end == [isEnd[l]["dev"] EXCEPT !.hash = p.hash,
                !.stage = IF isKind[l] = "sealed" THEN "open" ELSE "proving"]
  IN
  /\ isEnd[l]["dev"].stage = "hello" /\ isWire[l]["dev"] # <<>>
  /\ IF p.type # "second" \/ p.hash[1] # Ephemeral(l, "dev")
     THEN Refuses(l, "dev")
     ELSE /\ Becomes(l, "dev", end)
          /\ isWire' = IF isKind[l] = "sealed" THEN Rest(l, "dev")
                       ELSE [Rest(l, "dev") EXCEPT ![Route(l)]["ctl"] =
                               @ \o <<[type |-> "third", hash |-> p.hash],
                                      DeviceProof(l, p.hash)>>]
          /\ Still

AcceptThird(l) ==
  LET p == First(l, "ctl") end == isEnd[l]["ctl"] IN
  /\ end.stage = "accept" /\ isWire[l]["ctl"] # <<>>
  /\ IF p.type = "third" /\ p.hash = end.hash
     THEN Takes(l, "ctl", [end EXCEPT !.stage = "proof"])
     ELSE Refuses(l, "ctl")

\* validate_untrusted_device_proof.
ProvesDevice(l, p) ==
  /\ p.type = "device_proof" /\ p.hash = isEnd[l]["ctl"].hash
  /\ p.controller = isCtl[l]

\* What the catalog and the registry say at this moment.
Authorizes(device) == isAllowed[device]

ControllerProof(l, device) ==
  [type |-> "controller_proof", hash |-> isEnd[l]["ctl"].hash,
   controller |-> isCtl[l], device |-> device]

\* The device's proof and its authorization; then the Controller's own proof.
AcceptProof(l) ==
  LET p == First(l, "ctl")
      end == [isEnd[l]["ctl"] EXCEPT !.stage = "registering", !.peer = p.device]
  IN
  /\ isEnd[l]["ctl"].stage = "proof" /\ isWire[l]["ctl"] # <<>>
  /\ IF ProvesDevice(l, p) /\ Authorizes(p.device)
     THEN Answers(l, "ctl", end, ControllerProof(l, p.device))
     ELSE Refuses(l, "ctl")

\* The session is registered, without a second look at the registry, and the
\* device is told so by a ping.  In between a connector is sent its lease,
\* which module SitePath follows.
Register(l) ==
  LET end == [isEnd[l]["ctl"] EXCEPT !.stage = "open"] IN
  /\ isEnd[l]["ctl"].stage = "registering"
  /\ Becomes(l, "ctl", [Sends(end, <<"ping", 0>>) EXCEPT !.task = 1])
  /\ Writes(l, "ctl", <<Seals(l, "ctl", <<"ping", 0>>)>>)
  /\ Still

\* validate_controller_proof: the identity is the pinned one.
ProvesController(l, p) ==
  /\ p.type = "controller_proof" /\ p.hash = isEnd[l]["dev"].hash
  /\ p.device = l /\ p.controller = "mine"

Establish(l) ==
  LET p == First(l, "dev") end == isEnd[l]["dev"] IN
  /\ end.stage = "proving" /\ isWire[l]["dev"] # <<>>
  /\ IF ProvesController(l, p)
     THEN Takes(l, "dev", [end EXCEPT !.stage = "open"])
     ELSE Refuses(l, "dev")

-----------------------------------------------------------------------------
(* Requests and replies: a member is called by the Controller, a bootstrap *)
(* is a dialogue that the device leads.                                    *)

Caller(l) == IF isKind[l] = "member" THEN "ctl" ELSE "dev"
Server(l) == Other(Caller(l))

\* One request at a time: the caller waits for the reply before the next.  A
\* request of a live session has no other outcome than its reply or the end
\* of the session.
Call(l) ==
  LET e == Caller(l)
      end == isEnd[l][e]
      body == <<"call", end.calls + 1>>
  IN
  /\ Open(end) /\ end.task = 0 /\ end.calls < MaxCalls
  /\ Becomes(l, e, [Sends(end, body) EXCEPT !.task = 2, !.calls = @ + 1])
  /\ Writes(l, e, <<Seals(l, e, body)>>)
  /\ Still

\* A heartbeat of an idle member session.
Ping(l) ==
  LET end == isEnd[l]["ctl"] IN
  /\ isKind[l] = "member" /\ Open(end) /\ end.task = 0
  /\ Len(end.put) < MaxCalls
  /\ Becomes(l, "ctl", [Sends(end, <<"ping", Len(end.put)>>) EXCEPT !.task = 1])
  /\ Writes(l, "ctl", <<Seals(l, "ctl", <<"ping", Len(end.put)>>)>>)
  /\ Still

\* What a caller waits for: the pong with the payload of its ping, or the
\* reply with the id of its call.  Before the reply there may be signs of
\* progress; anything else ends the session.
Awaited(end) ==
  IF end.task = 1 THEN <<"pong", end.put[Len(end.put)][2]>>
  ELSE <<"reply", end.calls>>

Receive(l) ==
  LET e == Caller(l)
      end == isEnd[l][e]
      p == First(l, e)
      given == [end EXCEPT !.got = Append(@, p.body)]
  IN
  /\ Open(end) /\ end.task > 0 /\ isWire[l][e] # <<>>
  /\ IF Opens(l, e, p) /\ p.body = Awaited(end)
     THEN Takes(l, e, [given EXCEPT !.task = 0])
     ELSE IF Opens(l, e, p) /\ end.task = 2
             /\ p.body = <<"progress", end.calls>>
     THEN Takes(l, e, given)
     ELSE Refuses(l, e)

\* The Host reads the length of a packet and then the packet.  In between,
\* another branch of its loop may be taken, which drops what was read: the
\* next read takes the rest of the packet for a length.
ReadHead(l) ==
  LET end == isEnd[l]["dev"] IN
  /\ isKind[l] = "member" /\ Open(end) /\ end.task = 0
  /\ end.read = "whole" /\ isWire[l]["dev"] # <<>>
  /\ Becomes(l, "dev", [end EXCEPT !.read = "head"])
  /\ UNCHANGED isWire
  /\ Still

CancelRead(l) ==
  LET end == isEnd[l]["dev"] IN
  /\ isFaults < MaxFaults /\ isFaults' = isFaults + 1
  /\ Open(end) /\ end.read = "head" /\ Len(end.got) > 0
  /\ Becomes(l, "dev", [end EXCEPT !.read = "torn"])
  /\ UNCHANGED <<isKind, isCtl, isAllowed, isWire, isCross, isRevoking, isCut>>

ReadTorn(l) ==
  /\ Open(isEnd[l]["dev"]) /\ isEnd[l]["dev"].read = "torn"
  /\ Refuses(l, "dev")

\* The packet is opened; a ping is answered at once, a request is executed.
Serve(l) ==
  LET e == Server(l)
      end == isEnd[l][e]
      p == First(l, e)
      given == [end EXCEPT !.got = Append(@, p.body), !.read = "whole"]
      pong == <<"pong", p.body[2]>>
  IN
  /\ Open(end) /\ end.task = 0 /\ isWire[l][e] # <<>>
  /\ isKind[l] = "member" => end.read = "head"
  /\ IF ~Opens(l, e, p) THEN Refuses(l, e)
     ELSE IF p.body[1] = "ping"
     THEN Answers(l, e, Sends(given, pong), Seals(l, e, pong))
     ELSE Takes(l, e, [given EXCEPT !.task = p.body[2]])

\* complete_rpc_with_progress: a long operation says that it is alive.
Progress(l) ==
  LET end == isEnd[l]["dev"] body == <<"progress", end.task>> IN
  /\ isKind[l] = "member" /\ Open(end) /\ end.task > 0
  /\ Len(end.put) <= MaxCalls
  /\ Becomes(l, "dev", Sends(end, body))
  /\ Writes(l, "dev", <<Seals(l, "dev", body)>>)
  /\ Still

Reply(l) ==
  LET e == Server(l)
      end == isEnd[l][e]
      body == <<"reply", end.task>>
  IN
  /\ Open(end) /\ end.task > 0
  /\ Becomes(l, e, [Sends(end, body) EXCEPT !.task = 0])
  /\ Writes(l, e, <<Seals(l, e, body)>>)
  /\ Still

-----------------------------------------------------------------------------
(* What goes wrong                                                         *)

Fault ==
  /\ isFaults < MaxFaults /\ isFaults' = isFaults + 1
  /\ UNCHANGED <<isKind, isCtl, isAllowed, isRevoking, isCut>>

\* Every read of a handshake, of a bootstrap and of a waiting Controller has
\* a deadline, and so has the Host's wait for the first message; a stream
\* that ended is the same to the reader.
TimeOut(l, e) ==
  LET end == isEnd[l][e] IN
  /\ Fault /\ end.stage \notin {"start", "closed"}
  /\ Becomes(l, e, Closed(end))
  /\ UNCHANGED <<isWire, isCross>>

\* The carrier loses, repeats or reorders packets.
Mistreat(l, e) ==
  LET w == isWire[l][e] IN
  /\ Fault /\ w # <<>> /\ isEnd[l][e].read = "whole"
  /\ isWire' \in {[isWire EXCEPT ![l][e] = t] :
                    t \in {Tail(w), <<Head(w)>> \o w, Tail(w) \o <<Head(w)>>}}
  /\ UNCHANGED <<isEnd, isCross>>

Cross ==
  /\ Fault
  /\ isCross' = ~isCross
  /\ UNCHANGED <<isEnd, isWire>>

\* A revocation is committed, which the next handshake sees, ...
Revoke(l) ==
  /\ isFaults < MaxFaults /\ isFaults' = isFaults + 1
  /\ isAllowed[l]
  /\ isAllowed' = [isAllowed EXCEPT ![l] = FALSE]
  /\ isRevoking' = isRevoking \cup {l}
  /\ UNCHANGED <<isKind, isCtl, isEnd, isWire, isCross, isCut>>

\* ... and then the hub tells the session of the device to stop, if one is
\* registered.  One that is let in and not yet registered is missed, which is
\* kept here as history.
Disconnect(l) ==
  /\ l \in isRevoking
  /\ isRevoking' = isRevoking \ {l}
  /\ isCut' = [k \in Links |->
                 IF isEnd[k]["ctl"].peer # l THEN isCut[k]
                 ELSE IF Open(isEnd[k]["ctl"]) THEN "stopped"
                 ELSE IF isEnd[k]["ctl"].stage = "registering" THEN "missed"
                 ELSE isCut[k]]
  /\ UNCHANGED <<isKind, isCtl, isAllowed, isEnd, isWire, isCross, isFaults>>

\* The session stops when it has nothing under way; what was queued before may
\* still be carried out.
Stop(l) ==
  LET end == isEnd[l]["ctl"] IN
  /\ isCut[l] = "stopped" /\ Open(end) /\ end.task = 0
  /\ Becomes(l, "ctl", Closed(end))
  /\ UNCHANGED isWire
  /\ Still

IsNext ==
  \/ \E l \in Links :
       \/ Connect(l)
       \/ Accept(l)
       \/ Finish(l)
       \/ AcceptThird(l)
       \/ AcceptProof(l)
       \/ Register(l)
       \/ Establish(l)
       \/ Call(l)
       \/ Ping(l)
       \/ Receive(l)
       \/ ReadHead(l)
       \/ CancelRead(l)
       \/ ReadTorn(l)
       \/ Serve(l)
       \/ Progress(l)
       \/ Reply(l)
       \/ Revoke(l)
       \/ Disconnect(l)
       \/ Stop(l)
       \/ \E e \in Ends : TimeOut(l, e) \/ Mistreat(l, e)
  \/ Cross

IsSpec == IsInit /\ [][IsNext]_isVars

-----------------------------------------------------------------------------
(* Properties                                                              *)

Prefix(s, t) == Len(s) <= Len(t) /\ s = SubSeq(t, 1, Len(s))

Partners(l, e) ==
  {k \in Links : isEnd[k][Other(e)].hash = isEnd[l][e].hash}

\* Where the replies stand among what an end was given.
Replies(end) == {i \in DOMAIN end.got : end.got[i][1] = "reply"}

\* Both ends of an established session are ends of one handshake: the device
\* talks to the Controller it has pinned and to nobody else, and a Controller's
\* member session belongs to the device that holds the other end.  That device
\* may be in, or its session has been told to stop, or has still to be; only a
\* session that was let in and not yet registered when a revocation looked for
\* it is left to a device that is out.  What either end was given is the
\* beginning of what the other sent, in order, however the carrier mistreated the
\* packets, crossed the links or the Host's loop cut off a read.  A caller is
\* never given the answer to another of its calls, and never left without one.
PeersAgree ==
  /\ \A l \in Links : Open(isEnd[l]["dev"]) =>
       \E k \in Partners(l, "dev") :
         /\ isKind[k] = isKind[l] /\ isCtl[k] = "mine"
         /\ isKind[l] = "member" => isEnd[k]["ctl"].peer = l
  /\ \A l \in Links : Open(isEnd[l]["ctl"]) /\ isKind[l] = "member" =>
       isCtl[l] = "mine" /\
       \E k \in Partners(l, "ctl") :
         /\ isEnd[l]["ctl"].peer = k
         /\ isAllowed[k] \/ k \in isRevoking \/ isCut[l] # "none"
  /\ \A l \in Links, e \in Ends :
       isEnd[l][e].got # <<>> =>
         \E k \in Partners(l, e) :
           Prefix(isEnd[l][e].got, isEnd[k][Other(e)].put)
  /\ \A l \in Links :
       LET end == isEnd[l][Caller(l)]
       IN /\ \A i \in Replies(end) :
               end.got[i] = <<"reply", Cardinality({j \in Replies(end) : j <= i})>>
          /\ Open(end) /\ end.task = 0 => Cardinality(Replies(end)) = end.calls
=============================================================================
