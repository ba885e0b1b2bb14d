------------------------- MODULE MutationReplayProofs -------------------------
(***************************************************************************)
(* For any number of requests, paths and contents and any capacity of the  *)
(* replay cache: a mutation that is sent again is not executed again while *)
(* the Host remembers it, the cache keeps its bound, a creation replaces   *)
(* nothing, and no answer contradicts the disk.                            *)
(***************************************************************************)
EXTENDS MutationReplay, FiniteSetTheorems, TLAPS

Refusals == {"conflict", "exists", "capacity"}
OnWire(r) == rpc.phase # "idle" /\ rpc.req = r

\* The cache: what InFlightIsKept says, of a finite set of entries.
CacheOK == IsFiniteSet(Entries) /\ InFlightIsKept

\* A request the Host does not know, or whose worker has not persisted yet,
\* has reached the disk at most as often as it was forgotten.
Once(r) ==
    /\ applied[r] <= 1 + forgot[r]
    /\ entry[r] = "none" \/ worker[r] \in {"start", "checked"} => applied[r] <= forgot[r]

\* What a worker brings back, the cache keeps and a caller hears agrees with
\* the disk.
Truth(r) ==
    /\ worker[r] = "ok" \/ entry[r] = "ok" \/ req[r].result = "ok" => applied[r] > 0
    /\ forgot[r] = 0 /\ (\/ worker[r] \in Refusals \/ entry[r] \in Refusals
                         \/ req[r].result \in Refusals) => applied[r] = 0

\* Nothing happens for a request before it is issued or after it is answered.
Loop(r) ==
    /\ req[r].pc = "idle" => worker[r] = "none" /\ r \notin overwrote /\ ~OnWire(r)
    /\ req[r].pc # "idle" => Op(r) \in Mutation
    /\ req[r].result # None => req[r].pc = "done" /\ worker[r] = "none" /\ ~OnWire(r)
    /\ r \in overwrote => ~Creates(r)

PerRequest == \A r \in Reqs : Once(r) /\ Truth(r) /\ Loop(r)

\* The inductive invariant.
IInv == TypeOK /\ CacheOK /\ PerRequest

\* It implies the invariants that are checked.
LEMMA IInvImplies == IInv => ReplayIsExact /\ ReplyTellsTruth
<1> SUFFICES ASSUME IInv PROVE ReplayIsExact /\ ReplyTellsTruth
  OBVIOUS
<1>1. AppliedOncePerMemory
  BY DEF IInv, PerRequest, Once, AppliedOncePerMemory
<1>2. CreateNeverClobbers
  BY DEF IInv, TypeOK, PerRequest, Loop, CreateNeverClobbers
<1>3. ReplyTellsTruth
  BY DEF IInv, PerRequest, Truth, Refusals, ReplyTellsTruth
<1> QED  BY <1>1, <1>2, <1>3 DEF IInv, CacheOK, ReplayIsExact

\* A Host that has just started knows nothing, but for entries that hang.
LEMMA InitIInv == Init => IInv
<1> SUFFICES ASSUME Init PROVE IInv
  OBVIOUS
<1>1. TypeOK
  BY ReplayAssumption DEF Init, TypeOK, ReqState, RpcState, WorkerState, Quiet, NoOp, None
<1>2. Entries = {}
  BY DEF Init, Entries
<1>3. IsFiniteSet(Entries) /\ Cardinality(Entries) = 0
  BY <1>2, FS_EmptySet
<1>4. CacheOK
  BY <1>2, <1>3, ReplayAssumption DEF Init, CacheOK, InFlightIsKept
<1>5. PerRequest
  BY DEF Init, PerRequest, Once, Truth, Loop, OnWire, Quiet, Refusals, None
<1> QED  BY <1>1, <1>4, <1>5 DEF IInv

\* Steps that leave the entries alone leave the cache as it is.
LEMMA CacheStands ==
    ASSUME CacheOK, UNCHANGED <<entry, stamp, hung>>,
           \A r \in Reqs : worker'[r] = "none" <=> worker[r] = "none"
    PROVE  CacheOK'
<1>1. Entries' = Entries
  BY DEF Entries
<1> QED  BY <1>1 DEF CacheOK, InFlightIsKept

\* Sessions that come and go.
LEMMA SessionIInv ==
    ASSUME IInv, Connect \/ Drop
    PROVE  IInv'
<1>1. TypeOK'
  BY ReplayAssumption DEF IInv, TypeOK, Connect, Drop, RpcState, Quiet, cache, history, bounds
<1>2. CacheOK'
  BY CacheStands DEF IInv, Connect, Drop, cache
<1>3. PerRequest'
  BY DEF IInv, PerRequest, Once, Truth, Loop, OnWire, Op, Creates, Connect, Drop, Quiet, cache,
         history
<1> QED  BY <1>1, <1>2, <1>3 DEF IInv

\* A new Host process.
LEMMA RestartIInv ==
    ASSUME IInv, HostRestart
    PROVE  IInv'
<1>1. TypeOK'
  BY ReplayAssumption DEF IInv, TypeOK, HostRestart, RpcState, WorkerState, Quiet
<1>2. Entries' = {}
  BY DEF HostRestart, Entries
<1>3. IsFiniteSet(Entries') /\ Cardinality(Entries') = 0
  BY <1>2, FS_EmptySet
<1>4. CacheOK'
  BY <1>2, <1>3, ReplayAssumption DEF HostRestart, CacheOK, InFlightIsKept
<1>5. ASSUME NEW r \in Reqs PROVE Once(r)' /\ Truth(r)' /\ Loop(r)'
  <2>1. /\ applied[r] \in Nat /\ forgot[r] \in Nat
        /\ Once(r) /\ Truth(r) /\ Loop(r)
    BY DEF IInv, TypeOK, PerRequest
  <2>2. /\ forgot'[r] = IF entry[r] = "none" THEN forgot[r] ELSE forgot[r] + 1
        /\ entry'[r] = "none" /\ worker'[r] = "none"
        /\ UNCHANGED <<req, applied, overwrote>> /\ rpc' = Quiet
    BY DEF HostRestart
  <2> QED  BY <2>1, <2>2 DEF Once, Truth, Loop, OnWire, Op, Creates, Quiet, Refusals
<1> QED  BY <1>1, <1>4, <1>5 DEF IInv, PerRequest

\* The steps of a replay loop that the Host does not see.
LEMMA LoopIInv ==
    ASSUME IInv, NEW r \in Reqs,
           Send(r) \/ SessionLost(r) \/ GiveUp(r) \/ \E m \in Mutation : Issue(r, m)
    PROVE  IInv'
<1>1. UNCHANGED <<session, next, entry, stamp, sequence, hung, worker, file, applied, forgot,
                  overwrote, breaks, timeouts>>
  BY DEF Send, SessionLost, GiveUp, Issue, cache, history, bounds
<1>2. req[r] \in ReqState /\ session \in Nat
  BY DEF IInv, TypeOK
<1>3. TypeOK'
  <2>1. req' \in [Reqs -> ReqState]
    BY SMTT(30), <1>2 DEF IInv, TypeOK, ReqState, Send, SessionLost, GiveUp, Issue
  <2>2. rpc' \in RpcState
    BY DEF IInv, TypeOK, RpcState, Send, SessionLost, GiveUp, Issue
  <2> QED  BY <1>1, <2>1, <2>2 DEF IInv, TypeOK
<1>4. CacheOK'
  BY <1>1, CacheStands DEF IInv
<1>5. ASSUME NEW q \in Reqs PROVE Once(q)' /\ Truth(q)' /\ Loop(q)'
  <2>1. Once(q) /\ Truth(q) /\ Loop(q) /\ req \in [Reqs -> ReqState]
    BY DEF IInv, TypeOK, PerRequest
  <2>2. req'[q].result = req[q].result
    BY <2>1 DEF ReqState, Send, SessionLost, GiveUp, Issue
  <2>3. Once(q)' /\ Truth(q)'
    BY <1>1, <2>1, <2>2 DEF Once, Truth
  <2>4. CASE q # r
    <3>1. req'[q] = req[q]
      BY <2>1, <2>4 DEF Send, SessionLost, GiveUp, Issue
    <3>2. OnWire(q)' => OnWire(q)
      BY <2>4 DEF OnWire, Send, SessionLost, GiveUp, Issue
    <3> QED  BY <1>1, <2>1, <2>3, <3>1, <3>2 DEF Loop, Op, Creates
  <2>5. CASE q = r
    <3>1. CASE \E m \in Mutation : Issue(r, m)
      <4> PICK m \in Mutation : Issue(r, m)
        BY <3>1
      <4>1. req'[q].pc = "waiting" /\ req'[q].op = m /\ rpc' = rpc
        BY ZenonT(40), <2>1, <2>5 DEF ReqState, Issue
      <4> QED  BY <1>1, <2>1, <2>2, <2>3, <2>5, <4>1 DEF Loop, Op, Issue, OnWire
    <3>2. CASE Send(r) \/ SessionLost(r) \/ GiveUp(r)
      <4>1. /\ req[q].pc \in {"waiting", "sent"} /\ req'[q].pc \in {"waiting", "sent", "failed"}
            /\ req'[q].op = req[q].op
        BY <2>1, <2>5, <3>2 DEF ReqState, Send, SessionLost, GiveUp
      <4> QED  BY <1>1, <2>1, <2>2, <2>3, <4>1 DEF Loop, Op, Creates
    <3> QED  BY <3>1, <3>2
  <2> QED  BY <2>4, <2>5
<1> QED  BY <1>3, <1>4, <1>5 DEF IInv, PerRequest

\* A reply, heard or not, changes the record of its own request only.
LEMMA AnsweredOK ==
    ASSUME IInv, NEW r \in Reqs, NEW reply \in Replies, Answered(r, reply)
    PROVE  /\ req' \in [Reqs -> ReqState]
           /\ \A q \in Reqs : q # r => req'[q] = req[q]
           /\ req'[r].op = req[r].op
           /\ \/ req'[r] = req[r]
              \/ req[r].pc = "sent" /\ req'[r].pc = "done" /\ req'[r].result = reply
<1>1. req \in [Reqs -> ReqState]
  BY DEF IInv, TypeOK
<1> QED  BY ZenonT(60), <1>1 DEF Answered, Hears, ReqState

\* The Host answers: from the cache, or because the cache is full of requests
\* in flight.
LEMMA HostRepliesIInv ==
    ASSUME IInv, NEW r \in Reqs, HostAnswers(r) \/ HostFull(r)
    PROVE  IInv'
<1>1. /\ UNCHANGED <<session, next, entry, stamp, sequence, hung, worker, file, applied, forgot,
                     overwrote, breaks, timeouts>>
      /\ rpc' = Quiet /\ rpc.phase # "idle" /\ rpc.req = r
  BY DEF HostAnswers, HostFull, cache, history, bounds
<1>2. worker[r] = "none"
  BY DEF HostAnswers, HostFull, Completed, Replies, IInv, TypeOK, CacheOK, InFlightIsKept
<1>3. PICK reply \in Replies :
        /\ Answered(r, reply)
        /\ \/ reply = entry[r]
           \/ reply = "capacity" /\ entry[r] = "none"
  BY DEF HostAnswers, HostFull, Completed, Replies
<1>4. /\ req' \in [Reqs -> ReqState]
      /\ \A q \in Reqs : q # r => req'[q] = req[q]
      /\ req'[r].op = req[r].op
      /\ \/ req'[r] = req[r]
         \/ req[r].pc = "sent" /\ req'[r].pc = "done" /\ req'[r].result = reply
  BY <1>3, AnsweredOK
<1>5. TypeOK'
  BY <1>1, <1>4 DEF IInv, TypeOK, RpcState, Quiet
<1>6. CacheOK'
  BY <1>1, CacheStands DEF IInv
<1>7. ASSUME NEW q \in Reqs PROVE Once(q)' /\ Truth(q)' /\ Loop(q)'
  <2>1. Once(q) /\ Truth(q) /\ Loop(q) /\ applied[q] \in Nat /\ forgot[q] \in Nat
    BY DEF IInv, TypeOK, PerRequest
  <2>2. ~OnWire(q)'
    BY <1>1 DEF OnWire, Quiet
  <2>3. CASE req'[q] = req[q]
    BY <1>1, <2>1, <2>2, <2>3 DEF Once, Truth, Loop, Op, Creates
  <2>4. CASE req'[q] # req[q]
    <3>1. q = r /\ req[r].pc = "sent" /\ req'[r].pc = "done" /\ req'[r].result = reply
      BY <1>4, <2>4
    <3>2. Once(q)'
      BY <1>1, <2>1 DEF Once
    <3>3. Truth(q)'
      BY <1>1, <1>3, <2>1, <3>1 DEF Truth, Once, Refusals
    <3>4. Loop(q)'
      BY <1>1, <1>2, <1>4, <2>1, <2>2, <3>1 DEF Loop, Op, Creates
    <3> QED  BY <3>2, <3>3, <3>4
  <2> QED  BY <2>3, <2>4
<1> QED  BY <1>5, <1>6, <1>7 DEF IInv, PerRequest

\* The Host answers Timeout, or takes up a request it knows.
LEMMA HostWaitsIInv ==
    ASSUME IInv, NEW r \in Reqs, HostTimesOut(r) \/ HostKnows(r)
    PROVE  IInv'
<1>1. /\ UNCHANGED <<session, next, entry, stamp, sequence, hung, worker, file, applied, forgot,
                     overwrote, breaks>>
      /\ timeouts' \in 0..MaxTimeouts
      /\ rpc' \in RpcState
      /\ \A q \in Reqs : OnWire(q)' => OnWire(q)
  BY ReplayAssumption DEF HostTimesOut, HostKnows, cache, history, bounds, ctl, IInv, TypeOK,
                          RpcState, OnWire, Quiet
<1>2. /\ req' \in [Reqs -> ReqState]
      /\ \A q \in Reqs : \/ req'[q] = req[q]
                         \/ /\ req'[q].pc = "waiting" /\ req[q].pc = "sent"
                            /\ req'[q].op = req[q].op /\ req'[q].result = req[q].result
  <2>1. req \in [Reqs -> ReqState]
    BY DEF IInv, TypeOK
  <2> QED  BY <2>1 DEF HostTimesOut, HostKnows, TimedOut, Hears, ReqState, ctl
<1>3. TypeOK'
  BY <1>1, <1>2 DEF IInv, TypeOK
<1>4. CacheOK'
  BY <1>1, CacheStands DEF IInv
<1>5. ASSUME NEW q \in Reqs PROVE Once(q)' /\ Truth(q)' /\ Loop(q)'
  <2>1. Once(q) /\ Truth(q) /\ Loop(q)
    BY DEF IInv, PerRequest
  <2>2. CASE req'[q] = req[q]
    BY <1>1, <2>1, <2>2 DEF Once, Truth, Loop, Op, Creates
  <2>3. CASE req'[q] # req[q]
    BY <1>1, <1>2, <2>1, <2>3 DEF Once, Truth, Loop, Op, Creates
  <2> QED  BY <2>2, <2>3
<1> QED  BY <1>3, <1>4, <1>5 DEF IInv, PerRequest

\* prune_completed_mutation_replay takes completed entries only.
LEMMA EvictIsCompleted == Evict \subseteq {q \in Reqs : Completed(q)}
BY DEF Evict, Oldest

\* A new request is registered, and its worker launched.
LEMMA LaunchIInv ==
    ASSUME IInv, NEW r \in Reqs, HostLaunches(r)
    PROVE  IInv'
<1>1. /\ UNCHANGED <<session, next, req, hung, file, applied, overwrote, breaks, timeouts>>
      /\ rpc.req = r /\ rpc.phase = "wire" /\ rpc' = [rpc EXCEPT !.phase = "exec"]
      /\ entry[r] = "none" /\ worker' = [worker EXCEPT ![r] = "start"]
      /\ Cardinality(Entries \ Evict) + hung < CacheCap
  BY DEF HostLaunches, ctl, bounds
<1>2. /\ r \notin Evict
      /\ \A q \in Evict : q \in Reqs /\ entry[q] \in Replies
  BY <1>1, EvictIsCompleted DEF Completed, Replies
<1>3. TypeOK'
  <2>1. entry' \in [Reqs -> {"none", "inflight"} \cup Replies]
    BY DEF HostLaunches, IInv, TypeOK
  <2>2. sequence' = sequence + 1 /\ sequence' \in Nat /\ stamp' \in [Reqs -> 0..sequence']
    BY DEF HostLaunches, IInv, TypeOK
  <2>3. forgot' \in [Reqs -> Nat]
    BY DEF HostLaunches, IInv, TypeOK
  <2>4. worker' \in [Reqs -> WorkerState] /\ rpc' \in RpcState
    BY <1>1 DEF IInv, TypeOK, WorkerState, RpcState
  <2> QED  BY <1>1, <2>1, <2>2, <2>3, <2>4 DEF IInv, TypeOK
<1>4. Entries' = (Entries \ Evict) \cup {r}
  BY <1>2 DEF HostLaunches, Entries
<1>5. CacheOK'
  <2>1. IsFiniteSet(Entries \ Evict) /\ r \notin Entries \ Evict
    BY <1>1, FS_Subset DEF IInv, CacheOK, Entries
  <2>2. IsFiniteSet(Entries') /\ Cardinality(Entries') = Cardinality(Entries \ Evict) + 1
    BY <1>4, <2>1, FS_AddElement
  <2>3. Cardinality(Entries \ Evict) \in Nat
    BY <2>1, FS_CardinalityType
  <2>4. Cardinality(Entries') + hung' <= CacheCap
    BY <1>1, <2>2, <2>3, ReplayAssumption DEF IInv, TypeOK
  <2>5. ASSUME NEW q \in Reqs PROVE (worker'[q] # "none" <=> entry'[q] = "inflight")
    BY <1>1, <1>2 DEF IInv, TypeOK, CacheOK, InFlightIsKept, HostLaunches, Replies
  <2>6. ASSUME NEW p \in Entries', NEW q \in Entries', stamp'[p] = stamp'[q] PROVE p = q
    <3>1. /\ p \in Reqs /\ q \in Reqs /\ sequence' = sequence + 1 /\ sequence \in Nat
          /\ stamp \in [Reqs -> 0..sequence]
      BY DEF Entries, HostLaunches, IInv, TypeOK
    <3>2. \A x \in Reqs : stamp'[x] = IF x = r THEN sequence + 1
                                      ELSE IF x \in Evict THEN 0 ELSE stamp[x]
      BY <3>1 DEF HostLaunches
    <3>3. \A x \in Entries' : x = r \/ (x \in Entries /\ x \notin Evict)
      BY <1>4
    <3> QED  BY <2>6, <3>1, <3>2, <3>3 DEF IInv, CacheOK, InFlightIsKept
  <2> QED  BY <2>2, <2>4, <2>5, <2>6 DEF CacheOK, InFlightIsKept
<1>6. ASSUME NEW q \in Reqs PROVE Once(q)' /\ Truth(q)' /\ Loop(q)'
  <2>1. /\ Once(q) /\ Truth(q) /\ Loop(q) /\ applied[q] \in Nat /\ forgot[q] \in Nat
        /\ worker \in [Reqs -> WorkerState]
    BY DEF IInv, TypeOK, PerRequest
  <2>2. /\ entry'[q] = (IF q = r THEN "inflight" ELSE IF q \in Evict THEN "none" ELSE entry[q])
        /\ forgot'[q] = (IF q \in Evict THEN forgot[q] + 1 ELSE forgot[q])
        /\ worker'[q] = (IF q = r THEN "start" ELSE worker[q])
    BY <1>1, <2>1 DEF HostLaunches
  <2>3. OnWire(q)' <=> OnWire(q)
    BY <1>1 DEF OnWire, IInv, TypeOK, RpcState
  <2>4. q \in Evict => worker[q] = "none"
    BY <1>2 DEF IInv, TypeOK, CacheOK, InFlightIsKept, Replies
  <2>5. Once(q)'
    BY <1>1, <1>2, <2>1, <2>2, <2>4 DEF Once
  <2>6. Truth(q)'
    BY <1>1, <1>2, <2>1, <2>2 DEF Truth, Refusals
  <2>7. Loop(q)'
    BY <1>1, <2>1, <2>2, <2>3 DEF Loop, Op, Creates, OnWire
  <2> QED  BY <2>5, <2>6, <2>7
<1> QED  BY <1>3, <1>5, <1>6 DEF IInv, PerRequest

\* A worker before its completion: the check, the rename, a failure.
LEMMA WorkerIInv ==
    ASSUME IInv, NEW r \in Reqs,
           \/ WorkerChecks(r)
           \/ \E reply \in {"ok", "io"} : Persist(r, reply)
           \/ \E reply \in {"io", "exists"} : PersistFails(r, reply)
    PROVE  IInv'
<1>1. /\ UNCHANGED <<session, next, req, rpc, entry, stamp, sequence, hung, forgot, breaks,
                     timeouts>>
      /\ worker[r] \in {"start", "checked"}
  BY DEF WorkerChecks, Persist, PersistFails, ctl, cache, history, bounds
<1>2. /\ req[r].pc # "idle" /\ Op(r) \in Mutation
      /\ applied[r] \in Nat /\ forgot[r] \in Nat /\ applied[r] <= forgot[r]
      /\ worker \in [Reqs -> WorkerState] /\ applied \in [Reqs -> Nat]
  BY <1>1 DEF IInv, TypeOK, PerRequest, Loop, Once
<1>3. PICK w \in {"checked", "ok", "io", "exists", "conflict"} :
        /\ worker' = [worker EXCEPT ![r] = w]
        /\ \/ /\ w # "ok" /\ UNCHANGED <<file, applied, overwrote>>
           \/ /\ w \in {"ok", "io"} /\ applied' = [applied EXCEPT ![r] = @ + 1]
              /\ file' = [file EXCEPT ![Op(r).path] = Op(r).new]
              /\ overwrote' \in {overwrote, overwrote \cup {r}}
              /\ r \in overwrote' => r \in overwrote \/ ~Creates(r)
  BY DEF WorkerChecks, Persist, PersistFails, history, Creates, Current
<1>4. TypeOK'
  <2>1. worker' \in [Reqs -> WorkerState]
    BY <1>2, <1>3 DEF WorkerState, Replies
  <2>2. applied' \in [Reqs -> Nat] /\ overwrote' \subseteq Reqs
    BY <1>3 DEF IInv, TypeOK
  <2>3. file' \in [Paths -> Values \cup {Absent}]
    BY <1>2, <1>3 DEF IInv, TypeOK, Mutation
  <2> QED  BY <1>1, <2>1, <2>2, <2>3 DEF IInv, TypeOK
<1>5. CacheOK'
  BY <1>1, <1>2, <1>3, CacheStands DEF IInv
<1>6. ASSUME NEW q \in Reqs PROVE Once(q)' /\ Truth(q)' /\ Loop(q)'
  <2>1. Once(q) /\ Truth(q) /\ Loop(q) /\ Once(r) /\ Truth(r) /\ Loop(r)
    BY DEF IInv, PerRequest
  <2>2. CASE q # r
    <3>1. worker'[q] = worker[q] /\ applied'[q] = applied[q]
          /\ (q \in overwrote' <=> q \in overwrote)
      BY <1>2, <1>3, <2>2
    <3> QED  BY <1>1, <2>1, <3>1 DEF Once, Truth, Loop, OnWire, Op, Creates
  <2>3. CASE q = r
    <3>1. entry[r] = "inflight"
      BY <1>1 DEF IInv, CacheOK, InFlightIsKept
    <3>2. worker'[r] = w /\ applied'[r] \in {applied[r], applied[r] + 1}
          /\ (w \notin {"ok", "io"} => applied'[r] = applied[r])
          /\ (w = "ok" => applied'[r] = applied[r] + 1)
      BY <1>2, <1>3
    <3>3. req[r].result = None
      BY <1>1, <2>1 DEF Loop
    <3>4. Once(r)'
      BY <1>1, <1>2, <2>1, <3>1, <3>2 DEF Once
    <3>5. Truth(r)'
      BY <1>1, <1>2, <2>1, <3>1, <3>2, <3>3 DEF Truth, Refusals, None
    <3>6. Loop(r)'
      BY <1>1, <1>2, <1>3, <2>1, <3>3 DEF Loop, Op, Creates
    <3> QED  BY <2>3, <3>4, <3>5, <3>6
  <2> QED  BY <2>2, <2>3
<1> QED  BY <1>4, <1>5, <1>6 DEF IInv, PerRequest

\* The completion task puts the reply into the cache.
LEMMA CompletesIInv ==
    ASSUME IInv, NEW r \in Reqs, WorkerCompletes(r)
    PROVE  IInv'
<1>1. /\ UNCHANGED <<session, next, req, rpc, stamp, sequence, hung, file, applied, forgot,
                     overwrote, breaks, timeouts>>
      /\ worker[r] \in Replies
      /\ entry' = [entry EXCEPT ![r] = worker[r]] /\ worker' = [worker EXCEPT ![r] = "none"]
  BY DEF WorkerCompletes, ctl, history, bounds
<1>2. /\ entry \in [Reqs -> {"none", "inflight"} \cup Replies]
      /\ worker \in [Reqs -> WorkerState]
  BY DEF IInv, TypeOK
<1>3. TypeOK'
  <2>1. entry' \in [Reqs -> {"none", "inflight"} \cup Replies] /\ worker' \in [Reqs -> WorkerState]
    BY <1>1, <1>2 DEF WorkerState
  <2> QED  BY <1>1, <2>1 DEF IInv, TypeOK
<1>4. entry[r] = "inflight" /\ worker[r] # "none" /\ worker[r] # "inflight"
  BY <1>1 DEF IInv, CacheOK, InFlightIsKept, Replies
<1>5. CacheOK'
  <2>1. Entries' = Entries
    BY <1>1, <1>2, <1>4 DEF Entries
  <2>2. \A q \in Reqs : worker'[q] # "none" <=> entry'[q] = "inflight"
    BY <1>1, <1>2, <1>4 DEF IInv, CacheOK, InFlightIsKept
  <2> QED  BY <1>1, <2>1, <2>2 DEF IInv, CacheOK, InFlightIsKept
<1>6. ASSUME NEW q \in Reqs PROVE Once(q)' /\ Truth(q)' /\ Loop(q)'
  <2>1. Once(q) /\ Truth(q) /\ Loop(q)
    BY DEF IInv, PerRequest
  <2>2. CASE q # r
    <3>1. worker'[q] = worker[q] /\ entry'[q] = entry[q]
      BY <1>1, <1>2, <2>2
    <3> QED  BY <1>1, <2>1, <3>1 DEF Once, Truth, Loop, OnWire, Op, Creates
  <2>3. CASE q = r
    <3>1. worker'[q] = "none" /\ entry'[q] = worker[q]
      BY <1>1, <1>2, <2>3
    <3> QED  BY <1>1, <1>4, <2>1, <2>3, <3>1 DEF Once, Truth, Loop, OnWire, Op, Creates, Refusals
  <2> QED  BY <2>2, <2>3
<1> QED  BY <1>3, <1>5, <1>6 DEF IInv, PerRequest

\* Every step preserves the inductive invariant.
LEMMA NextIInv == IInv /\ [Next]_vars => IInv'
<1> SUFFICES ASSUME IInv, [Next]_vars PROVE IInv'
  OBVIOUS
<1>1. CASE UNCHANGED vars
  <2>1. UNCHANGED <<session, next, req, rpc, entry, stamp, sequence, hung, worker, file, applied,
                    forgot, overwrote, breaks, timeouts>>
    BY <1>1 DEF vars, ctl, cache, history, bounds
  <2>2. TypeOK'
    BY <2>1 DEF IInv, TypeOK
  <2>3. CacheOK'
    BY <2>1, CacheStands DEF IInv
  <2>4. PerRequest'
    BY <2>1 DEF IInv, PerRequest, Once, Truth, Loop, OnWire, Op, Creates
  <2> QED  BY <2>2, <2>3, <2>4 DEF IInv
<1>2. CASE Connect \/ Drop \/ HostRestart
  BY <1>2, SessionIInv, RestartIInv
<1>3. ASSUME NEW r \in Reqs,
             Send(r) \/ SessionLost(r) \/ GiveUp(r) \/ \E m \in Mutation : Issue(r, m)
      PROVE  IInv'
  BY <1>3, LoopIInv
<1>4. ASSUME NEW r \in Reqs, Host(r) PROVE IInv'
  BY <1>4, HostWaitsIInv, HostRepliesIInv, LaunchIInv DEF Host
<1>5. ASSUME NEW r \in Reqs, Work(r) PROVE IInv'
  BY <1>5, WorkerIInv, CompletesIInv DEF Work
<1> QED  BY <1>1, <1>2, <1>3, <1>4, <1>5 DEF Next

\* The specification keeps the inductive invariant.
LEMMA SpecIInv == Spec => []IInv
BY InitIInv, NextIInv, PTL DEF Spec

\* HostReadService executes a mutation at most once for each time it has
\* forgotten its RequestId, keeps every running one within the bound of its
\* cache, and lets no creation replace contents.
THEOREM ReplayIsExactThm == Spec => []ReplayIsExact
BY SpecIInv, IInvImplies, PTL

\* What fs_mutation tells its caller is what happened to the file, whichever
\* attempt was answered.
THEOREM ReplyTellsTruthThm == Spec => []ReplyTellsTruth
BY SpecIInv, IInvImplies, PTL
=============================================================================
