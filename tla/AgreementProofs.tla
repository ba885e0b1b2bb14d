-------------------------- MODULE AgreementProofs --------------------------
(***************************************************************************)
(* For instances of any size: the components of MCFleet in which one side  *)
(* goes by what another told it.  What a caller of the Local API was told, *)
(* and whom and what the two ends of a session have heard, agree with the  *)
(* other side.                                                             *)
(***************************************************************************)
EXTENDS MCFleet, Integers, Sequences, FiniteSets, FiniteSetTheorems,
        SequenceTheorems, TLAPS

-----------------------------------------------------------------------------
(* What is asked through the Local API.                                    *)

LcPhases == {"none", "live", "cancelling", "ended", "gone"}
LcAsks == {"file_status", "directory_status", "file_cancel", "directory_cancel", "forward_remove",
           "socks5_remove", "http_connect_remove", "shell_status", "shell_cancel"}
LcKinds == Lc!Starts \cup LcAsks
LcPending == {"sent", "authorized", "remote"}

LcItems == [kind : LcKinds, of : Nat]
LcTools == [at : {"idle", "probing", "running"}, items : Seq(LcItems), probed : Nat, call : Nat,
            got : Seq([ok : BOOLEAN, id : Nat])]
LcRequests == [by : Callers \cup {0}, kind : LcKinds \cup {"none"}, of : Nat,
               at : LcPending \cup {"answered", "done"},
               answer : LcPhases \cup {"failed"}, lost : BOOLEAN, early : BOOLEAN]

LcTyped ==
  /\ lcCalls \in [Lc!Ids -> LcRequests]
  /\ lcTool \in [Callers -> LcTools]
  /\ lcWork \in [Lc!Ids -> LcPhases]
  /\ lcTold \in [Lc!Ids -> SUBSET LcPhases]
  /\ lcSent \in 0 .. MaxLocalCalls
  /\ lcDevice \in [standing : {"active", "revoked"}, online : BOOLEAN, execute : BOOLEAN,
                   roots : BOOLEAN, grant : SUBSET {"read", "write", "tcp_egress", "shell"}]

\* What was said of the phase of a thing that a request of this kind made is
\* still so.
LcStillTrue(said, phase, kind) ==
  /\ said = "ended" => phase \in {"ended", "gone"}
  /\ said = "cancelling" /\ kind = "shell_start" => phase \in {"cancelling", "ended", "gone"}

\* The device holds what a request of this kind needs.
LcRight(kind) ==
  /\ kind \in Lc!Puts => "write" \in lcDevice.grant /\ lcDevice.roots
  /\ kind \in Lc!Gets => "read" \in lcDevice.grant /\ lcDevice.roots
  /\ kind \in Lc!Adds => "tcp_egress" \in lcDevice.grant
  /\ kind \in {"shell_start", "shell_status", "shell_cancel"} => "shell" \in lcDevice.grant

LcSaid(c, result) == <<c, result>> \in lcLog

\* Something was made by request c, or may still be by the Host.
LcMade(c) == lcWork[c] # "none" \/ c \in lcWire

LcGivenUp(c) == lcCalls[c].kind = "shell_start" /\ LcSaid(c, "failed")

\* Requests that were not sent yet.
LcFresh(c) ==
  c > lcSent => /\ lcCalls[c] = Lc!NoCall /\ lcWork[c] = "none" /\ lcTold[c] = {}
                /\ c \notin lcWire /\ ~LcSaid(c, "succeeded")

\* What was made: under a right, for a caller that knows, waits or gave up.
LcWork(c) ==
  /\ LcMade(c) =>
       /\ lcCalls[c].kind \in Lc!Starts /\ lcCalls[c].early /\ LcRight(lcCalls[c].kind)
       /\ \/ lcTold[c] # {} \/ lcCalls[c].lost \/ LcGivenUp(c)
          \/ \E a \in Callers : lcTool[a].call = c
  /\ c \in lcWire => lcWork[c] = "none" /\ lcCalls[c].kind = "shell_start"
  /\ lcWork[c] # "none" /\ lcCalls[c].kind \in Lc!Adds => LcSaid(c, "succeeded")
  /\ lcWork[c] \in {"ended", "gone"} => c \in lcEnded
  /\ LcSaid(c, "succeeded") => lcWork[c] # "none" \/ lcCalls[c].kind \notin Lc!Starts

\* What was told.
LcTold(c) ==
  /\ lcTold[c] # {} => LcSaid(c, "succeeded")
  /\ \A said \in lcTold[c] : LcStillTrue(said, lcWork[c], lcCalls[c].kind)

\* How far the task of a request is.
LcRequest(c) ==
  LET r == lcCalls[c] IN
  /\ r.at \in LcPending => r.kind \in LcKinds
  /\ r.at # "done" /\ ~r.lost => \E a \in Callers : lcTool[a].call = c
  /\ r.at \in {"authorized", "remote"} =>
       r.kind \in Lc!Starts \cup Lc!Followups /\ r.early /\ LcRight(r.kind)
  /\ r.at = "remote" => r.kind = "shell_start"
  /\ r.kind \in Lc!Starts /\ r.at \in {"sent", "authorized"} => ~LcMade(c)
  /\ r.at # "answered" => r.answer = "none"
  /\ r.at = "answered" => r.answer # "none" /\ r.kind \in LcKinds
  /\ r.at = "answered" /\ r.kind \in Lc!Starts =>
       IF r.answer = "failed" THEN ~LcMade(c) \/ LcGivenUp(c)
                              ELSE r.answer = "live" /\ lcWork[c] # "none" /\ LcSaid(c, "succeeded")
  /\ r.kind \in LcAsks =>
       /\ r.of \in Lc!Ids /\ LcSaid(r.of, "succeeded")
       /\ LcStillTrue(r.answer, lcWork[r.of], lcCalls[r.of].kind)
  /\ r.kind \in Lc!Followups /\ r.answer \notin {"none", "failed"} => r.early /\ LcRight(r.kind)

\* A tool call knows its request and what its finished items came to.
LcCaller(a, t) ==
  LET r == lcCalls[t.call]  n == Len(t.got) IN
  /\ n <= Len(t.items)
  /\ t.call # 0 =>
       /\ t.call \in Lc!Ids /\ t.call <= lcSent /\ n < Len(t.items) /\ t.at = "running"
       /\ r.by = a /\ ~r.lost /\ r.at # "done"
       /\ r.kind = t.items[n + 1].kind /\ r.of = t.items[n + 1].of
  /\ \A i \in 1 .. Len(t.items) : t.items[i].kind \in LcAsks =>
       /\ t.items[i].of \in Lc!Ids /\ LcSaid(t.items[i].of, "succeeded")
       /\ \A j \in 1 .. Len(t.items) : t.items[j].kind \in LcAsks
  /\ \A i \in 1 .. n : t.got[i].ok /\ t.items[i].kind \in Lc!Starts =>
       LET s == lcCalls[t.got[i].id] IN
       /\ t.got[i].id \in Lc!Ids /\ lcWork[t.got[i].id] # "none"
       /\ s.by = a /\ s.at = "done" /\ s.kind = t.items[i].kind /\ s.of = t.items[i].of
       /\ \A j \in 1 .. n : t.got[j] = t.got[i] => j = i

LcInv ==
  /\ LcTyped
  /\ \A c \in Lc!Ids : LcFresh(c) /\ LcWork(c) /\ LcTold(c) /\ LcRequest(c)
  /\ \A a \in Callers : LcCaller(a, lcTool[a])

\* The kinds of requests.
LEMMA LcKindFacts ==
    /\ Lc!Starts \cap LcAsks = {} /\ Lc!Starts \subseteq LcKinds /\ LcAsks \subseteq LcKinds
    /\ Lc!Puts \subseteq Lc!Starts /\ Lc!Gets \subseteq Lc!Starts /\ Lc!Adds \subseteq Lc!Starts
    /\ "shell_start" \in Lc!Starts /\ "shell_start" \notin Lc!Adds
    /\ Lc!Followups \subseteq LcAsks /\ Lc!Statuses \subseteq LcAsks /\ Lc!Cancels \subseteq LcAsks
    /\ Lc!Removes \subseteq LcAsks /\ "none" \notin LcKinds
BY DEF Lc!Starts, Lc!Puts, Lc!Gets, Lc!Adds, LcAsks, LcKinds, Lc!Followups, Lc!Statuses, Lc!Cancels,
       Lc!Removes

\* Which of the requests that are authorized concern a shell.
LEMMA LcShellKinds ==
    \A kind \in Lc!Starts \cup Lc!Followups :
      Lc!Manager[kind] = "shell" <=> kind \in {"shell_start", "shell_status", "shell_cancel"}
<1>1. /\ Lc!Manager["file_put"] = "file" /\ Lc!Manager["file_get"] = "file"
      /\ Lc!Manager["directory_put"] = "directory" /\ Lc!Manager["directory_get"] = "directory"
      /\ Lc!Manager["forward_add"] = "forward" /\ Lc!Manager["socks5_add"] = "socks5"
      /\ Lc!Manager["http_connect_add"] = "http_connect"
      /\ Lc!Manager["shell_start"] = "shell" /\ Lc!Manager["shell_status"] = "shell"
      /\ Lc!Manager["shell_cancel"] = "shell"
  BY DEF Lc!Manager
<1> QED  BY <1>1 DEF Lc!Starts, Lc!Puts, Lc!Gets, Lc!Adds, Lc!Followups

\* Who is allowed holds the right.
LEMMA LcAllowed ==
    ASSUME NEW kind \in Lc!Starts \cup Lc!Followups, Lc!Allowed(kind)
    PROVE  LcRight(kind) /\ lcDevice.standing = "active"
<1>1. Lc!Manager[kind] = "shell" <=> kind \in {"shell_start", "shell_status", "shell_cancel"}
  BY LcShellKinds
<1> QED  BY <1>1 DEF Lc!Allowed, LcRight, Lc!MayPut, Lc!MayGet, Lc!MayEgress, Lc!MayShell, Lc!MayExecute,
            Lc!Puts, Lc!Gets, Lc!Adds, Lc!Followups, Lc!Starts

\* What is made only moves on, and then what was said of it stays true; the
\* worker that takes a transfer back is apart.
LcMoves(w, v) ==
  \/ v = w
  \/ w = "none" /\ v = "live"
  \/ w = "live" /\ v \in {"cancelling", "ended"}
  \/ w = "cancelling" /\ v = "ended"
  \/ w = "ended" /\ v = "gone"

\* What was said of the work of a request outlives its moves, and the request
\* being forgotten.
LEMMA LcStillKept ==
    ASSUME NEW said, NEW w, NEW v, NEW kind, NEW later, LcStillTrue(said, w, kind), LcMoves(w, v),
           later = kind \/ later # "shell_start"
    PROVE  LcStillTrue(said, v, later)
BY DEF LcStillTrue, LcMoves

\* The record of a request that never was.
LEMMA LcNoCall ==
    /\ Lc!NoCall \in LcRequests /\ Lc!NoCall.kind = "none" /\ Lc!NoCall.at = "done" /\ Lc!NoCall.answer = "none"
    /\ ~Lc!NoCall.lost
BY DEF Lc!NoCall, LcRequests, LcPhases, LcPending

\* A step of one request's task, or of what it made.
LEMMA LcTask ==
    ASSUME LcInv, NEW c \in Lc!Ids, c <= lcSent, NEW n \in LcRequests,
           lcCalls' = [lcCalls EXCEPT ![c] = n], UNCHANGED <<lcDevice, lcTool, lcSent, lcTold>>,
           lcWork' \in [Lc!Ids -> LcPhases],
           \A i \in Lc!Ids : LcMoves(lcWork[i], lcWork'[i]),
           \A i \in Lc!Ids : i # c /\ lcWork[i] = "none" => lcWork'[i] = "none",
           \A i \in Lc!Ids : i # c => (i \in lcWire' <=> i \in lcWire),
           lcLog \subseteq lcLog',
           \A i \in Lc!Ids : i # c /\ LcSaid(i, "succeeded")' => LcSaid(i, "succeeded"),
           \A i \in Lc!Ids : lcWork'[i] \in {"ended", "gone"} => i \in lcEnded',
           LcWork(c)', LcRequest(c)', n.kind = lcCalls[c].kind \/ n.kind # "shell_start",
           lcCalls[c].at = "done" => n = lcCalls[c],
           lcCalls[c].at # "done" /\ ~lcCalls[c].lost =>
             n.by = lcCalls[c].by /\ n.kind = lcCalls[c].kind /\ n.of = lcCalls[c].of /\ ~n.lost /\ n.at # "done"
    PROVE  LcInv'
<1>1. LcTyped /\ lcCalls'[c] = n /\ \A i \in Lc!Ids : i # c => lcCalls'[i] = lcCalls[i]
  BY DEF LcInv, LcTyped
<1>2. LcTyped'
  BY <1>1 DEF LcTyped
<1>3. \A k : LcRight(k)' <=> LcRight(k)
  BY DEF LcRight
<1>4. \A i \in Lc!Ids : lcWork[i] # "none" => lcWork'[i] # "none"
  BY DEF LcMoves
<1>5. \A i \in Lc!Ids : \A said :
        LcStillTrue(said, lcWork[i], lcCalls[i].kind) => LcStillTrue(said, lcWork'[i], lcCalls'[i].kind)
  <2>1. \A i \in Lc!Ids : lcCalls'[i].kind = lcCalls[i].kind \/ lcCalls'[i].kind # "shell_start"
    BY <1>1
  <2> QED  BY <2>1, LcStillKept
<1>6. \A i, r : LcSaid(i, r) => LcSaid(i, r)'
  BY DEF LcSaid
<1>7. ASSUME NEW i \in Lc!Ids PROVE LcFresh(i)' /\ LcWork(i)' /\ LcTold(i)' /\ LcRequest(i)'
  <2>1. LcFresh(i) /\ LcWork(i) /\ LcTold(i) /\ LcRequest(i)
    BY DEF LcInv
  <2>2. LcTold(i)'
    BY <1>5, <1>6, <2>1 DEF LcTold
  <2>3. LcFresh(i)'
    <3>1. i > lcSent => i # c
      BY <1>1, FleetAssumption DEF LcTyped, Lc!Ids
    <3> QED  BY <1>1, <2>1, <3>1 DEF LcFresh
  <2>4. CASE i # c
    <3>1. lcCalls'[i] = lcCalls[i] /\ (LcMade(i)' => LcMade(i)) /\ (~LcMade(i) => ~LcMade(i)')
      BY <1>1, <2>4 DEF LcMade
    <3>2. LcGivenUp(i) => LcGivenUp(i)'
      BY <1>6, <3>1 DEF LcGivenUp
    <3>3. LcWork(i)'
      BY <1>3, <1>4, <1>6, <2>1, <2>4, <3>1, <3>2 DEF LcWork, LcMade
    <3>4. LcRequest(i)'
      BY <1>3, <1>4, <1>5, <1>6, <2>1, <3>1, <3>2 DEF LcRequest
    <3> QED  BY <2>2, <2>3, <3>3, <3>4
  <2>5. CASE i = c
    BY <2>2, <2>3, <2>5
  <2> QED  BY <2>4, <2>5
<1>8. ASSUME NEW a \in Callers PROVE LcCaller(a, lcTool[a])'
  <2> DEFINE t == lcTool[a]
  <2>1. LcCaller(a, t) /\ t \in LcTools /\ t' = t
    BY <1>1 DEF LcInv, LcTyped
  <2> HIDE DEF t
  <2>2. t.call # 0 => /\ lcCalls'[t.call].by = lcCalls[t.call].by /\ lcCalls'[t.call].kind = lcCalls[t.call].kind
                      /\ lcCalls'[t.call].of = lcCalls[t.call].of /\ ~lcCalls'[t.call].lost
                      /\ lcCalls'[t.call].at # "done"
    BY <1>1, <2>1 DEF LcCaller
  <2>3. \A i \in Lc!Ids : lcCalls[i].at = "done" => lcCalls'[i] = lcCalls[i]
    BY <1>1
  <2>4. ASSUME NEW i \in 1 .. Len(t.got), t.got[i].ok /\ t.items[i].kind \in Lc!Starts
        PROVE  LET s == lcCalls'[t.got[i].id] IN
               /\ t.got[i].id \in Lc!Ids /\ lcWork'[t.got[i].id] # "none"
               /\ s.by = a /\ s.at = "done" /\ s.kind = t.items[i].kind /\ s.of = t.items[i].of
               /\ \A j \in 1 .. Len(t.got) : t.got[j] = t.got[i] => j = i
    BY SMTT(30), <1>4, <2>1, <2>3, <2>4 DEF LcCaller
  <2>5. ASSUME NEW i \in 1 .. Len(t.items), t.items[i].kind \in LcAsks
        PROVE  /\ t.items[i].of \in Lc!Ids /\ LcSaid(t.items[i].of, "succeeded")'
               /\ \A j \in 1 .. Len(t.items) : t.items[j].kind \in LcAsks
    BY <1>6, <2>1, <2>5 DEF LcCaller
  <2>6. LcCaller(a, t)'
    BY <2>1, <2>2, <2>4, <2>5 DEF LcCaller
  <2> QED  BY <2>6 DEF t
<1> QED  BY <1>2, <1>7, <1>8 DEF LcInv

\* A task that is pending belongs to a request that was sent.
LEMMA LcSent ==
    ASSUME LcInv, NEW c \in Lc!Ids, lcCalls[c].at # "done" \/ lcCalls[c].kind # "none" \/ LcMade(c)
    PROVE  c <= lcSent /\ lcCalls[c] \in LcRequests
<1>1. LcTyped /\ LcFresh(c) /\ LcWork(c)
  BY DEF LcInv
<1>2. lcCalls[c] \in LcRequests /\ (c > lcSent \/ c <= lcSent)
  BY <1>1, FleetAssumption DEF LcTyped, Lc!Ids
<1>3. ~(c > lcSent)
  BY <1>1, LcNoCall, LcKindFacts DEF LcFresh, LcMade
<1> QED  BY <1>2, <1>3

\* A task answers: its caller hears of it or, if it gave up, the request is kept
\* only for what it made.
LEMMA LcAnswered ==
    ASSUME LcInv, NEW c \in Lc!Ids, lcCalls[c].at \in LcPending,
           NEW ans \in (LcPhases \ {"none"}) \cup {"failed"}, Lc!Answers(c, ans),
           UNCHANGED <<lcDevice, lcTool, lcSent, lcTold, lcWire>>,
           lcEnded' = lcEnded \cup {i \in Lc!Ids : lcWork'[i] = "ended"},
           lcWork' \in [Lc!Ids -> LcPhases],
           \A i \in Lc!Ids : LcMoves(lcWork[i], lcWork'[i]),
           \A i \in Lc!Ids : lcWork[i] = "none" /\ lcWork'[i] # "none" => i = c /\ lcCalls[c].kind \in Lc!Starts,
           lcLog \subseteq lcLog',
           \A i \in Lc!Ids : i # c /\ LcSaid(i, "succeeded")' => LcSaid(i, "succeeded"),
           lcCalls[c].kind \in Lc!Starts =>
             /\ LcMade(c)' => lcCalls[c].early /\ LcRight(lcCalls[c].kind)
             /\ c \in lcWire => lcWork'[c] = "none"
             /\ lcWork'[c] # "none" => LcSaid(c, "succeeded")' \/ lcCalls[c].kind = "shell_start"
             /\ LcSaid(c, "succeeded")' => lcWork'[c] # "none"
             /\ IF ans = "failed" THEN ~LcMade(c)' \/ (lcCalls[c].kind = "shell_start" /\ LcSaid(c, "failed")')
                                  ELSE ans = "live" /\ lcWork'[c] # "none" /\ LcSaid(c, "succeeded")',
           lcCalls[c].kind \in LcAsks => LcStillTrue(ans, lcWork'[lcCalls[c].of], lcCalls[lcCalls[c].of].kind),
           lcCalls[c].kind \in Lc!Followups /\ ans # "failed" =>
             lcCalls[c].early /\ LcRight(lcCalls[c].kind)
    PROVE  LcInv'
<1> DEFINE r == lcCalls[c]
           answered == [r EXCEPT !.at = "answered", !.answer = ans]
           settled == [r EXCEPT !.at = "done", !.answer = "none"]
           keep == r.kind \in Lc!Starts /\ (lcWork'[c] # "none" \/ c \in lcWire)
           n == IF r.lost THEN IF keep THEN settled ELSE Lc!NoCall ELSE answered
<1>1. LcTyped /\ LcFresh(c) /\ LcWork(c) /\ LcTold(c) /\ LcRequest(c) /\ c <= lcSent /\ r \in LcRequests
  BY LcSent DEF LcInv, LcPending
<1>2. r.kind \in LcKinds /\ r.at \in LcPending
  BY <1>1 DEF LcRequest
<1>3. answered \in LcRequests /\ settled \in LcRequests
  BY <1>1, <1>2 DEF LcRequests, LcPhases
<1>4. /\ answered.by = r.by /\ answered.kind = r.kind /\ answered.of = r.of /\ answered.lost = r.lost
      /\ answered.at = "answered" /\ answered.answer = ans /\ answered.early = r.early
      /\ settled.by = r.by /\ settled.kind = r.kind /\ settled.of = r.of /\ settled.lost = r.lost
      /\ settled.at = "done" /\ settled.answer = "none" /\ settled.early = r.early
  BY <1>1 DEF LcRequests
<1>5. lcCalls' = [lcCalls EXCEPT ![c] = n]
  <2>1. [answered EXCEPT !.at = "done", !.answer = "none"] = settled
    BY <1>1 DEF LcRequests
  <2> QED  BY <1>4, <2>1 DEF Lc!Answers, Lc!Settled
<1> HIDE DEF answered, settled
<1>6. n \in LcRequests
  BY <1>3, LcNoCall
<1>7. lcCalls'[c] = n
  BY <1>1, <1>5 DEF LcTyped
<1>8. \A k : LcRight(k)' <=> LcRight(k)
  BY DEF LcRight
<1>9. lcWork'[c] # "none" \/ c \in lcWire => r.kind \in Lc!Starts
  BY <1>1 DEF LcWork, LcMade
<1>10. \A i \in Lc!Ids : lcWork'[i] \in {"ended", "gone"} => i \in lcEnded'
  BY DEF LcInv, LcWork, LcMoves
<1> DEFINE s == lcCalls'[c]
<1>11. (s = answered /\ ~r.lost) \/ (s = settled /\ r.lost /\ keep) \/ (s = Lc!NoCall /\ r.lost /\ ~keep)
  BY <1>7
<1>12. LcMade(c)' <=> (lcWork'[c] # "none" \/ c \in lcWire)
  BY DEF LcMade
<1>13. LcMade(c)' => r.kind \in Lc!Starts /\ keep /\ s.kind = r.kind /\ s.early = r.early /\ s.lost = r.lost
  BY <1>4, <1>9, <1>11, <1>12
<1>14. LcGivenUp(c)' <=> s.kind = "shell_start" /\ LcSaid(c, "failed")'
  BY DEF LcGivenUp, LcSaid
<1> HIDE DEF s
<1>15. r.lost \/ \E a \in Callers : lcTool'[a].call = c
  BY <1>1, <1>2 DEF LcRequest, LcPending
<1>16. LcWork(c)'
  <2>1. LcMade(c)' => /\ s.kind \in Lc!Starts /\ s.early /\ LcRight(s.kind)
                      /\ s.lost \/ \E a \in Callers : lcTool'[a].call = c
    BY <1>13, <1>15
  <2>2. c \in lcWire' => lcWork'[c] = "none" /\ s.kind = "shell_start"
    BY <1>1, <1>9, <1>12, <1>13 DEF LcWork
  <2>3. lcWork'[c] # "none" /\ s.kind \in Lc!Adds => LcSaid(c, "succeeded")'
    BY <1>12, <1>13, LcKindFacts
  <2>4. LcSaid(c, "succeeded")' => lcWork'[c] # "none" \/ s.kind \notin Lc!Starts
    BY <1>4, <1>11, LcNoCall, LcKindFacts
  <2> QED  BY <1>8, <1>10, <2>1, <2>2, <2>3, <2>4 DEF LcWork, s
<1>17. LcRequest(c)'
  <2>1. CASE s = answered /\ ~r.lost
    <3>0. s.kind \in LcAsks => s.of \in Lc!Ids /\ s.of = r.of /\ lcCalls'[s.of].kind = lcCalls[s.of].kind
      BY <1>1, <1>4, <1>5, <1>7, <2>1 DEF LcRequest, LcTyped
    <3>1. s.kind \in LcAsks =>
            /\ s.of \in Lc!Ids /\ <<s.of, "succeeded">> \in lcLog'
            /\ LcStillTrue(s.answer, lcWork'[s.of], lcCalls'[s.of].kind)
      BY <1>1, <1>4, <2>1, <3>0 DEF LcRequest, LcSaid
    <3>2. s.kind \in Lc!Followups /\ s.answer \notin {"none", "failed"} => s.early /\ LcRight(s.kind)
      BY <1>4, <2>1
    <3>3. s.kind \in Lc!Starts =>
            IF s.answer = "failed" THEN ~LcMade(c)' \/ LcGivenUp(c)'
              ELSE s.answer = "live" /\ lcWork'[c] # "none" /\ LcSaid(c, "succeeded")'
      BY <1>4, <1>14, <2>1
    <3>4. s.at = "answered" /\ s.answer # "none" /\ s.kind \in LcKinds
      BY <1>2, <1>4, <2>1
    <3>5. \E a \in Callers : lcTool'[a].call = c
      BY <1>15, <2>1
    <3> QED  BY <3>1, <3>2, <3>3, <3>4, <3>5, <1>8 DEF LcRequest, LcPending, LcSaid, s
  <2>2. CASE s.at = "done" /\ s.answer = "none" /\ s.kind \notin LcAsks
    BY <2>2, LcKindFacts DEF LcRequest, LcPending, s
  <2>3. s = settled /\ keep => s.kind \notin LcAsks /\ s.at = "done" /\ s.answer = "none"
    BY <1>4, LcKindFacts
  <2>4. s = Lc!NoCall => s.kind \notin LcAsks /\ s.at = "done" /\ s.answer = "none"
    BY LcNoCall, LcKindFacts
  <2> QED  BY <1>11, <2>1, <2>2, <2>3, <2>4
<1>18. lcCalls[c].at # "done"
  BY <1>2 DEF LcPending
<1>19. ~r.lost => n.by = r.by /\ n.kind = r.kind /\ n.of = r.of /\ ~n.lost /\ n.at # "done"
  BY <1>4
<1>20. \A i \in Lc!Ids : i # c /\ lcWork[i] = "none" => lcWork'[i] = "none"
  OBVIOUS
<1>22. n.kind = r.kind \/ n.kind # "shell_start"
  BY <1>4, LcNoCall
<1> HIDE DEF n, r, keep
<1>21. \A i \in Lc!Ids : i # c => (i \in lcWire' <=> i \in lcWire)
  OBVIOUS
<1> QED  BY <1>1, <1>5, <1>6, <1>10, <1>16, <1>17, <1>18, <1>19, <1>20, <1>21, <1>22, LcTask DEF r

\* What a handler leaves alone, and the history it keeps.
LcHandles ==
  /\ lcEnded' = lcEnded \cup {i \in Lc!Ids : lcWork'[i] = "ended"}
  /\ UNCHANGED <<lcUse, lcDevice, lcTool, lcSent, lcTold>>

\* What is known of a request that starts something, once it is authorized.
LEMMA LcStarting ==
    ASSUME LcInv, NEW c \in Lc!Ids, lcCalls[c].kind \in Lc!Starts, lcCalls[c].at = "authorized"
    PROVE  /\ LcTyped /\ lcCalls[c].early /\ LcRight(lcCalls[c].kind) /\ lcCalls[c].at \in LcPending
           /\ lcWork[c] = "none" /\ c \notin lcWire /\ ~LcSaid(c, "succeeded")
           /\ lcCalls[c].kind \notin LcAsks
<1>1. LcTyped /\ LcWork(c) /\ LcRequest(c)
  BY DEF LcInv
<1> QED  BY <1>1, LcKindFacts DEF LcWork, LcRequest, LcMade, LcPending

\* An entry that ended makes room.
LEMMA LcPrune ==
    ASSUME LcTyped, NEW m, NEW w \in Lc!PruneTerminal(m)
    PROVE  /\ w \in [Lc!Ids -> LcPhases]
           /\ \A i \in Lc!Ids : LcMoves(lcWork[i], w[i]) /\ (lcWork[i] = "none" => w[i] = "none")
<1>1. w = lcWork \/ \E i \in Lc!Ids : lcWork[i] = "ended" /\ w = [lcWork EXCEPT ![i] = "gone"]
  BY DEF Lc!PruneTerminal, Lc!Table
<1>2. CASE w = lcWork
  BY <1>2 DEF LcTyped, LcMoves
<1>3. CASE \E i \in Lc!Ids : lcWork[i] = "ended" /\ w = [lcWork EXCEPT ![i] = "gone"]
  <2>1. PICK i \in Lc!Ids : lcWork[i] = "ended" /\ w = [lcWork EXCEPT ![i] = "gone"]
    BY <1>3
  <2>2. /\ w \in [Lc!Ids -> LcPhases]
        /\ \A j \in Lc!Ids : w[j] = IF j = i THEN "gone" ELSE lcWork[j]
    BY <2>1 DEF LcTyped, LcPhases
  <2> QED  BY <2>1, <2>2 DEF LcMoves
<1> QED  BY <1>1, <1>2, <1>3

\* Starting a transfer.
LEMMA LcStartTransfer ==
    ASSUME LcInv, NEW c \in Lc!Ids, Lc!Serves(c, Lc!Puts \cup Lc!Gets, "authorized"),
           Lc!StartTransfer(c), UNCHANGED lcWire, LcHandles
    PROVE  LcInv'
<1> DEFINE r == lcCalls[c]
           m == Lc!Manager[r.kind]
<1>1. r.kind \in Lc!Starts /\ r.kind \notin Lc!Adds /\ r.kind \notin Lc!Followups /\ r.at = "authorized"
  BY LcKindFacts DEF Lc!Serves, Lc!Puts, Lc!Gets, Lc!Adds, Lc!Followups
<1>2. /\ LcTyped /\ r.early /\ LcRight(r.kind) /\ r.at \in LcPending
      /\ lcWork[c] = "none" /\ c \notin lcWire /\ ~LcSaid(c, "succeeded") /\ r.kind \notin LcAsks
  BY <1>1, LcStarting
<1>3. PICK w \in Lc!PruneTerminal(m) :
        \/ /\ lcWork' = [w EXCEPT ![c] = "live"]
           /\ Lc!Answers(c, "live") /\ Lc!Records(c, "succeeded")
        \/ lcWork' \in {w, lcWork} /\ Lc!Answers(c, "failed") /\ UNCHANGED lcLog
  BY DEF Lc!StartTransfer
<1>4. /\ w \in [Lc!Ids -> LcPhases]
      /\ \A i \in Lc!Ids : LcMoves(lcWork[i], w[i]) /\ (lcWork[i] = "none" => w[i] = "none")
  BY <1>2, LcPrune
<1> HIDE DEF r, m
<1>5. CASE /\ lcWork' = [w EXCEPT ![c] = "live"]
           /\ Lc!Answers(c, "live") /\ Lc!Records(c, "succeeded")
  <2>1. /\ lcWork' \in [Lc!Ids -> LcPhases] /\ lcWork'[c] = "live"
        /\ \A i \in Lc!Ids : i # c => lcWork'[i] = w[i]
    BY <1>4, <1>5 DEF LcPhases
  <2>2. \A i \in Lc!Ids : LcMoves(lcWork[i], lcWork'[i])
    BY <1>2, <1>4, <2>1 DEF LcMoves
  <2>3. \A i \in Lc!Ids : lcWork[i] = "none" /\ lcWork'[i] # "none" => i = c /\ r.kind \in Lc!Starts
    BY <1>1, <1>4, <2>1
  <2>4. /\ lcLog \subseteq lcLog' /\ LcSaid(c, "succeeded")'
        /\ \A i \in Lc!Ids : i # c /\ LcSaid(i, "succeeded")' => LcSaid(i, "succeeded")
    BY <1>5 DEF Lc!Records, LcSaid
  <2>5. "live" \in (LcPhases \ {"none"}) \cup {"failed"}
    BY DEF LcPhases
  <2> QED  BY <1>1, <1>2, <1>5, <2>1, <2>2, <2>3, <2>4, <2>5, LcAnswered DEF r, LcHandles
<1>6. CASE lcWork' \in {w, lcWork} /\ Lc!Answers(c, "failed") /\ UNCHANGED lcLog
  <2>1. /\ lcWork' \in [Lc!Ids -> LcPhases] /\ lcWork'[c] = "none" /\ ~LcMade(c)'
        /\ \A i \in Lc!Ids : lcWork[i] = "none" => lcWork'[i] = "none"
    BY <1>2, <1>4, <1>6 DEF LcMade, LcTyped
  <2>2. \A i \in Lc!Ids : LcMoves(lcWork[i], lcWork'[i])
    BY <1>4, <1>6 DEF LcMoves
  <2>3. /\ lcLog \subseteq lcLog' /\ ~LcSaid(c, "succeeded")'
        /\ \A i \in Lc!Ids : i # c /\ LcSaid(i, "succeeded")' => LcSaid(i, "succeeded")
    BY <1>2, <1>6 DEF LcSaid
  <2> QED  BY <1>1, <1>2, <1>6, <2>1, <2>2, <2>3, LcAnswered DEF r, LcHandles
<1> QED  BY <1>3, <1>5, <1>6

\* Adding a listener.
LEMMA LcAddListener ==
    ASSUME LcInv, NEW c \in Lc!Ids, Lc!Serves(c, Lc!Adds, "authorized"),
           Lc!AddListener(c), UNCHANGED lcWire, LcHandles
    PROVE  LcInv'
<1> DEFINE r == lcCalls[c]
<1>1. r.kind \in Lc!Starts /\ r.kind \notin Lc!Followups /\ r.at = "authorized"
  BY LcKindFacts DEF Lc!Serves, Lc!Adds, Lc!Followups
<1>2. /\ LcTyped /\ r.early /\ LcRight(r.kind) /\ r.at \in LcPending
      /\ lcWork[c] = "none" /\ c \notin lcWire /\ ~LcSaid(c, "succeeded") /\ r.kind \notin LcAsks
  BY <1>1, LcStarting
<1>3. \/ /\ lcWork' = [lcWork EXCEPT ![c] = "live"]
         /\ Lc!Answers(c, "live") /\ Lc!Records(c, "succeeded")
      \/ UNCHANGED <<lcWork, lcLog>> /\ Lc!Answers(c, "failed")
  BY DEF Lc!AddListener
<1> HIDE DEF r
<1>5. CASE /\ lcWork' = [lcWork EXCEPT ![c] = "live"]
           /\ Lc!Answers(c, "live") /\ Lc!Records(c, "succeeded")
  <2>1. /\ lcWork' \in [Lc!Ids -> LcPhases] /\ lcWork'[c] = "live"
        /\ \A i \in Lc!Ids : i # c => lcWork'[i] = lcWork[i]
    BY <1>2, <1>5 DEF LcPhases, LcTyped
  <2>2. \A i \in Lc!Ids : LcMoves(lcWork[i], lcWork'[i])
    BY <1>2, <2>1 DEF LcMoves
  <2>3. \A i \in Lc!Ids : lcWork[i] = "none" /\ lcWork'[i] # "none" => i = c /\ r.kind \in Lc!Starts
    BY <1>1, <2>1
  <2>4. /\ lcLog \subseteq lcLog' /\ LcSaid(c, "succeeded")'
        /\ \A i \in Lc!Ids : i # c /\ LcSaid(i, "succeeded")' => LcSaid(i, "succeeded")
    BY <1>5 DEF Lc!Records, LcSaid
  <2>5. "live" \in (LcPhases \ {"none"}) \cup {"failed"}
    BY DEF LcPhases
  <2> QED  BY <1>1, <1>2, <1>5, <2>1, <2>2, <2>3, <2>4, <2>5, LcAnswered DEF r, LcHandles
<1>6. CASE UNCHANGED <<lcWork, lcLog>> /\ Lc!Answers(c, "failed")
  <2>1. lcWork' \in [Lc!Ids -> LcPhases] /\ ~LcMade(c)'
    BY <1>2, <1>6 DEF LcMade, LcTyped
  <2>2. \A i \in Lc!Ids : LcMoves(lcWork[i], lcWork'[i])
    BY <1>6 DEF LcMoves
  <2>3. ~LcSaid(c, "succeeded")' /\ \A i \in Lc!Ids : LcSaid(i, "succeeded")' => LcSaid(i, "succeeded")
    BY <1>2, <1>6 DEF LcSaid
  <2> QED  BY <1>1, <1>2, <1>6, <2>1, <2>2, <2>3, LcAnswered DEF r, LcHandles
<1> QED  BY <1>3, <1>5, <1>6

\* The present phase and a failure are true answers.
LEMMA LcSaysNow ==
    ASSUME NEW v, NEW kind
    PROVE  LcStillTrue(v, v, kind) /\ LcStillTrue("failed", v, kind)
BY DEF LcStillTrue

\* A request that names something: what it names moves on, or nothing does.
LEMMA LcAsked ==
    ASSUME LcInv, NEW c \in Lc!Ids, lcCalls[c].kind \in LcAsks, lcCalls[c].at \in LcPending,
           NEW v, LcMoves(lcWork[lcCalls[c].of], v), v \in LcPhases,
           lcWork[lcCalls[c].of] = "none" => v = "none",
           lcWork' = [lcWork EXCEPT ![lcCalls[c].of] = v],
           NEW ans \in (LcPhases \ {"none"}) \cup {"failed"},
           LcStillTrue(ans, v, lcCalls[lcCalls[c].of].kind),
           Lc!Answers(c, ans),
           lcLog' = lcLog \/ \E result : Lc!Records(c, result),
           lcCalls[c].kind \in Lc!Followups /\ ans # "failed" =>
             lcCalls[c].early /\ LcRight(lcCalls[c].kind),
           UNCHANGED lcWire, LcHandles
    PROVE  LcInv'
<1> DEFINE r == lcCalls[c]
<1>1. LcTyped /\ r.of \in Lc!Ids /\ r.kind \notin Lc!Starts
  BY LcKindFacts DEF LcInv, LcRequest
<1>2. /\ lcWork' \in [Lc!Ids -> LcPhases] /\ lcWork'[r.of] = v
      /\ \A i \in Lc!Ids : i # r.of => lcWork'[i] = lcWork[i]
  BY <1>1 DEF LcTyped
<1>3. \A i \in Lc!Ids : LcMoves(lcWork[i], lcWork'[i]) /\ (lcWork[i] = "none" => lcWork'[i] = "none")
  BY <1>2 DEF LcMoves
<1>4. /\ lcLog \subseteq lcLog'
      /\ \A i \in Lc!Ids : i # c /\ LcSaid(i, "succeeded")' => LcSaid(i, "succeeded")
  BY DEF LcSaid, Lc!Records
<1>5. LcStillTrue(ans, lcWork'[r.of], lcCalls[r.of].kind)
  BY <1>2
<1> QED  BY <1>1, <1>2, <1>3, <1>4, <1>5, LcAnswered DEF LcHandles

\* The same, where nothing moves.
LEMMA LcAskedOnly ==
    ASSUME LcInv, NEW c \in Lc!Ids, lcCalls[c].kind \in LcAsks, lcCalls[c].at \in LcPending,
           UNCHANGED lcWork, Lc!Answers(c, "failed"),
           lcLog' = lcLog \/ \E result : Lc!Records(c, result), UNCHANGED lcWire, LcHandles
    PROVE  LcInv'
<1>1. LcTyped /\ lcCalls[c].of \in Lc!Ids
  BY DEF LcInv, LcRequest
<1>2. /\ lcWork' = [lcWork EXCEPT ![lcCalls[c].of] = lcWork[lcCalls[c].of]]
      /\ lcWork[lcCalls[c].of] \in LcPhases /\ LcMoves(lcWork[lcCalls[c].of], lcWork[lcCalls[c].of])
  BY <1>1 DEF LcTyped, LcMoves
<1> QED  BY <1>2, LcAsked, LcSaysNow

\* What a table keeps.
LEMMA LcKnown ==
    ASSUME NEW c, Lc!Known(c)
    PROVE  lcWork[lcCalls[c].of] \in {"live", "cancelling", "ended"}
BY DEF Lc!Known, Lc!Kept

\* Asking for a transfer.
LEMMA LcTransferStatus ==
    ASSUME LcInv, NEW c \in Lc!Ids, Lc!TransferStatus(c), UNCHANGED lcWire, LcHandles
    PROVE  LcInv'
<1> DEFINE id == lcCalls[c].of
<1>1. /\ lcCalls[c].kind \in LcAsks /\ lcCalls[c].kind \notin Lc!Followups /\ lcCalls[c].at \in LcPending
      /\ LcTyped /\ id \in Lc!Ids
  BY LcKindFacts DEF Lc!TransferStatus, Lc!Serves, LcPending, LcInv, LcRequest, Lc!Statuses, Lc!Followups
<1>2. CASE Lc!Known(c)
  <2>1. lcWork[id] \in {"live", "cancelling", "ended"} /\ Lc!Answers(c, lcWork[id])
    BY <1>2, LcKnown DEF Lc!TransferStatus
  <2>2. lcWork' = [lcWork EXCEPT ![id] = lcWork[id]] /\ lcLog' = lcLog
    BY <1>1 DEF LcTyped, Lc!TransferStatus
  <2>3. lcWork[id] \in LcPhases /\ LcMoves(lcWork[id], lcWork[id])
    BY <2>1 DEF LcMoves, LcPhases
  <2> QED  BY <1>1, <2>1, <2>2, <2>3, LcAsked, LcSaysNow
<1>3. CASE ~Lc!Known(c)
  BY <1>1, <1>3, LcAskedOnly DEF Lc!TransferStatus
<1> QED  BY <1>2, <1>3

\* Cancelling marks what is live, and leaves what is not.
LEMMA LcCancelIn ==
    ASSUME LcInv, NEW c \in Lc!Ids, Lc!Serves(c, Lc!Cancels, "sent"),
           NEW marked, marked = lcWork[lcCalls[c].of] \/ (lcWork[lcCalls[c].of] = "live" /\ marked = "cancelling"),
           Lc!CancelIn(c, marked), UNCHANGED lcWire, LcHandles
    PROVE  LcInv'
<1> DEFINE id == lcCalls[c].of
<1>1. /\ lcCalls[c].kind \in LcAsks /\ lcCalls[c].kind \notin Lc!Followups /\ lcCalls[c].at \in LcPending
      /\ LcTyped /\ id \in Lc!Ids
  BY LcKindFacts DEF Lc!Serves, LcPending, LcInv, LcRequest, Lc!Cancels, Lc!Followups
<1>2. lcLog' = lcLog
  BY DEF Lc!CancelIn
<1>3. CASE /\ Lc!Known(c)
           /\ lcWork' = [lcWork EXCEPT ![id] = marked]
           /\ Lc!Answers(c, marked) \/ Lc!Answers(c, "failed")
  <2>1. lcWork[id] \in {"live", "cancelling", "ended"}
    BY <1>3, LcKnown
  <2>2. LcMoves(lcWork[id], marked) /\ marked \in LcPhases /\ marked # "none"
    BY <2>1 DEF LcMoves, LcPhases
  <2> QED  BY <1>1, <1>2, <1>3, <2>1, <2>2, LcAsked, LcSaysNow
<1>4. CASE ~Lc!Known(c) /\ UNCHANGED lcWork /\ Lc!Answers(c, "failed")
  BY <1>1, <1>2, <1>4, LcAskedOnly
<1> QED  BY <1>3, <1>4 DEF Lc!CancelIn

\* Removing a listener, with or without a record.
LEMMA LcRemoveListener ==
    ASSUME LcInv, NEW c \in Lc!Ids, Lc!Serves(c, Lc!Removes, "sent"),
           Lc!RemoveListener(c), UNCHANGED lcWire, LcHandles
    PROVE  LcInv'
<1> DEFINE id == lcCalls[c].of
<1>1. /\ lcCalls[c].kind \in LcAsks /\ lcCalls[c].kind \notin Lc!Followups /\ lcCalls[c].at \in LcPending
      /\ LcTyped /\ id \in Lc!Ids
  BY LcKindFacts DEF Lc!Serves, LcPending, LcInv, LcRequest, Lc!Removes, Lc!Followups
<1>2. CASE /\ lcWork[id] = "live"
           /\ lcWork' = [lcWork EXCEPT ![id] = "ended"]
           /\ Lc!Answers(c, "ended")
           /\ Lc!Records(c, "cancelled") \/ UNCHANGED lcLog
  <2>1. LcMoves(lcWork[id], "ended") /\ "ended" \in LcPhases
    BY <1>2 DEF LcMoves, LcPhases
  <2> QED  BY <1>1, <1>2, <2>1, LcAsked, LcSaysNow
<1>3. CASE UNCHANGED <<lcWork, lcLog>> /\ Lc!Answers(c, "failed")
  BY <1>1, <1>3, LcAskedOnly
<1> QED  BY <1>2, <1>3 DEF Lc!RemoveListener

\* A follow-up on a shell task.
LEMMA LcShellFollowup ==
    ASSUME LcInv, NEW c \in Lc!Ids, Lc!ShellFollowup(c), UNCHANGED lcWire, LcHandles
    PROVE  LcInv'
<1> DEFINE id == lcCalls[c].of
           done == IF lcCalls[c].kind = "shell_cancel" /\ lcWork[id] = "live" THEN "cancelling" ELSE lcWork[id]
           told == IF lcCalls[c].kind = "shell_cancel" THEN "cancelling"
                   ELSE IF done = "cancelling" THEN "live" ELSE done
<1>1. /\ lcCalls[c].kind \in LcAsks /\ lcCalls[c].at \in LcPending /\ LcTyped /\ id \in Lc!Ids
      /\ lcCalls[c].early /\ LcRight(lcCalls[c].kind)
  BY LcKindFacts DEF Lc!ShellFollowup, Lc!Serves, LcPending, LcInv, LcRequest
<1>2. CASE /\ Lc!Known(c) /\ lcDevice.online
           /\ lcWork' = [lcWork EXCEPT ![id] = done]
           /\ \/ Lc!Answers(c, told) /\ Lc!Records(c, "succeeded")
              \/ Lc!Answers(c, "failed") /\ Lc!Records(c, "failed")
  <2>1. lcWork[id] \in {"live", "cancelling", "ended"}
    BY <1>2, LcKnown
  <2>2. LcMoves(lcWork[id], done) /\ done \in LcPhases /\ done # "none"
    BY <2>1 DEF LcMoves, LcPhases
  <2>3. told \in LcPhases \ {"none"} /\ LcStillTrue(told, done, lcCalls[id].kind)
    BY <2>1, <2>2 DEF LcStillTrue, LcPhases
  <2> HIDE DEF done, told
  <2> QED  BY <1>1, <1>2, <2>1, <2>2, <2>3, LcAsked, LcSaysNow
<1>3. CASE UNCHANGED lcWork /\ Lc!Answers(c, "failed") /\ Lc!Records(c, "failed")
  BY <1>1, <1>3, LcAskedOnly
<1> QED  BY <1>2, <1>3 DEF Lc!ShellFollowup

\* A shell start goes to the Host.
LEMMA LcShellSends ==
    ASSUME LcInv, NEW c \in Lc!Ids, Lc!Serves(c, {"shell_start"}, "authorized"),
           lcCalls' = [lcCalls EXCEPT ![c].at = "remote"], lcWire' = lcWire \cup {c},
           UNCHANGED <<lcWork, lcLog>>, LcHandles
    PROVE  LcInv'
<1> DEFINE r == lcCalls[c]
           n == [r EXCEPT !.at = "remote"]
<1>1. /\ LcTyped /\ r.kind = "shell_start" /\ r.at = "authorized" /\ LcWork(c) /\ LcRequest(c)
      /\ c <= lcSent /\ r \in LcRequests
  BY LcSent DEF LcInv, Lc!Serves
<1>2. /\ r.early /\ LcRight(r.kind) /\ lcWork[c] = "none" /\ ~LcSaid(c, "succeeded")
      /\ r.kind \notin LcAsks /\ r.kind \in Lc!Starts /\ r.kind \notin Lc!Adds /\ r.kind \in LcKinds
  BY <1>1, LcStarting, LcKindFacts
<1>3. /\ n \in LcRequests /\ n.by = r.by /\ n.kind = r.kind /\ n.of = r.of /\ n.lost = r.lost
      /\ n.early = r.early /\ n.answer = r.answer /\ n.at = "remote"
  BY <1>1 DEF LcRequests, LcPending
<1>4. lcCalls' = [lcCalls EXCEPT ![c] = n] /\ lcCalls'[c] = n
  BY <1>1 DEF LcTyped
<1> HIDE DEF n
<1>5. \A k : LcRight(k)' <=> LcRight(k)
  BY DEF LcRight, LcHandles
<1>6. r.answer = "none" /\ (r.lost \/ \E a \in Callers : lcTool'[a].call = c)
  BY <1>1 DEF LcRequest, LcHandles
<1>7. /\ lcWork' \in [Lc!Ids -> LcPhases]
      /\ \A i \in Lc!Ids : LcMoves(lcWork[i], lcWork'[i])
      /\ \A i \in Lc!Ids : i # c => (i \in lcWire' <=> i \in lcWire)
  BY <1>1 DEF LcTyped, LcMoves
<1>8. ~LcSaid(c, "succeeded")' /\ \A i \in Lc!Ids : LcSaid(i, "succeeded")' => LcSaid(i, "succeeded")
  BY <1>2 DEF LcSaid
<1>9. \A i \in Lc!Ids : lcWork'[i] \in {"ended", "gone"} => i \in lcEnded'
  BY DEF LcInv, LcWork, LcHandles
<1> DEFINE s == lcCalls'[c]
<1>10. /\ s.kind = "shell_start" /\ s.early /\ s.at = "remote" /\ s.answer = "none" /\ s.kind \in Lc!Starts
       /\ s.kind \in LcKinds /\ s.kind \notin LcAsks /\ s.kind \notin Lc!Adds /\ LcRight(s.kind)
       /\ s.lost \/ \E a \in Callers : lcTool'[a].call = c
  BY <1>1, <1>2, <1>3, <1>4, <1>6
<1> HIDE DEF s
<1>11. lcWork'[c] = "none"
  BY <1>2
<1>12. LcWork(c)'
  BY <1>10, <1>11, <1>5, <1>8 DEF LcWork, s
<1>13. LcRequest(c)'
  BY <1>10, <1>11, <1>5, LcKindFacts DEF LcRequest, s
<1> QED  BY <1>1, <1>2, <1>3, <1>4, <1>7, <1>8, <1>9, <1>12, <1>13, LcTask DEF LcHandles

\* A shell start is answered, or given up.
LEMMA LcShellAnswers ==
    ASSUME LcInv, NEW c \in Lc!Ids, Lc!Serves(c, {"shell_start"}, "remote") \/ Lc!Serves(c, {"shell_start"}, "authorized"),
           NEW ans \in {"live", "failed"}, Lc!Answers(c, ans),
           ans = "live" => lcWork[c] # "none" /\ Lc!Records(c, "succeeded"),
           ans = "failed" => Lc!Records(c, "failed"),
           UNCHANGED <<lcWork, lcWire>>, LcHandles
    PROVE  LcInv'
<1> DEFINE r == lcCalls[c]
<1>1. /\ LcTyped /\ r.kind = "shell_start" /\ r.at \in {"remote", "authorized"} /\ LcWork(c) /\ LcRequest(c)
  BY DEF LcInv, Lc!Serves
<1>2. r.kind \in Lc!Starts /\ r.kind \notin LcAsks /\ r.kind \notin Lc!Adds /\ r.kind \notin Lc!Followups /\ r.at \in LcPending
  BY <1>1, LcKindFacts DEF LcPending
<1>3. r.early /\ LcRight(r.kind) /\ (c \in lcWire => lcWork'[c] = "none")
  BY <1>1 DEF LcRequest, LcWork
<1>4. /\ lcLog \subseteq lcLog' /\ (ans = "live" => LcSaid(c, "succeeded")') /\ (ans = "failed" => LcSaid(c, "failed")')
      /\ \A i \in Lc!Ids : i # c /\ LcSaid(i, "succeeded")' => LcSaid(i, "succeeded")
      /\ ans = "failed" /\ LcSaid(c, "succeeded")' => LcSaid(c, "succeeded")
  BY DEF Lc!Records, LcSaid
<1>5. LcSaid(c, "succeeded")' => lcWork'[c] # "none"
  BY <1>1, <1>2, <1>4 DEF LcWork
<1>6. lcWork' \in [Lc!Ids -> LcPhases] /\ \A i \in Lc!Ids : LcMoves(lcWork[i], lcWork'[i])
  BY <1>1 DEF LcTyped, LcMoves
<1>7. ans \in (LcPhases \ {"none"}) \cup {"failed"}
  BY DEF LcPhases
<1> QED  BY <1>1, <1>2, <1>3, <1>4, <1>5, <1>6, <1>7, LcAnswered DEF LcHandles

\* Every handler keeps the invariant.
LEMMA LcHandle ==
    ASSUME LcInv, NEW c \in Lc!Ids, Lc!Handle(c)
    PROVE  LcInv'
<1>1. LcHandles
  BY DEF Lc!Handle, LcHandles
<1>2. ASSUME Lc!FilePut(c) \/ Lc!FileGet(c) \/ Lc!DirectoryPut(c) \/ Lc!DirectoryGet(c), UNCHANGED lcWire PROVE LcInv'
  BY <1>1, <1>2, LcStartTransfer DEF Lc!FilePut, Lc!FileGet, Lc!DirectoryPut, Lc!DirectoryGet, Lc!Serves, Lc!Puts, Lc!Gets
<1>3. ASSUME Lc!TransferStatus(c), UNCHANGED lcWire PROVE LcInv'
  BY <1>1, <1>3, LcTransferStatus
<1>4. ASSUME Lc!FileCancel(c), UNCHANGED lcWire PROVE LcInv'
  BY <1>1, <1>4, LcCancelIn DEF Lc!FileCancel, Lc!Serves, Lc!Cancels
<1>5. ASSUME Lc!DirectoryCancel(c), UNCHANGED lcWire PROVE LcInv'
  BY <1>1, <1>5, LcCancelIn DEF Lc!DirectoryCancel, Lc!Serves, Lc!Cancels
<1>6. ASSUME Lc!ForwardAdd(c) \/ Lc!Socks5Add(c) \/ Lc!HttpConnectAdd(c), UNCHANGED lcWire PROVE LcInv'
  BY <1>1, <1>6, LcAddListener DEF Lc!ForwardAdd, Lc!Socks5Add, Lc!HttpConnectAdd, Lc!Serves, Lc!Adds
<1>7. ASSUME Lc!ForwardRemove(c) \/ Lc!Socks5Remove(c) \/ Lc!HttpConnectRemove(c), UNCHANGED lcWire PROVE LcInv'
  BY <1>1, <1>7, LcRemoveListener DEF Lc!ForwardRemove, Lc!Socks5Remove, Lc!HttpConnectRemove, Lc!Serves, Lc!Removes
<1>8. ASSUME Lc!ShellFollowup(c), UNCHANGED lcWire PROVE LcInv'
  BY <1>1, <1>8, LcShellFollowup
<1>9. ASSUME Lc!ShellStart(c) PROVE LcInv'
  BY <1>1, <1>9, LcShellSends, LcShellAnswers DEF Lc!ShellStart
<1> QED  BY <1>2, <1>3, <1>4, <1>5, <1>6, <1>7, <1>8, <1>9 DEF Lc!Handle

\* What has ended is in the history.
LEMMA LcEndedKept ==
    ASSUME LcInv
    PROVE  \A i \in Lc!Ids : lcWork[i] \in {"ended", "gone"} => i \in lcEnded
BY DEF LcInv, LcWork

\* A request is authorized, or refused.
LEMMA LcAuthorize ==
    ASSUME LcInv, NEW c \in Lc!Ids, Lc!Authorize(c)
    PROVE  LcInv'
<1> DEFINE r == lcCalls[c]
<1>1. /\ LcTyped /\ r.kind \in Lc!Starts \cup Lc!Followups /\ r.at = "sent" /\ LcWork(c) /\ LcRequest(c)
      /\ c <= lcSent /\ r \in LcRequests
      /\ UNCHANGED <<lcUse, lcDevice, lcTool, lcSent, lcWork, lcWire, lcTold, lcEnded, lcLog>>
  BY LcSent DEF LcInv, Lc!Serves, Lc!Authorize
<1>2. ~LcMade(c) /\ r.answer = "none" /\ r.kind \in LcKinds /\ lcWork[c] = "none" /\ c \notin lcWire
  BY <1>1, LcKindFacts DEF LcWork, LcRequest, LcMade
<1>3. r.kind \in Lc!Starts => ~LcSaid(c, "succeeded")
  BY <1>1, <1>2 DEF LcWork
<1>4. /\ lcWork' \in [Lc!Ids -> LcPhases] /\ \A i \in Lc!Ids : LcMoves(lcWork[i], lcWork'[i])
      /\ \A i \in Lc!Ids : LcSaid(i, "succeeded")' <=> LcSaid(i, "succeeded")
      /\ \A i \in Lc!Ids : lcWork'[i] \in {"ended", "gone"} => i \in lcEnded'
      /\ ~LcMade(c)' /\ \A k : LcRight(k)' <=> LcRight(k)
  BY <1>1, <1>2, LcEndedKept DEF LcTyped, LcMoves, LcSaid, LcMade, LcRight
<1>5. CASE /\ Lc!Allowed(r.kind)
           /\ lcCalls' = [lcCalls EXCEPT ![c].at = "authorized", ![c].early = lcDevice.standing = "active"]
  <2> DEFINE n == [r EXCEPT !.at = "authorized", !.early = TRUE]
             s == lcCalls'[c]
  <2>1. LcRight(r.kind) /\ lcDevice.standing = "active"
    BY <1>1, <1>5, LcAllowed
  <2>2. /\ n \in LcRequests /\ n.by = r.by /\ n.kind = r.kind /\ n.of = r.of /\ n.lost = r.lost
        /\ n.early /\ n.answer = r.answer /\ n.at = "authorized"
    BY <1>1 DEF LcRequests, LcPending
  <2>3. lcCalls' = [lcCalls EXCEPT ![c] = n] /\ s = n
    <3>1. (lcDevice.standing = "active") = TRUE
      BY <2>1
    <3> QED  BY <1>1, <1>5, <3>1 DEF LcTyped
  <2>4. /\ s.kind = r.kind /\ s.early /\ s.at = "authorized" /\ s.answer = "none" /\ LcRight(s.kind) /\ s.of = r.of
        /\ s.lost \/ \E a \in Callers : lcTool'[a].call = c
    BY <1>1, <1>2, <2>1, <2>2, <2>3 DEF LcRequest
  <2>5. s.kind \in LcAsks => s.of \in Lc!Ids /\ <<s.of, "succeeded">> \in lcLog'
    BY <1>1, <2>4 DEF LcRequest, LcSaid
  <2>6. lcWork'[c] = "none" /\ c \notin lcWire'
    BY <1>1, <1>2
  <2> HIDE DEF n, s
  <2>7. LcWork(c)'
    BY <1>3, <1>4, <2>4, <2>6 DEF LcWork, s
  <2>8. LcRequest(c)'
    BY <1>1, <1>2, <1>4, <2>4, <2>5 DEF LcRequest, LcSaid, LcStillTrue, s
  <2> QED  BY <1>1, <1>4, <2>2, <2>3, <2>7, <2>8, LcTask DEF n
<1>6. CASE Lc!Answers(c, "failed")
  <2>1. lcEnded' = lcEnded \cup {i \in Lc!Ids : lcWork'[i] = "ended"}
    BY <1>1, <1>4
  <2>2. LcStillTrue("failed", lcWork'[r.of], lcCalls[r.of].kind) /\ r.at \in LcPending
    BY <1>1 DEF LcStillTrue, LcPending
  <2> QED  BY <1>1, <1>2, <1>3, <1>4, <1>6, <2>1, <2>2, LcAnswered
<1> QED  BY <1>5, <1>6 DEF Lc!Authorize

\* What was made moves on by itself.
LEMMA LcWorks ==
    ASSUME LcInv, NEW c \in Lc!Ids, LcMade(c), NEW v \in LcPhases, LcMoves(lcWork[c], v),
           lcWork' = [lcWork EXCEPT ![c] = v], lcWire' = lcWire \ (IF lcWork[c] = "none" THEN {c} ELSE {}),
           v \in {"ended", "gone"} => c \in lcEnded', lcEnded \subseteq lcEnded',
           UNCHANGED <<lcDevice, lcTool, lcCalls, lcSent, lcTold, lcLog>>
    PROVE  LcInv'
<1> DEFINE r == lcCalls[c]
<1>1. LcTyped /\ LcWork(c) /\ LcRequest(c) /\ c <= lcSent /\ r \in LcRequests
  BY LcSent DEF LcInv
<1>2. /\ lcWork' \in [Lc!Ids -> LcPhases] /\ lcWork'[c] = v
      /\ \A i \in Lc!Ids : i # c => lcWork'[i] = lcWork[i]
  BY <1>1 DEF LcTyped
<1>3. /\ \A i \in Lc!Ids : LcMoves(lcWork[i], lcWork'[i])
      /\ \A i \in Lc!Ids : i # c => (i \in lcWire' <=> i \in lcWire)
      /\ \A i \in Lc!Ids : lcWork'[i] \in {"ended", "gone"} => i \in lcEnded'
  BY <1>2, LcEndedKept DEF LcMoves
<1>4. lcCalls' = [lcCalls EXCEPT ![c] = r]
  BY <1>1 DEF LcTyped
<1>5. \A i, x : LcSaid(i, x)' <=> LcSaid(i, x)
  BY DEF LcSaid
<1>6. (\A k : LcRight(k)' <=> LcRight(k)) /\ (LcGivenUp(c)' <=> LcGivenUp(c))
  BY <1>5 DEF LcRight, LcGivenUp
<1>7. c \notin lcWire' /\ (lcWork[c] # "none" => v # "none")
  BY <1>1, <1>2 DEF LcWork, LcMoves
<1>8. LcWork(c)'
  BY <1>1, <1>2, <1>3, <1>5, <1>6, <1>7, LcKindFacts DEF LcWork, LcMade
<1>9. LcRequest(c)'
  <2>1. r.kind \in Lc!Starts /\ r.kind \notin LcAsks /\ r.kind \notin Lc!Followups /\ r.at \notin {"sent", "authorized"}
    BY <1>1, LcKindFacts DEF LcWork, LcRequest
  <2>2. r.at = "answered" =>
          IF r.answer = "failed" THEN LcGivenUp(c) ELSE r.answer = "live" /\ lcWork[c] # "none" /\ LcSaid(c, "succeeded")
    BY <1>1, <2>1 DEF LcRequest
  <2> QED  BY <1>1, <1>2, <1>5, <1>6, <1>7, <2>1, <2>2 DEF LcRequest
<1> QED  BY <1>1, <1>2, <1>3, <1>4, <1>5, <1>8, <1>9, LcTask

\* A worker or a task comes to its end.
LEMMA LcWorkEnds ==
    ASSUME LcInv, NEW c \in Lc!Ids, Lc!WorkEnds(c)
    PROVE  LcInv'
<1>1. LcMade(c) /\ LcMoves(lcWork[c], "ended") /\ "ended" \in LcPhases /\ lcWire' = lcWire \ {}
  BY DEF Lc!WorkEnds, LcMade, LcMoves, LcPhases
<1> QED  BY <1>1, LcWorks DEF Lc!WorkEnds

\* A worker takes its transfer back: nothing was said of it that this changes.
LEMMA LcWorkGoesOn ==
    ASSUME LcInv, NEW c \in Lc!Ids, Lc!WorkGoesOn(c)
    PROVE  LcInv'
<1>1. /\ lcWork[c] = "cancelling" /\ lcWork' = [lcWork EXCEPT ![c] = "live"]
      /\ lcCalls[c].kind # "shell_start"
      /\ UNCHANGED <<lcDevice, lcTool, lcCalls, lcSent, lcWire, lcTold, lcEnded, lcLog>>
  BY DEF Lc!WorkGoesOn, Lc!Puts, Lc!Gets
<1>2. LcTyped /\ lcWork'[c] = "live" /\ \A i \in Lc!Ids : i # c => lcWork'[i] = lcWork[i]
  BY <1>1 DEF LcInv, LcTyped
<1>3. LcTyped'
  BY <1>1, <1>2 DEF LcTyped, LcPhases
<1>4. /\ \A k : LcRight(k)' <=> LcRight(k)
      /\ \A i, x : LcSaid(i, x)' <=> LcSaid(i, x)
  BY <1>1 DEF LcRight, LcSaid
<1>5. /\ \A i \in Lc!Ids : lcWork'[i] = "none" <=> lcWork[i] = "none"
      /\ \A i \in Lc!Ids : lcWork'[i] \in {"ended", "gone"} <=> lcWork[i] \in {"ended", "gone"}
      /\ \A i \in Lc!Ids : \A said :
           LcStillTrue(said, lcWork[i], lcCalls[i].kind) => LcStillTrue(said, lcWork'[i], lcCalls[i].kind)
  BY <1>1, <1>2 DEF LcStillTrue
<1>6. ASSUME NEW i \in Lc!Ids PROVE LcFresh(i)' /\ LcTold(i)' /\ LcWork(i)' /\ LcRequest(i)'
  <2>1. LcFresh(i) /\ LcTold(i) /\ LcWork(i) /\ LcRequest(i)
    BY DEF LcInv
  <2>2. (LcMade(i)' <=> LcMade(i)) /\ (LcGivenUp(i)' <=> LcGivenUp(i))
    BY <1>1, <1>4, <1>5 DEF LcMade, LcGivenUp
  <2>3. LcFresh(i)' /\ LcTold(i)'
    BY <1>1, <1>4, <1>5, <2>1 DEF LcFresh, LcTold
  <2>4. LcWork(i)'
    BY <1>1, <1>4, <1>5, <2>1, <2>2 DEF LcWork
  <2>5. LcRequest(i)'
    BY SMTT(30), <1>1, <1>4, <1>5, <2>1, <2>2 DEF LcRequest
  <2> QED  BY <2>3, <2>4, <2>5
<1>7. \A a \in Callers : LcCaller(a, lcTool[a])'
  BY <1>1, <1>4, <1>5 DEF LcInv, LcCaller
<1> QED  BY <1>3, <1>6, <1>7 DEF LcInv

\* The Host takes a shell start, or it is lost with the session.
LEMMA LcHostTakes ==
    ASSUME LcInv, NEW c \in Lc!Ids, Lc!HostTakes(c)
    PROVE  LcInv'
<1>1. LcTyped /\ LcMade(c) /\ lcWork[c] = "none"
  BY DEF Lc!HostTakes, LcMade, LcInv, LcWork
<1>2. \A v \in {"none", "live"} : LcMoves(lcWork[c], v) /\ v \in LcPhases
  BY <1>1 DEF LcMoves, LcPhases
<1>3. \E v \in {"none", "live"} : lcWork' = [lcWork EXCEPT ![c] = v]
  BY <1>1 DEF Lc!HostTakes, LcTyped
<1> QED  BY <1>1, <1>2, <1>3, LcWorks DEF Lc!HostTakes

\* The device changes.
LEMMA LcDeviceChanges ==
    ASSUME LcInv, Lc!DeviceChanges
    PROVE  LcInv'
<1>1. /\ UNCHANGED <<lcUse, lcTool, lcCalls, lcSent, lcWork, lcWire, lcTold, lcEnded, lcLog>>
      /\ LcTyped
  BY DEF Lc!DeviceChanges, LcInv
<1>2. /\ lcDevice' \in [standing : {"active", "revoked"}, online : BOOLEAN, execute : BOOLEAN,
                        roots : BOOLEAN, grant : SUBSET {"read", "write", "tcp_egress", "shell"}]
      /\ lcDevice'.roots = lcDevice.roots /\ lcDevice'.grant = lcDevice.grant
  BY <1>1 DEF Lc!DeviceChanges, LcTyped
<1>3. LcTyped' /\ \A k : LcRight(k)' <=> LcRight(k)
  BY <1>1, <1>2 DEF LcTyped, LcRight
<1>4. \A i, x : LcSaid(i, x)' <=> LcSaid(i, x)
  BY <1>1 DEF LcSaid
<1>5. \A i : (LcMade(i)' <=> LcMade(i)) /\ (LcGivenUp(i)' <=> LcGivenUp(i))
  BY <1>1, <1>4 DEF LcMade, LcGivenUp
<1>6. \A i \in Lc!Ids : LcFresh(i)' /\ LcTold(i)'
  BY <1>1, <1>4 DEF LcInv, LcFresh, LcTold
<1>7. ASSUME NEW i \in Lc!Ids PROVE LcWork(i)' /\ LcRequest(i)'
  <2>1. LcWork(i) /\ LcRequest(i)
    BY DEF LcInv
  <2>2. LcWork(i)'
    BY <1>1, <1>3, <1>4, <1>5, <2>1 DEF LcWork
  <2>3. LcRequest(i)'
    BY SMTT(30), <1>1, <1>3, <1>4, <1>5, <2>1 DEF LcRequest
  <2> QED  BY <2>2, <2>3
<1>8. \A a \in Callers : LcCaller(a, lcTool[a])'
  BY <1>1, <1>4 DEF LcInv, LcCaller
<1> QED  BY <1>3, <1>6, <1>7, <1>8 DEF LcInv

\* A caller that waits for nothing goes on.
LEMMA LcToolGoesOn ==
    ASSUME LcInv, NEW a \in Callers, NEW t \in LcTools, lcTool[a].call = 0, t.call = 0, LcCaller(a, t),
           lcTool' = [lcTool EXCEPT ![a] = t],
           UNCHANGED <<lcDevice, lcCalls, lcSent, lcWork, lcWire, lcTold, lcEnded, lcLog>>
    PROVE  LcInv'
<1>1. /\ LcTyped /\ lcTool' \in [Callers -> LcTools] /\ lcTool'[a] = t
      /\ \A b \in Callers : b # a => lcTool'[b] = lcTool[b]
  BY DEF LcInv, LcTyped
<1>2. LcTyped' /\ \A k : LcRight(k)' <=> LcRight(k)
  BY <1>1 DEF LcTyped, LcRight
<1>3. \A i, x : LcSaid(i, x)' <=> LcSaid(i, x)
  BY DEF LcSaid
<1>4. \A i : (LcMade(i)' <=> LcMade(i)) /\ (LcGivenUp(i)' <=> LcGivenUp(i))
  BY <1>3 DEF LcMade, LcGivenUp
<1>5. \A i \in Lc!Ids : LcFresh(i)' /\ LcTold(i)'
  BY <1>3 DEF LcInv, LcFresh, LcTold
<1>6. ASSUME NEW i \in Lc!Ids PROVE LcWork(i)' /\ LcRequest(i)'
  <2>1. LcWork(i) /\ LcRequest(i) /\ i # 0
    BY FleetAssumption DEF LcInv, Lc!Ids
  <2>2. (\E b \in Callers : lcTool[b].call = i) => \E b \in Callers : lcTool'[b].call = i
    BY <1>1, <2>1
  <2>3. LcWork(i)'
    BY <1>2, <1>3, <1>4, <2>1, <2>2 DEF LcWork
  <2>4. LcRequest(i)'
    BY SMTT(30), <1>2, <1>3, <1>4, <2>1, <2>2 DEF LcRequest
  <2> QED  BY <2>3, <2>4
<1>7. ASSUME NEW b \in Callers PROVE LcCaller(b, lcTool[b])'
  <2>1. LcCaller(b, lcTool'[b])
    BY <1>1 DEF LcInv
  <2> QED  BY <1>3, <2>1 DEF LcCaller
<1> QED  BY <1>2, <1>5, <1>6, <1>7 DEF LcInv

\* What is named was started.
LEMMA LcNamed ==
    ASSUME LcInv, NEW i \in Lc!Named
    PROVE  i \in Lc!Ids /\ LcSaid(i, "succeeded")
<1>1. i \in Lc!Ids
  BY FleetAssumption DEF Lc!Named, LcInv, LcTyped, Lc!Ids
<1> QED  BY <1>1 DEF Lc!Named, LcInv, LcTold, LcWork

\* A tool call begins.
LEMMA LcBegins ==
    ASSUME LcInv, NEW a \in Callers, NEW at \in {"probing", "running"}, NEW items \in Seq(LcItems),
           Lc!Begins(a, at, items),
           \/ \A i \in 1 .. Len(items) : items[i].kind \in Lc!Starts
           \/ \A i \in 1 .. Len(items) : items[i].kind \in LcAsks /\ items[i].of \in Lc!Named
    PROVE  LcInv'
<1> DEFINE t == [Lc!NoTool EXCEPT !.at = at, !.items = items]
<1>1. t \in LcTools /\ t.call = 0 /\ t.items = items /\ t.got = <<>> /\ Lc!NoTool.call = 0
  <2>1. Lc!NoTool \in LcTools /\ Lc!NoTool.call = 0 /\ Lc!NoTool.got = <<>>
    BY DEF LcTools, Lc!NoTool
  <2> QED  BY <2>1 DEF LcTools
<1>2. /\ lcTool' = [lcTool EXCEPT ![a] = t] /\ lcTool[a].call = 0
      /\ UNCHANGED <<lcDevice, lcCalls, lcSent, lcWork, lcWire, lcTold, lcEnded, lcLog>>
  BY <1>1 DEF Lc!Begins
<1> HIDE DEF t
<1>3. Len(t.got) = 0 /\ Len(items) \in Nat
  BY <1>1
<1>4. \A i \in 1 .. Len(items) : items[i].kind \in LcAsks =>
        /\ items[i].of \in Lc!Ids /\ LcSaid(items[i].of, "succeeded")
        /\ \A j \in 1 .. Len(items) : items[j].kind \in LcAsks
  BY LcNamed, LcKindFacts
<1>5. LcCaller(a, t)
  BY <1>1, <1>3, <1>4 DEF LcCaller
<1> QED  BY <1>1, <1>2, <1>5, LcToolGoesOn

\* The lists of items.
LEMMA LcBatches ==
    ASSUME NEW kinds, kinds \subseteq Lc!Starts, NEW items \in Lc!BatchesOf(kinds)
    PROVE  items \in Seq(LcItems) /\ \A i \in 1 .. Len(items) : items[i].kind \in Lc!Starts
<1>0. PICK n \in 1 .. MaxBatch : items \in {[i \in 1 .. n |-> [kind |-> k[i], of |-> i]] : k \in [1 .. n -> kinds]}
  BY DEF Lc!BatchesOf
<1>1. PICK k \in [1 .. n -> kinds] : items = [i \in 1 .. n |-> [kind |-> k[i], of |-> i]]
  BY <1>0
<1>2. n \in Nat
  BY FleetAssumption
<1>3. \A i \in 1 .. n : k[i] \in LcKinds /\ k[i] \in Lc!Starts /\ i \in Nat
  BY <1>2, LcKindFacts
<1>4. items \in [1 .. n -> LcItems]
  BY <1>1, <1>3 DEF LcItems
<1>5. items \in Seq(LcItems) /\ Len(items) = n
  BY <1>2, <1>4
<1> QED  BY <1>1, <1>3, <1>5

\* A batch of references names what was started.
LEMMA LcReferences ==
    ASSUME LcInv, NEW kinds, kinds \subseteq LcAsks, NEW items \in Lc!ParseReferences(kinds)
    PROVE  /\ items \in Seq(LcItems)
           /\ \A i \in 1 .. Len(items) : items[i].kind \in LcAsks /\ items[i].of \in Lc!Named
<1>1. PICK n \in 1 .. MaxBatch : items \in [1 .. n -> [kind : kinds, of : Lc!Named]]
  BY DEF Lc!ParseReferences
<1>2. n \in Nat /\ Lc!Named \subseteq Nat
  BY FleetAssumption DEF Lc!Named, LcInv, LcTyped
<1>3. items \in [1 .. n -> LcItems]
  BY <1>1, <1>2, LcKindFacts DEF LcItems
<1>4. items \in Seq(LcItems) /\ Len(items) = n
  BY <1>2, <1>3
<1> QED  BY <1>1, <1>4

\* A tool call or command that is about one thing.
LEMMA LcSingle ==
    ASSUME NEW kind \in LcKinds, NEW id \in Nat
    PROVE  LET items == <<[kind |-> kind, of |-> id]>> IN
           /\ items \in Seq(LcItems) /\ Len(items) = 1
           /\ \A i \in 1 .. Len(items) : items[i].kind = kind /\ items[i].of = id
<1>1. [kind |-> kind, of |-> id] \in LcItems
  BY DEF LcItems
<1> QED  BY <1>1

\* A tool call or command that starts one thing.
LEMMA LcStartOne ==
    ASSUME LcInv, NEW a \in Callers, NEW kind \in Lc!Starts, Lc!StartOne(a, kind)
    PROVE  LcInv'
<1> DEFINE items == <<[kind |-> kind, of |-> 1]>>
<1>1. items \in Seq(LcItems) /\ \A i \in 1 .. Len(items) : items[i].kind \in Lc!Starts
  BY LcSingle, LcKindFacts
<1>2. Lc!Begins(a, "running", items)
  BY DEF Lc!StartOne
<1> HIDE DEF items
<1> QED  BY <1>1, <1>2, LcBegins

\* A tool call or command that names one thing.
LEMMA LcNameOne ==
    ASSUME LcInv, NEW a \in Callers, NEW kind \in LcAsks, NEW id, Lc!NameOne(a, kind, id)
    PROVE  LcInv'
<1>1. id \in Lc!Named /\ id \in Nat
  BY FleetAssumption DEF Lc!NameOne, Lc!Named, LcInv, LcTyped
<1> DEFINE items == <<[kind |-> kind, of |-> id]>>
<1>2. /\ items \in Seq(LcItems)
      /\ \A i \in 1 .. Len(items) : items[i].kind \in LcAsks /\ items[i].of \in Lc!Named
  BY <1>1, LcSingle, LcKindFacts
<1>3. Lc!Begins(a, "running", items)
  BY DEF Lc!NameOne
<1> HIDE DEF items
<1> QED  BY <1>2, <1>3, LcBegins

\* The sources of downloads are looked at, and the last item ends the tool call.
LEMMA LcProbe ==
    ASSUME LcInv, NEW a \in Callers, Lc!Probe(a) \/ Lc!Report(a)
    PROVE  LcInv'
<1> DEFINE t == lcTool[a]
<1>1. t \in LcTools /\ LcCaller(a, t) /\ Len(t.got) \in Nat /\ Len(t.items) \in Nat /\ LcTyped
  BY SMTT(30) DEF LcInv, LcTyped, LcTools
<1>2. UNCHANGED <<lcDevice, lcCalls, lcSent, lcWork, lcWire, lcTold, lcEnded, lcLog>>
  BY DEF Lc!Probe, Lc!Report
<1>3. t.call = 0
  BY <1>1 DEF Lc!Probe, Lc!Report, LcCaller, Lc!MoreItems
<1>4. CASE lcTool' = [lcTool EXCEPT ![a] = Lc!NoTool]
  <2>1. Lc!NoTool \in LcTools /\ Lc!NoTool.call = 0 /\ Lc!NoTool.items = <<>> /\ Lc!NoTool.got = <<>>
    BY DEF Lc!NoTool, LcTools
  <2>2. LcCaller(a, Lc!NoTool)
    BY <2>1 DEF LcCaller
  <2> QED  BY <1>2, <1>3, <1>4, <2>1, <2>2, LcToolGoesOn
<1>5. CASE lcTool' = [lcTool EXCEPT ![a].probed = @ + 1,
                        ![a].at = IF t.probed + 1 = Len(t.items) THEN "running" ELSE @]
  <2> DEFINE u == [t EXCEPT !.probed = @ + 1, !.at = IF t.probed + 1 = Len(t.items) THEN "running" ELSE @]
  <2>1. u \in LcTools /\ u.call = t.call /\ u.items = t.items /\ u.got = t.got
    <3>1. t.at \in {"idle", "probing", "running"} /\ t.probed \in Nat
      BY <1>1 DEF LcTools
    <3>2. (IF t.probed + 1 = Len(t.items) THEN "running" ELSE t.at) \in {"idle", "probing", "running"}
      BY <3>1
    <3> DEFINE next == IF t.probed + 1 = Len(t.items) THEN "running" ELSE t.at
    <3>3. u = [t EXCEPT !.probed = t.probed + 1, !.at = next] /\ t.probed + 1 \in Nat
      BY <1>1, <3>1 DEF LcTools
    <3> HIDE DEF next, u
    <3> QED  BY <1>1, <3>2, <3>3 DEF LcTools, next
  <2>2. lcTool' = [lcTool EXCEPT ![a] = u]
    BY <1>1, <1>5 DEF LcTyped, LcTools
  <2> HIDE DEF u
  <2>3. LcCaller(a, u)
    BY SMTT(30), <1>1, <1>3, <2>1 DEF LcCaller
  <2> QED  BY <1>2, <1>3, <2>1, <2>2, <2>3, LcToolGoesOn
<1> QED  BY <1>4, <1>5 DEF Lc!Probe, Lc!Report

\* A request is sent.
LEMMA LcSend ==
    ASSUME LcInv, NEW a \in Callers, Lc!Send(a)
    PROVE  LcInv'
<1> DEFINE t == lcTool[a]
           c == lcSent + 1
           item == t.items[Len(t.got) + 1]
           n == [Lc!NoCall EXCEPT !.by = a, !.kind = item.kind, !.of = item.of, !.at = "sent"]
           u == [t EXCEPT !.call = c]
<1>1. /\ LcTyped /\ t \in LcTools /\ LcCaller(a, t) /\ t.call = 0 /\ Len(t.got) \in Nat /\ Len(t.items) \in Nat
      /\ t.at = "running" /\ Len(t.got) < Len(t.items)
      /\ UNCHANGED <<lcDevice, lcWork, lcWire, lcTold, lcEnded, lcLog>>
  BY DEF LcInv, LcTyped, LcTools, Lc!Send, Lc!MoreItems
<1>2. c \in Lc!Ids /\ c # 0 /\ c \in Nat /\ lcSent' = c /\ c \in 0 .. MaxLocalCalls /\ lcSent < c
  BY SMTT(30), <1>1, FleetAssumption DEF LcTyped, Lc!Ids, Lc!Send
<1>3. item \in LcItems
  BY <1>1 DEF LcTools
<1>4. item.kind \in LcKinds /\ item.of \in Nat
  BY <1>3 DEF LcItems
<1>5. /\ n \in LcRequests /\ n.by = a /\ n.kind = item.kind /\ n.of = item.of /\ n.at = "sent"
      /\ n.answer = "none" /\ ~n.lost
  BY <1>4 DEF LcRequests, Lc!NoCall, LcPending, LcPhases
<1>6. /\ u \in LcTools /\ u.call = c /\ u.items = t.items /\ u.got = t.got /\ u.at = t.at
  BY <1>1, <1>2 DEF LcTools
<1>7. /\ lcCalls' = [lcCalls EXCEPT ![c] = n]
      /\ lcTool' = [lcTool EXCEPT ![a] = u]
  BY <1>1 DEF Lc!Send, Lc!Item, LcTyped
<1> HIDE DEF n, u
<1>8. /\ lcCalls'[c] = n /\ \A i \in Lc!Ids : i # c => lcCalls'[i] = lcCalls[i]
      /\ lcTool'[a] = u /\ \A b \in Callers : b # a => lcTool'[b] = lcTool[b]
  BY <1>1, <1>2, <1>7 DEF LcTyped
<1>9. LcTyped'
  BY <1>1, <1>2, <1>5, <1>6, <1>7 DEF LcTyped
<1>10. /\ lcCalls[c] = Lc!NoCall /\ lcWork[c] = "none" /\ lcTold[c] = {} /\ c \notin lcWire
       /\ ~LcSaid(c, "succeeded")
  BY <1>2 DEF LcInv, LcFresh
<1>11. /\ \A k : LcRight(k)' <=> LcRight(k)
       /\ \A i, x : LcSaid(i, x)' <=> LcSaid(i, x)
       /\ \A i : LcMade(i)' <=> LcMade(i)
  BY <1>1 DEF LcRight, LcSaid, LcMade
<1>12. item.kind \in LcAsks => item.of \in Lc!Ids /\ LcSaid(item.of, "succeeded")
  BY <1>1 DEF LcCaller
<1> HIDE DEF c, item, t
<1>13. ASSUME NEW i \in Lc!Ids PROVE LcFresh(i)' /\ LcTold(i)' /\ LcWork(i)' /\ LcRequest(i)'
  <2>1. LcFresh(i) /\ LcTold(i) /\ LcWork(i) /\ LcRequest(i) /\ i # 0 /\ i \in Nat
    BY FleetAssumption DEF LcInv, Lc!Ids
  <2>2. LcTold(i)'
    <3>1. i # c => lcCalls'[i] = lcCalls[i]
      BY <1>8
    <3> QED  BY <1>1, <1>10, <1>11, <2>1, <3>1 DEF LcTold
  <2>3. CASE i # c
    <3>1. lcCalls'[i] = lcCalls[i] /\ (LcGivenUp(i)' <=> LcGivenUp(i))
      BY <1>8, <1>11, <2>3 DEF LcGivenUp
    <3>2. (\E b \in Callers : lcTool[b].call = i) => \E b \in Callers : lcTool'[b].call = i
      BY <1>1, <1>8, <2>1 DEF t
    <3>3. LcWork(i)'
      BY <1>1, <1>11, <2>1, <3>1, <3>2 DEF LcWork
    <3>4. LcRequest(i)'
      <4>1. lcCalls[i].kind \in LcAsks => lcCalls'[lcCalls[i].of] = lcCalls[lcCalls[i].of]
        BY <1>8, <1>10, <2>1 DEF LcRequest
      <4> QED  BY <1>1, <1>11, <2>1, <3>1, <3>2, <4>1 DEF LcRequest
    <3>5. i > lcSent' => i > lcSent
      BY <1>1, <1>2, <2>1 DEF LcTyped
    <3>6. LcFresh(i)'
      BY <1>1, <1>11, <2>1, <3>1, <3>5 DEF LcFresh
    <3> QED  BY <2>2, <3>3, <3>4, <3>6
  <2>4. CASE i = c
    <3>1. /\ ~LcMade(i) /\ ~LcSaid(i, "succeeded") /\ lcWork'[i] = "none" /\ i \notin lcWire'
          /\ lcCalls'[i] = n /\ ~LcMade(i)' /\ ~LcSaid(i, "succeeded")'
      BY <1>1, <1>8, <1>10, <1>11, <2>4 DEF LcMade
    <3>2. LcWork(i)'
      BY <3>1 DEF LcWork
    <3>3. \E b \in Callers : lcTool'[b].call = i
      BY <1>6, <1>8, <2>4
    <3>4. n.kind \in LcAsks => n.of \in Lc!Ids /\ <<n.of, "succeeded">> \in lcLog'
      BY <1>1, <1>5, <1>12 DEF LcSaid
    <3>5. LcRequest(i)'
      BY <1>4, <1>5, <3>1, <3>3, <3>4 DEF LcRequest, LcStillTrue, LcSaid
    <3>6. ~(i > lcSent')
      BY <1>2, <2>4
    <3> QED  BY <2>2, <3>2, <3>5, <3>6 DEF LcFresh
  <2> QED  BY <2>3, <2>4
<1>14. ASSUME NEW b \in Callers PROVE LcCaller(b, lcTool[b])'
  <2> DEFINE x == lcTool[b]
             y == lcTool'[b]
  <2>1. LcCaller(b, x) /\ x \in LcTools /\ y.items = x.items /\ y.got = x.got /\ y.at = x.at
    BY <1>1, <1>6, <1>8 DEF LcInv, LcTyped, t
  <2>2. Len(x.got) \in Nat /\ Len(x.items) \in Nat
    BY <2>1 DEF LcTools
  <2>3. b # a => y.call = x.call
    BY <1>8
  <2>4. b = a => x.call = 0 /\ y.call = c
    BY <1>1, <1>6, <1>8 DEF t
  <2> HIDE DEF x, y
  <2>5. \A i \in 1 .. Len(x.items) : x.items[i].kind \in LcAsks =>
          /\ x.items[i].of \in Lc!Ids /\ LcSaid(x.items[i].of, "succeeded")
          /\ \A j \in 1 .. Len(x.items) : x.items[j].kind \in LcAsks
    BY <2>1 DEF LcCaller
  <2>6. ASSUME NEW i \in 1 .. Len(x.got), x.got[i].ok /\ x.items[i].kind \in Lc!Starts
        PROVE  LET s == lcCalls'[x.got[i].id] IN
               /\ x.got[i].id \in Lc!Ids /\ lcWork'[x.got[i].id] # "none"
               /\ s.by = b /\ s.at = "done" /\ s.kind = x.items[i].kind /\ s.of = x.items[i].of
               /\ \A j \in 1 .. Len(x.got) : x.got[j] = x.got[i] => j = i
    <3>1. x.got[i].id \in Lc!Ids /\ x.got[i].id # c
      BY <1>10, <2>1, <2>6 DEF LcCaller
    <3> QED  BY <1>1, <1>8, <2>1, <2>6, <3>1 DEF LcCaller
  <2>7. y.call # 0 =>
          LET r == lcCalls'[y.call] IN
          /\ y.call \in Lc!Ids /\ y.call <= lcSent' /\ Len(x.got) < Len(x.items) /\ x.at = "running"
          /\ r.by = b /\ ~r.lost /\ r.at # "done"
          /\ r.kind = x.items[Len(x.got) + 1].kind /\ r.of = x.items[Len(x.got) + 1].of
    <3>1. CASE b = a
      <4>1. x = t
        BY <3>1 DEF x, t
      <4> QED  BY <1>1, <1>2, <1>5, <1>8, <2>4, <3>1, <4>1 DEF item
    <3>2. CASE b # a
      <4>1. y.call # 0 => y.call # c /\ y.call <= lcSent' /\ y.call \in Lc!Ids
        <5>1. y.call # 0 => y.call \in Lc!Ids /\ y.call <= lcSent
          BY <2>1, <2>3, <3>2 DEF LcCaller
        <5>2. lcSent \in Nat /\ \A i \in Lc!Ids : i \in Nat
          BY <1>1, FleetAssumption DEF LcTyped, Lc!Ids
        <5>3. y.call # 0 => y.call \in Nat
          BY <5>1, <5>2
        <5>4. c \in Nat /\ lcSent < c /\ lcSent' = c
          BY <1>2
        <5> HIDE DEF y
        <5> QED  BY <5>1, <5>2, <5>3, <5>4
      <4> QED  BY <1>8, <2>1, <2>3, <3>2, <4>1 DEF LcCaller
    <3> QED  BY <3>1, <3>2
  <2> QED  BY <1>11, <2>1, <2>2, <2>5, <2>6, <2>7 DEF LcCaller, y
<1> QED  BY <1>9, <1>13, <1>14 DEF LcInv

\* A caller waits for a request of its own.
LEMMA LcCallerOwns ==
    ASSUME NEW b, NEW x, LcCaller(b, x), x.call # 0
    PROVE  lcCalls[x.call].by = b /\ lcCalls[x.call].at # "done"
BY DEF LcCaller

\* What a caller was told was started was started by its own request.
LEMMA LcCallerGot ==
    ASSUME NEW b, NEW x, LcCaller(b, x), NEW i \in 1 .. Len(x.got), x.got[i].ok,
           x.items[i].kind \in Lc!Starts, NEW d, d = x.got[i].id
    PROVE  /\ d \in Lc!Ids /\ lcWork[d] # "none"
           /\ lcCalls[d].by = b /\ lcCalls[d].at = "done" /\ lcCalls[d].kind = x.items[i].kind
           /\ lcCalls[d].of = x.items[i].of
           /\ \A j \in 1 .. Len(x.got) : x.got[j] = x.got[i] => j = i
BY DEF LcCaller

\* A caller hears of its request, or gives it up.
LEMMA LcHears ==
    ASSUME LcInv, NEW a \in Callers, NEW c, c = lcTool[a].call, c # 0, NEW n \in LcRequests,
           lcCalls' = [lcCalls EXCEPT ![c] = n],
           NEW g \in [ok : BOOLEAN, id : Nat],
           lcTool' = [lcTool EXCEPT ![a] = [lcTool[a] EXCEPT !.call = 0, !.got = Append(lcTool[a].got, g)]],
           lcTold' \in [Lc!Ids -> SUBSET LcPhases],
           \A i \in Lc!Ids : lcTold[i] # {} => lcTold'[i] # {},
           \A i \in Lc!Ids : LcFresh(i) /\ i # c => LcFresh(i)',
           \A i \in Lc!Ids : LcTold(i)',
           LcWork(c)', LcRequest(c)', n.kind = lcCalls[c].kind \/ n.kind # "shell_start",
           g.ok /\ lcCalls[c].kind \in Lc!Starts =>
             /\ g.id = c /\ lcWork[c] # "none"
             /\ n.by = a /\ n.at = "done" /\ n.kind = lcCalls[c].kind /\ n.of = lcCalls[c].of,
           UNCHANGED <<lcDevice, lcSent, lcWork, lcWire, lcEnded, lcLog>>
    PROVE  LcInv'
<1> DEFINE t == lcTool[a]
           u == [t EXCEPT !.call = 0, !.got = Append(t.got, g)]
           k == Len(t.got) + 1
           r == lcCalls[c]
<1>1. /\ LcTyped /\ t \in LcTools /\ LcCaller(a, t) /\ t.call = c /\ t.got \in Seq([ok : BOOLEAN, id : Nat])
      /\ t.items \in Seq(LcItems) /\ Len(t.got) \in Nat /\ Len(t.items) \in Nat
  <2>1. LcTyped /\ LcCaller(a, t)
    BY ONLY LcInv, a \in Callers DEF LcInv
  <2>2. t \in LcTools
    BY ONLY <2>1, a \in Callers DEF LcTyped
  <2>3. /\ t.got \in Seq([ok : BOOLEAN, id : Nat]) /\ t.items \in Seq(LcItems)
        /\ Len(t.got) \in Nat /\ Len(t.items) \in Nat
    BY ONLY <2>2 DEF LcTools
  <2> QED  BY ONLY c = lcTool[a].call, <2>1, <2>2, <2>3
<1>2. /\ c \in Lc!Ids /\ c <= lcSent /\ Len(t.got) < Len(t.items) /\ r.by = a /\ ~r.lost /\ r.at # "done"
      /\ r.kind = t.items[k].kind /\ r.of = t.items[k].of
  BY ONLY <1>1, c # 0 DEF LcCaller
<1>3. u \in LcTools /\ u.call = 0 /\ u.got = Append(t.got, g) /\ u.items = t.items
  <2> DEFINE more == Append(t.got, g)
  <2>1. more \in Seq([ok : BOOLEAN, id : Nat])
    BY <1>1
  <2> HIDE DEF more
  <2>2. [t EXCEPT !.call = 0, !.got = more] \in LcTools
    BY <1>1, <2>1 DEF LcTools
  <2>3. /\ [t EXCEPT !.call = 0, !.got = more].call = 0 /\ [t EXCEPT !.call = 0, !.got = more].got = more
        /\ [t EXCEPT !.call = 0, !.got = more].items = t.items
    BY <1>1 DEF LcTools
  <2> QED  BY <2>2, <2>3 DEF more
<1>4. /\ Len(u.got) = k /\ u.got[k] = g /\ \A i \in 1 .. Len(t.got) : u.got[i] = t.got[i]
  BY <1>1, <1>3
<1> HIDE DEF u
<1>5. /\ lcCalls'[c] = n /\ \A i \in Lc!Ids : i # c => lcCalls'[i] = lcCalls[i]
      /\ lcTool'[a] = u /\ \A b \in Callers : b # a => lcTool'[b] = lcTool[b]
  BY <1>1, <1>2 DEF LcTyped, u
<1>6. LcTyped'
  BY <1>1, <1>3 DEF LcTyped, u
<1>7. /\ \A x : LcRight(x)' <=> LcRight(x)
      /\ \A i, x : LcSaid(i, x)' <=> LcSaid(i, x)
      /\ \A i : LcMade(i)' <=> LcMade(i)
  BY DEF LcRight, LcSaid, LcMade
<1>8. \A b \in Callers : b # a => lcTool[b].call # c
  <2>1. \A b \in Callers : LcCaller(b, lcTool[b])
    BY ONLY LcInv DEF LcInv
  <2>2. lcCalls[c].by = a /\ c # 0
    BY ONLY c # 0, <1>2
  <2> QED  BY ONLY <2>1, <2>2, LcCallerOwns
<1>9. ASSUME NEW i \in Lc!Ids PROVE LcFresh(i)' /\ LcTold(i)' /\ LcWork(i)' /\ LcRequest(i)'
  <2>1. LcFresh(i) /\ LcWork(i) /\ LcRequest(i) /\ i # 0 /\ i \in Nat
    BY ONLY LcInv, i \in Lc!Ids, FleetAssumption DEF LcInv, Lc!Ids
  <2>2. CASE i = c
    <3>1. ~(c > lcSent')
      <4>1. c \in Nat
        BY ONLY <1>2, FleetAssumption DEF Lc!Ids
      <4>2. lcSent \in Nat
        BY ONLY <1>1, FleetAssumption DEF LcTyped
      <4> QED  BY ONLY <1>2, <4>1, <4>2, lcSent' = lcSent
    <3> QED  BY <2>2, <3>1 DEF LcFresh
  <2>3. CASE i # c
    <3>1. lcCalls'[i] = lcCalls[i] /\ (LcGivenUp(i)' <=> LcGivenUp(i))
      BY <1>5, <1>7, <2>3 DEF LcGivenUp
    <3>2. (\E b \in Callers : lcTool[b].call = i) => \E b \in Callers : lcTool'[b].call = i
      BY <1>1, <1>5, <2>3
    <3>3. LcWork(i)'
      BY <1>7, <2>1, <3>1, <3>2 DEF LcWork
    <3>4. lcCalls[i].kind \in LcAsks =>
            LcStillTrue(lcCalls[i].answer, lcWork[lcCalls[i].of], lcCalls'[lcCalls[i].of].kind)
      <4>1. lcCalls[i].kind \in LcAsks =>
              /\ lcCalls[i].of \in Lc!Ids
              /\ LcStillTrue(lcCalls[i].answer, lcWork[lcCalls[i].of], lcCalls[lcCalls[i].of].kind)
        BY ONLY <2>1 DEF LcRequest
      <4>2. \A j \in Lc!Ids : lcCalls'[j].kind = lcCalls[j].kind \/ lcCalls'[j].kind # "shell_start"
        BY <1>5
      <4> QED  BY ONLY <4>1, <4>2 DEF LcStillTrue
    <3>5. LcRequest(i)'
      BY SMTT(30), <1>7, <2>1, <3>1, <3>2, <3>4 DEF LcRequest
    <3> QED  BY <2>1, <2>3, <3>3, <3>5
  <2> QED  BY <2>2, <2>3
<1>10. ASSUME NEW b \in Callers, b # a PROVE LcCaller(b, lcTool[b])'
  <2> DEFINE x == lcTool[b]
  <2>1. LcCaller(b, x) /\ x \in LcTools /\ lcTool'[b] = x /\ x.call # c
    BY <1>1, <1>5, <1>8, <1>10 DEF LcInv, LcTyped
  <2> DEFINE y == lcTool'[b]
  <2>2. y = x
    BY ONLY SMTT(30), <2>1
  <2> HIDE DEF x, y
  <2>3. ASSUME NEW i \in 1 .. Len(x.got), x.got[i].ok /\ x.items[i].kind \in Lc!Starts
        PROVE  x.got[i].id \in Lc!Ids /\ lcCalls'[x.got[i].id] = lcCalls[x.got[i].id]
    <3>1. x.got[i].id \in Lc!Ids /\ lcCalls[x.got[i].id].at = "done"
      BY ONLY <2>1, <2>3, LcCallerGot
    <3>2. lcCalls[c].at # "done"
      BY ONLY <1>2
    <3> QED  BY ONLY <1>5, <3>1, <3>2
  <2>4. x.call # 0 => lcCalls'[x.call] = lcCalls[x.call]
    BY <1>5, <2>1 DEF LcCaller
  <2>5. \A i \in 1 .. Len(y.items) : y.items[i].kind \in LcAsks =>
          /\ y.items[i].of \in Lc!Ids /\ <<y.items[i].of, "succeeded">> \in lcLog'
          /\ \A j \in 1 .. Len(y.items) : y.items[j].kind \in LcAsks
    BY <2>1, <2>2 DEF LcCaller, LcSaid
  <2>6. \A i \in 1 .. Len(y.got) : y.got[i].ok /\ y.items[i].kind \in Lc!Starts =>
          LET s == lcCalls'[y.got[i].id] IN
          /\ y.got[i].id \in Lc!Ids /\ lcWork'[y.got[i].id] # "none"
          /\ s.by = b /\ s.at = "done" /\ s.kind = y.items[i].kind /\ s.of = y.items[i].of
          /\ \A j \in 1 .. Len(y.got) : y.got[j] = y.got[i] => j = i
    BY <2>1, <2>2, <2>3 DEF LcCaller
  <2>7. /\ Len(y.got) <= Len(y.items)
        /\ y.call # 0 =>
             LET s == lcCalls'[y.call] IN
             /\ y.call \in Lc!Ids /\ y.call <= lcSent' /\ Len(y.got) < Len(y.items) /\ y.at = "running"
             /\ s.by = b /\ ~s.lost /\ s.at # "done"
             /\ s.kind = y.items[Len(y.got) + 1].kind /\ s.of = y.items[Len(y.got) + 1].of
    BY ONLY SMTT(30), lcSent' = lcSent, <2>1, <2>2, <2>4 DEF LcCaller
  <2> QED  BY <2>5, <2>6, <2>7 DEF LcCaller, LcSaid, y
<1>11. LcCaller(a, lcTool[a])'
  <2>1. \A i \in 1 .. Len(t.items) : t.items[i].kind \in LcAsks =>
          /\ t.items[i].of \in Lc!Ids /\ LcSaid(t.items[i].of, "succeeded")
          /\ \A j \in 1 .. Len(t.items) : t.items[j].kind \in LcAsks
    BY <1>1 DEF LcCaller
  <2>2. k \in 1 .. k /\ \A i \in 1 .. k : t.items[i].kind \in LcKinds /\ i \in 1 .. Len(t.items)
    <3>1. k \in 1 .. k /\ \A i \in 1 .. k : i \in 1 .. Len(t.items)
      BY <1>1, <1>2
    <3>2. \A i \in 1 .. Len(t.items) : t.items[i] \in LcItems
      BY <1>1
    <3> QED  BY <3>1, <3>2 DEF LcItems
  <2>3. ASSUME NEW i \in 1 .. Len(t.got), t.got[i].ok, t.items[i].kind \in Lc!Starts
        PROVE  LET s == lcCalls'[t.got[i].id] IN
               /\ t.got[i].id \in Lc!Ids /\ t.got[i].id # c /\ lcWork'[t.got[i].id] # "none"
               /\ s.by = a /\ s.at = "done" /\ s.kind = t.items[i].kind /\ s.of = t.items[i].of
               /\ \A j \in 1 .. Len(t.got) : t.got[j] = t.got[i] => j = i
    <3>1. PICK x : x = t
      OBVIOUS
    <3>2. LcCaller(a, x) /\ i \in 1 .. Len(x.got) /\ x.got[i].ok /\ x.items[i].kind \in Lc!Starts
      BY ONLY <1>1, <2>3, <3>1
    <3>3. PICK d : d = x.got[i].id
      OBVIOUS
    <3>4. /\ d \in Lc!Ids /\ lcWork[d] # "none"
          /\ lcCalls[d].by = a /\ lcCalls[d].at = "done" /\ lcCalls[d].kind = x.items[i].kind
          /\ lcCalls[d].of = x.items[i].of
          /\ \A j \in 1 .. Len(x.got) : x.got[j] = x.got[i] => j = i
      BY ONLY <3>2, <3>3, LcCallerGot
    <3>5. lcCalls[c].at # "done" /\ lcWork' = lcWork
      BY ONLY lcWork' = lcWork, <1>2
    <3>6. d # c /\ lcCalls'[d] = lcCalls[d] /\ lcWork'[d] # "none"
      BY ONLY <1>5, <3>4, <3>5
    <3> QED  BY ONLY <3>1, <3>3, <3>4, <3>6
  <2>4. ASSUME NEW i \in 1 .. k, u.got[i].ok, t.items[i].kind \in Lc!Starts
        PROVE  LET s == lcCalls'[u.got[i].id] IN
               /\ u.got[i].id \in Lc!Ids /\ lcWork'[u.got[i].id] # "none"
               /\ s.by = a /\ s.at = "done" /\ s.kind = t.items[i].kind /\ s.of = t.items[i].of
               /\ \A j \in 1 .. k : u.got[j] = u.got[i] => j = i
    <3>1. \A j \in 1 .. k : t.items[j].kind \in Lc!Starts
      BY <2>1, <2>2, <2>4, LcKindFacts DEF LcKinds
    <3>2. \A j \in 1 .. k : j = k \/ j \in 1 .. Len(t.got)
      <4>1. Len(t.got) \in Nat
        BY ONLY <1>1
      <4> QED  BY ONLY <4>1
    <3>3. r.kind \in Lc!Starts
      BY <1>2, <2>2, <3>1
    <3>4. CASE i = k
      <4>1. g.ok /\ g.id = c /\ lcWork[c] # "none" /\ n.by = a /\ n.at = "done" /\ n.kind = r.kind /\ n.of = r.of
        BY ONLY <1>4, <2>4, <3>3, <3>4, g.ok /\ lcCalls[c].kind \in Lc!Starts =>
           /\ g.id = c /\ lcWork[c] # "none"
           /\ n.by = a /\ n.at = "done" /\ n.kind = lcCalls[c].kind /\ n.of = lcCalls[c].of
      <4>2. ASSUME NEW j \in 1 .. k, u.got[j] = g PROVE j = k
        <5>1. j # k => t.got[j].ok /\ t.got[j].id = c /\ t.items[j].kind \in Lc!Starts /\ j \in 1 .. Len(t.got)
          BY ONLY SMTT(30), <1>4, <3>1, <3>2, <4>1, <4>2
        <5> QED  BY <5>1, <2>3
      <4>3. t.items[i] = t.items[k] /\ u.got[i] = g
        BY ONLY <1>4, <3>4
      <4>4. /\ c \in Lc!Ids /\ lcWork'[c] # "none" /\ lcCalls'[c].by = a /\ lcCalls'[c].at = "done"
            /\ lcCalls'[c].kind = t.items[k].kind /\ lcCalls'[c].of = t.items[k].of
        BY ONLY lcWork' = lcWork, <1>2, <1>5, <4>1
      <4>5. u.got[i].id = c
        BY ONLY <4>1, <4>3
      <4>6. \A j \in 1 .. k : u.got[j] = u.got[i] => j = i
        BY ONLY <3>4, <4>2, <4>3
      <4> QED  BY ONLY <4>3, <4>4, <4>5, <4>6
    <3>5. CASE i # k
      <4>1. i \in 1 .. Len(t.got) /\ u.got[i] = t.got[i] /\ t.got[i].ok
        BY <1>4, <2>4, <3>2, <3>5
      <4>2. u.got[k] = u.got[i] => FALSE
        <5>1. g.ok => g.id = c
          BY ONLY <3>3, g.ok /\ lcCalls[c].kind \in Lc!Starts =>
             /\ g.id = c /\ lcWork[c] # "none"
             /\ n.by = a /\ n.at = "done" /\ n.kind = lcCalls[c].kind /\ n.of = lcCalls[c].of
        <5>2. t.got[i].id # c
          BY ONLY <2>3, <2>4, <4>1
        <5>3. u.got[k] = g
          BY ONLY <1>4
        <5> QED  BY ONLY <4>1, <5>1, <5>2, <5>3
      <4>3. PICK d : d = u.got[i].id
        OBVIOUS
      <4>4. /\ d \in Lc!Ids /\ lcWork'[d] # "none" /\ lcCalls'[d].by = a /\ lcCalls'[d].at = "done"
            /\ lcCalls'[d].kind = t.items[i].kind /\ lcCalls'[d].of = t.items[i].of
            /\ \A j \in 1 .. Len(t.got) : t.got[j] = t.got[i] => j = i
        BY ONLY <2>3, <2>4, <4>1, <4>3
      <4>5. ASSUME NEW j \in 1 .. k, u.got[j] = u.got[i] PROVE j = i
        <5>1. j # k
          BY ONLY <4>2, <4>5
        <5>2. j \in 1 .. Len(t.got) /\ u.got[j] = t.got[j]
          BY ONLY <1>4, <3>2, <5>1
        <5> QED  BY ONLY <4>1, <4>4, <4>5, <5>2
      <4> QED  BY ONLY <4>3, <4>4, <4>5
    <3> QED  BY <3>4, <3>5
  <2> DEFINE y == lcTool'[a]
  <2>5. y.items = t.items /\ y.got = u.got /\ y.call = 0 /\ Len(y.got) = k /\ k <= Len(y.items)
    BY <1>1, <1>2, <1>3, <1>4, <1>5
  <2> HIDE DEF y
  <2>6. \A i \in 1 .. Len(y.items) : y.items[i].kind \in LcAsks =>
          /\ y.items[i].of \in Lc!Ids /\ <<y.items[i].of, "succeeded">> \in lcLog'
          /\ \A j \in 1 .. Len(y.items) : y.items[j].kind \in LcAsks
    BY <2>1, <2>5 DEF LcSaid
  <2>7. \A i \in 1 .. Len(y.got) : y.got[i].ok /\ y.items[i].kind \in Lc!Starts =>
          LET s == lcCalls'[y.got[i].id] IN
          /\ y.got[i].id \in Lc!Ids /\ lcWork'[y.got[i].id] # "none"
          /\ s.by = a /\ s.at = "done" /\ s.kind = y.items[i].kind /\ s.of = y.items[i].of
          /\ \A j \in 1 .. Len(y.got) : y.got[j] = y.got[i] => j = i
    BY <2>4, <2>5
  <2>8. y.call = 0 /\ Len(y.got) <= Len(y.items)
    BY ONLY SMTT(30), <2>5
  <2> QED  BY ONLY SMTT(60), <2>6, <2>7, <2>8 DEF LcCaller, LcSaid, y
<1> QED  BY <1>6, <1>9, <1>10, <1>11 DEF LcInv

\* The answer arrives.
LEMMA LcReceive ==
    ASSUME LcInv, NEW a \in Callers, Lc!Receive(a)
    PROVE  LcInv'
<1>0. PICK c : c = lcTool[a].call
  OBVIOUS
<1> DEFINE r == lcCalls[c]
           id == Lc!About(c)
           ok == r.answer # "failed"
           keep == r.kind \in Lc!Starts /\ (lcWork[c] # "none" \/ c \in lcWire)
           settled == [r EXCEPT !.at = "done", !.answer = "none"]
           n == IF keep THEN settled ELSE Lc!NoCall
           g == IF ok THEN [ok |-> TRUE, id |-> id] ELSE Lc!Failed
<1>1. /\ c # 0 /\ r.at = "answered"
      /\ lcTool' = [lcTool EXCEPT ![a].call = 0, ![a].got = Append(@, g)]
      /\ lcTold' = [lcTold EXCEPT ![id] = IF ok THEN @ \cup {r.answer} ELSE @]
      /\ lcCalls' = [lcCalls EXCEPT ![c] = n]
      /\ UNCHANGED <<lcDevice, lcSent, lcWork, lcWire, lcEnded, lcLog>>
  BY <1>0 DEF Lc!Receive, Lc!Settled
<1>2. LcTyped /\ lcTool[a] \in LcTools /\ LcCaller(a, lcTool[a])
  BY SMTT(30) DEF LcInv, LcTyped
<1>3. c \in Lc!Ids /\ c <= lcSent /\ r.by = a /\ ~r.lost
  BY <1>0, <1>1, <1>2 DEF LcCaller
<1>4. LcFresh(c) /\ LcWork(c) /\ LcTold(c) /\ LcRequest(c) /\ r \in LcRequests
  BY <1>2, <1>3 DEF LcInv, LcTyped
<1>5. /\ settled \in LcRequests /\ settled.by = r.by /\ settled.kind = r.kind /\ settled.of = r.of
      /\ settled.at = "done" /\ settled.answer = "none" /\ settled.early = r.early /\ settled.lost = r.lost
  BY <1>4 DEF LcRequests, LcPhases
<1> HIDE DEF settled
<1>6. n \in LcRequests
  BY <1>5, LcNoCall
<1>23. n.kind = r.kind \/ n.kind # "shell_start"
  BY <1>5, LcNoCall
<1>7. r.kind \in LcKinds /\ r.answer # "none" /\ r.answer \in LcPhases \cup {"failed"}
  BY <1>1, <1>4 DEF LcRequest, LcRequests
<1>8. r.kind \in Lc!Starts => id = c
  BY DEF Lc!About
<1>9. r.kind \notin Lc!Starts => id = r.of /\ r.kind \in LcAsks
  BY <1>7 DEF Lc!About, LcKinds
<1>10. id \in Lc!Ids /\ (ok => LcSaid(id, "succeeded") /\ LcStillTrue(r.answer, lcWork[id], lcCalls[id].kind))
  BY <1>1, <1>3, <1>4, <1>7, <1>8, <1>9 DEF LcRequest, LcStillTrue
<1>11. g \in [ok : BOOLEAN, id : Nat] /\ (g.ok => ok /\ g.id = id)
  BY <1>10, FleetAssumption DEF Lc!Failed, Lc!Ids
<1>12. /\ lcTold' \in [Lc!Ids -> SUBSET LcPhases]
       /\ \A i \in Lc!Ids : i # id => lcTold'[i] = lcTold[i]
       /\ lcTold'[id] = IF ok THEN lcTold[id] \cup {r.answer} ELSE lcTold[id]
  BY <1>1, <1>2, <1>7, <1>10 DEF LcTyped
<1>13. lcTool' = [lcTool EXCEPT ![a] = [lcTool[a] EXCEPT !.call = 0, !.got = Append(lcTool[a].got, g)]]
  BY <1>1, <1>2 DEF LcTyped, LcTools
<1> HIDE DEF n, g, id
<1>14. \A i, x : LcSaid(i, x)' <=> LcSaid(i, x)
  BY <1>1 DEF LcSaid
<1>15. ASSUME NEW i \in Lc!Ids PROVE LcTold(i)' /\ (LcFresh(i) /\ i # c => LcFresh(i)')
  <2>1. LcTold(i) /\ LcFresh(i)
    BY DEF LcInv
  <2>2. lcTold'[i] # lcTold[i] => i = id /\ ok /\ lcTold'[i] = lcTold[i] \cup {r.answer}
    BY <1>12
  <2>3. \A said \in lcTold'[i] : said \in lcTold[i] \/ (i = id /\ ok /\ said = r.answer)
    BY <1>12
  <2>4. LcTold(i)'
    <3>1. \A said \in lcTold'[i] : LcStillTrue(said, lcWork[i], lcCalls[i].kind) /\ LcSaid(i, "succeeded")
      BY <1>10, <2>1, <2>3 DEF LcTold
    <3>2. lcCalls'[i].kind = lcCalls[i].kind \/ lcCalls'[i].kind # "shell_start"
      BY <1>1, <1>2, <1>3, <1>23 DEF LcTyped
    <3> QED  BY <1>1, <1>14, <3>1, <3>2 DEF LcTold, LcStillTrue
  <2>5. i > lcSent => lcTold'[i] = lcTold[i]
    BY <1>10, <2>1, <2>2 DEF LcFresh
  <2>6. i # c => lcCalls'[i] = lcCalls[i]
    BY <1>1, <1>2, <1>3 DEF LcTyped
  <2>7. LcFresh(i) /\ i # c => LcFresh(i)'
    BY <1>1, <1>14, <2>5, <2>6 DEF LcFresh
  <2> QED  BY <2>4, <2>7
<1> DEFINE s == lcCalls'[c]
<1>16. (s = settled /\ keep) \/ (s = Lc!NoCall /\ ~keep)
  BY <1>1, <1>2, <1>3 DEF LcTyped, n
<1>17. (LcMade(c)' <=> LcMade(c)) /\ (LcMade(c) => keep) /\ \A x : LcRight(x)' <=> LcRight(x)
  BY <1>1, <1>4 DEF LcMade, LcWork, LcRight
<1> HIDE DEF s, keep
<1>18. s.at = "done" /\ s.answer = "none" /\ s.kind \notin LcAsks /\ (~keep => s.kind \notin Lc!Starts)
  BY <1>5, <1>16, LcNoCall, LcKindFacts DEF keep
<1>19. LcRequest(c)'
  BY <1>18, LcKindFacts DEF LcRequest, LcPending, s
<1>20. LcWork(c)'
  <2>1. LcMade(c) => /\ s.kind = r.kind /\ s.early = r.early /\ s.kind \in Lc!Starts
                     /\ r.early /\ LcRight(r.kind)
    BY <1>4, <1>5, <1>16, <1>17 DEF LcWork
  <2>2. LcMade(c) => lcTold'[c] # {} \/ (s.kind = "shell_start" /\ <<c, "failed">> \in lcLog')
    <3>1. CASE LcMade(c) /\ ok
      BY <1>8, <1>12, <2>1, <3>1
    <3>2. CASE LcMade(c) /\ ~ok
      <4>1. LcGivenUp(c)
        BY <1>1, <1>4, <2>1, <3>2 DEF LcRequest
      <4> QED  BY <1>1, <2>1, <4>1, <3>2 DEF LcGivenUp, LcSaid
    <3> QED  BY <3>1, <3>2
  <2>3. c \in lcWire' => lcWork'[c] = "none" /\ s.kind = "shell_start"
    BY <1>1, <1>4, <2>1 DEF LcWork, LcMade
  <2>4. lcWork'[c] # "none" /\ s.kind \in Lc!Adds => LcSaid(c, "succeeded")
    BY <1>1, <1>4, <2>1 DEF LcWork, LcMade
  <2>5. lcWork'[c] \in {"ended", "gone"} => c \in lcEnded'
    BY <1>1, <1>4 DEF LcWork
  <2>6. LcSaid(c, "succeeded") => lcWork'[c] # "none" \/ s.kind \notin Lc!Starts
    BY <1>1, <1>4, <1>5, <1>16, <1>18 DEF LcWork
  <2> QED  BY <1>14, <1>17, <2>1, <2>2, <2>3, <2>4, <2>5, <2>6 DEF LcWork, LcGivenUp, LcSaid, s
<1>21. g.ok /\ r.kind \in Lc!Starts =>
         /\ g.id = c /\ lcWork[c] # "none"
         /\ n.by = a /\ n.at = "done" /\ n.kind = r.kind /\ n.of = r.of
  <2>1. ASSUME g.ok, r.kind \in Lc!Starts PROVE g.id = c /\ lcWork[c] # "none" /\ n = settled
    BY <1>1, <1>4, <1>8, <1>11, <2>1 DEF LcRequest, n, keep
  <2> QED  BY <1>3, <1>5, <2>1
<1>22. \A i \in Lc!Ids : lcTold[i] # {} => lcTold'[i] # {}
  BY <1>12
<1>24. g.ok /\ lcCalls[c].kind \in Lc!Starts =>
         /\ g.id = c /\ lcWork[c] # "none"
         /\ n.by = a /\ n.at = "done" /\ n.kind = lcCalls[c].kind /\ n.of = lcCalls[c].of
  BY <1>21
<1>25. n.kind = lcCalls[c].kind \/ n.kind # "shell_start"
  BY <1>23
<1>26. /\ lcCalls' = [lcCalls EXCEPT ![c] = n]
       /\ UNCHANGED <<lcDevice, lcSent, lcWork, lcWire, lcEnded, lcLog>>
  BY <1>1
<1>27. lcTold' \in [Lc!Ids -> SUBSET LcPhases]
  BY ONLY <1>12
<1>28. /\ \A i \in Lc!Ids : LcTold(i)'
       /\ \A i \in Lc!Ids : LcFresh(i) /\ i # c => LcFresh(i)'
  BY ONLY <1>15
<1>29. g \in [ok : BOOLEAN, id : Nat] /\ c # 0
  BY ONLY <1>1, <1>11
<1> HIDE DEF r, ok
<1> QED  BY ONLY LcInv, a \in Callers, <1>0, <1>6, <1>13, <1>19, <1>20, <1>22,
                 <1>24, <1>25, <1>26, <1>27, <1>28, <1>29, LcHears

\* The caller stops waiting.
LEMMA LcGiveUp ==
    ASSUME LcInv, NEW a \in Callers, Lc!GiveUp(a)
    PROVE  LcInv'
<1>0. PICK c : c = lcTool[a].call
  OBVIOUS
<1> DEFINE r == lcCalls[c]
           lost == [r EXCEPT !.lost = TRUE]
           keep == r.kind \in Lc!Starts /\ (lcWork[c] # "none" \/ c \in lcWire)
           settled == [lost EXCEPT !.at = "done", !.answer = "none"]
           n == IF r.at = "answered" THEN IF keep THEN settled ELSE Lc!NoCall ELSE lost
<1>1. LcTyped /\ lcTool[a] \in LcTools /\ LcCaller(a, lcTool[a]) /\ c # 0
  BY <1>0 DEF LcInv, LcTyped, Lc!GiveUp
<1>2. c \in Lc!Ids /\ c <= lcSent /\ r.by = a /\ ~r.lost /\ r.at # "done"
  BY <1>0, <1>1 DEF LcCaller
<1>3. LcFresh(c) /\ LcWork(c) /\ LcTold(c) /\ LcRequest(c) /\ r \in LcRequests
  BY <1>1, <1>2 DEF LcInv, LcTyped
<1>4. /\ lost \in LcRequests /\ lost.by = r.by /\ lost.kind = r.kind /\ lost.of = r.of
      /\ lost.at = r.at /\ lost.answer = r.answer /\ lost.early = r.early /\ lost.lost
  BY <1>3 DEF LcRequests
<1> HIDE DEF lost
<1>5. /\ settled \in LcRequests /\ settled.by = r.by /\ settled.kind = r.kind /\ settled.of = r.of
      /\ settled.at = "done" /\ settled.answer = "none" /\ settled.early = r.early /\ settled.lost
  BY <1>4 DEF LcRequests, LcPhases
<1>6. /\ lcTool' = [lcTool EXCEPT ![a].call = 0, ![a].got = Append(@, Lc!Failed)]
      /\ lcCalls' = [lcCalls EXCEPT ![c] = n]
      /\ UNCHANGED <<lcDevice, lcSent, lcWork, lcWire, lcTold, lcEnded, lcLog>>
  BY <1>0, <1>4 DEF Lc!GiveUp, Lc!Settled, lost
<1> HIDE DEF settled
<1>7. n \in LcRequests /\ (n.kind = r.kind \/ n.kind # "shell_start")
  BY <1>4, <1>5, LcNoCall
<1>8. Lc!Failed \in [ok : BOOLEAN, id : Nat] /\ ~Lc!Failed.ok
  BY DEF Lc!Failed
<1>9. lcTool' = [lcTool EXCEPT ![a] = [lcTool[a] EXCEPT !.call = 0, !.got = Append(lcTool[a].got, Lc!Failed)]]
  BY <1>1, <1>6 DEF LcTyped, LcTools
<1> HIDE DEF n
<1>10. /\ \A i, x : LcSaid(i, x)' <=> LcSaid(i, x)
       /\ \A x : LcRight(x)' <=> LcRight(x)
       /\ LcMade(c)' <=> LcMade(c)
       /\ LcMade(c) => keep
  BY <1>3, <1>6 DEF LcSaid, LcRight, LcMade, LcWork
<1>11. \A i \in Lc!Ids : i # c => lcCalls'[i] = lcCalls[i]
  BY <1>1, <1>2, <1>6 DEF LcTyped
<1>17. \A i \in Lc!Ids : lcCalls'[i].kind = lcCalls[i].kind \/ lcCalls'[i].kind # "shell_start"
  BY <1>1, <1>2, <1>6, <1>7 DEF LcTyped
<1>12. \A i \in Lc!Ids : LcTold(i)' /\ (LcFresh(i) /\ i # c => LcFresh(i)')
  <2>1. \A i \in Lc!Ids : LcFresh(i) /\ i # c => LcFresh(i)'
    BY <1>6, <1>10, <1>11 DEF LcFresh
  <2>2. \A i \in Lc!Ids : LcTold(i)'
    BY <1>6, <1>10, <1>17 DEF LcInv, LcTold, LcStillTrue
  <2> QED  BY <2>1, <2>2
<1> DEFINE s == lcCalls'[c]
<1>13. \/ s = lost /\ r.at # "answered"
       \/ s = settled /\ keep
       \/ s = Lc!NoCall /\ ~keep
  BY <1>1, <1>2, <1>6 DEF LcTyped, n
<1> HIDE DEF s, keep
<1>14. LcWork(c)'
  <2>1. LcMade(c) => /\ s.kind = r.kind /\ s.early /\ s.kind \in Lc!Starts /\ LcRight(s.kind) /\ s.lost
    BY <1>3, <1>4, <1>5, <1>10, <1>13 DEF LcWork
  <2>2. c \in lcWire' => lcWork'[c] = "none" /\ s.kind = "shell_start"
    BY <1>3, <1>6, <2>1 DEF LcWork, LcMade
  <2>3. lcWork'[c] # "none" /\ s.kind \in Lc!Adds => LcSaid(c, "succeeded")
    BY <1>3, <1>6, <2>1 DEF LcWork, LcMade
  <2>4. lcWork'[c] \in {"ended", "gone"} => c \in lcEnded'
    BY <1>3, <1>6 DEF LcWork
  <2>5. LcSaid(c, "succeeded") => lcWork'[c] # "none" \/ s.kind \notin Lc!Starts
    BY <1>3, <1>4, <1>5, <1>6, <1>13, LcNoCall, LcKindFacts DEF LcWork
  <2> QED  BY <1>10, <2>1, <2>2, <2>3, <2>4, <2>5 DEF LcWork, s
<1>15. LcRequest(c)'
  <2>1. CASE s = lost /\ r.at # "answered"
    <3>1. /\ s.kind = r.kind /\ s.at = r.at /\ s.answer = r.answer /\ s.of = r.of /\ s.early = r.early /\ s.lost
          /\ r.at # "answered"
      BY <1>4, <2>1
    <3>2. s.kind \in LcAsks =>
            /\ s.of \in Lc!Ids /\ <<s.of, "succeeded">> \in lcLog'
            /\ LcStillTrue(s.answer, lcWork'[s.of], lcCalls'[s.of].kind)
      BY <1>3, <1>6, <1>17, <3>1 DEF LcRequest, LcSaid, LcStillTrue
    <3>3. /\ s.at \in LcPending => s.kind \in LcKinds
          /\ s.at \in {"authorized", "remote"} =>
               s.kind \in Lc!Starts \cup Lc!Followups /\ s.early /\ LcRight(s.kind)
          /\ s.at = "remote" => s.kind = "shell_start"
          /\ s.kind \in Lc!Starts /\ s.at \in {"sent", "authorized"} => ~LcMade(c)
          /\ s.answer = "none"
      BY <1>3, <3>1 DEF LcRequest
    <3> QED  BY <1>10, <3>1, <3>2, <3>3 DEF LcRequest, LcSaid, s
  <2>2. ASSUME s.at = "done", s.answer = "none", s.kind \notin LcAsks PROVE LcRequest(c)'
    BY <2>2, LcKindFacts DEF LcRequest, LcPending, s
  <2>3. s = settled /\ keep => s.at = "done" /\ s.answer = "none" /\ s.kind \notin LcAsks
    BY <1>5, LcKindFacts DEF keep
  <2>4. s = Lc!NoCall => s.at = "done" /\ s.answer = "none" /\ s.kind \notin LcAsks
    BY LcNoCall, LcKindFacts
  <2> QED  BY <1>13, <2>1, <2>2, <2>3, <2>4
<1>16. lcTold' \in [Lc!Ids -> SUBSET LcPhases] /\ \A i \in Lc!Ids : lcTold[i] # {} => lcTold'[i] # {}
  BY <1>1, <1>6 DEF LcTyped
<1> QED  BY <1>0, <1>1, <1>6, <1>7, <1>8, <1>9, <1>12, <1>14, <1>15, <1>16, LcHears

\* The invariant holds at the start.
LEMMA LcInvInit == Init => LcInv
<1> SUFFICES ASSUME Lc!LcInit PROVE LcInv
  BY DEF Init
<1>1. /\ lcTool = [a \in Callers |-> Lc!NoTool] /\ lcCalls = [i \in Lc!Ids |-> Lc!NoCall] /\ lcSent = 0
      /\ lcWork = [i \in Lc!Ids |-> "none"] /\ lcWire = {} /\ lcTold = [i \in Lc!Ids |-> {}] /\ lcEnded = {}
      /\ lcLog = {}
  BY DEF Lc!LcInit
<1>2. lcDevice \in [standing : {"active", "revoked"}, online : BOOLEAN, execute : BOOLEAN,
                    roots : BOOLEAN, grant : SUBSET {"read", "write", "tcp_egress", "shell"}]
  <2>1. PICK limit : lcDevice = [standing |-> "active", online |-> TRUE, execute |-> limit # "connector",
                                 roots |-> limit # "policy",
                                 grant |-> IF limit = "grant" THEN {"read"} ELSE Lc!Rights]
    BY DEF Lc!LcInit
  <2>2. (limit # "connector") \in BOOLEAN /\ (limit # "policy") \in BOOLEAN
    OBVIOUS
  <2>3. (IF limit = "grant" THEN {"read"} ELSE Lc!Rights) \in SUBSET {"read", "write", "tcp_egress", "shell"}
    BY DEF Lc!Rights
  <2> QED  BY <2>1, <2>2, <2>3
<1>3. Lc!NoTool \in LcTools /\ Lc!NoTool.call = 0 /\ Lc!NoTool.items = <<>> /\ Lc!NoTool.got = <<>>
  BY DEF Lc!NoTool, LcTools
<1>4. LcTyped
  BY <1>1, <1>2, <1>3, LcNoCall, FleetAssumption DEF LcTyped, LcPhases
<1>5. ASSUME NEW c \in Lc!Ids PROVE LcFresh(c) /\ LcWork(c) /\ LcTold(c) /\ LcRequest(c)
  BY <1>1, LcNoCall, LcKindFacts DEF LcFresh, LcWork, LcTold, LcRequest, LcMade, LcSaid, LcPending
<1>6. \A a \in Callers : LcCaller(a, lcTool[a])
  BY <1>1, <1>3 DEF LcCaller
<1> QED  BY <1>4, <1>5, <1>6 DEF LcInv

\* Every step keeps the invariant.
LEMMA LcInvStep == LcInv /\ [Next]_vars => LcInv'
<1> SUFFICES ASSUME LcInv, [Next]_vars PROVE LcInv'
  OBVIOUS
<1>1. Lc!LcNext \/ UNCHANGED lcVars
  BY DEF Next, vars, ManagedFsStep, TcpForwardStep, SitePathStep, MachineServiceStep,
     SingleInstanceStep, SiteKitStep, FsQueryStep, InnerSessionStep, ControllerWindowStep,
     LocalCallsStep
<1>2. ASSUME NEW a \in Callers, NEW items \in Lc!BatchesOf(Lc!Puts), Lc!PreparePutBatch(a, items) PROVE LcInv'
  BY <1>2, LcBatches, LcBegins, LcKindFacts DEF Lc!PreparePutBatch
<1>3. ASSUME NEW a \in Callers, NEW items \in Lc!BatchesOf(Lc!Gets), Lc!PrepareGetBatch(a, items) PROVE LcInv'
  BY <1>3, LcBatches, LcBegins, LcKindFacts DEF Lc!PrepareGetBatch
<1>4. ASSUME NEW a \in Callers, NEW items, Lc!BatchStatus(a, items) PROVE LcInv'
  BY <1>4, LcReferences, LcBegins, LcKindFacts DEF Lc!BatchStatus
<1>5. ASSUME NEW a \in Callers, NEW items, Lc!BatchCancel(a, items) PROVE LcInv'
  BY <1>5, LcReferences, LcBegins, LcKindFacts DEF Lc!BatchCancel
<1>6. ASSUME NEW a \in Callers, \E kind \in Lc!Starts : Lc!StartOne(a, kind) PROVE LcInv'
  BY <1>6, LcStartOne
<1>7. ASSUME NEW a \in Callers, \E kind \in LcAsks, id \in Lc!Ids : Lc!NameOne(a, kind, id) PROVE LcInv'
  BY <1>7, LcNameOne
<1>8. ASSUME NEW a \in Callers,
             Lc!Probe(a) \/ Lc!Send(a) \/ Lc!Receive(a) \/ Lc!GiveUp(a) \/ Lc!Report(a)
      PROVE  LcInv'
  BY <1>8, LcProbe, LcSend, LcReceive, LcGiveUp
<1>9. ASSUME NEW c \in Lc!Ids,
             Lc!Authorize(c) \/ Lc!Handle(c) \/ Lc!WorkEnds(c) \/ Lc!WorkGoesOn(c) \/ Lc!HostTakes(c)
      PROVE  LcInv'
  BY <1>9, LcAuthorize, LcHandle, LcWorkEnds, LcWorkGoesOn, LcHostTakes
<1>10. CASE UNCHANGED lcVars
  <2>1. UNCHANGED <<lcDevice, lcTool, lcCalls, lcSent, lcWork, lcWire, lcTold, lcEnded, lcLog>>
    BY <1>10 DEF lcVars
  <2>2. LcTyped' /\ \A i \in Lc!Ids : LcFresh(i)' /\ LcTold(i)' /\ LcWork(i)' /\ LcRequest(i)'
    BY <2>1 DEF LcInv, LcTyped, LcFresh, LcTold, LcWork, LcRequest, LcMade, LcSaid, LcGivenUp, LcRight
  <2>3. \A a \in Callers : LcCaller(a, lcTool[a])'
    <3>1. \A i, x : LcSaid(i, x)' <=> LcSaid(i, x)
      BY <2>1 DEF LcSaid
    <3> QED  BY SMTT(30), <2>1, <3>1 DEF LcInv, LcCaller
  <2> QED  BY <2>2, <2>3 DEF LcInv
<1>11. CASE Lc!LcNext
  <2>1. CASE \E a \in Callers :
               \/ Lc!FilePutTool(a) \/ Lc!FileGetTool(a) \/ Lc!DirectoryPutTool(a) \/ Lc!DirectoryGetTool(a)
               \/ Lc!ShellStartTool(a) \/ Lc!ForwardAddCommand(a)
               \/ \E kind \in {"socks5_add", "http_connect_add"} : Lc!ProxyAddCommand(a, kind)
    BY <1>6, <2>1 DEF Lc!FilePutTool, Lc!FileGetTool, Lc!DirectoryPutTool, Lc!DirectoryGetTool,
       Lc!ShellStartTool, Lc!ForwardAddCommand, Lc!ProxyAddCommand, Lc!Starts, Lc!Puts, Lc!Gets, Lc!Adds
  <2>2. CASE \E a \in Callers :
               \/ \E kind \in Lc!Followups, id \in Lc!Ids : Lc!ShellFollowupTool(a, kind, id)
               \/ \E kind \in Lc!Removes, id \in Lc!Ids : Lc!RemoveCommand(a, kind, id)
    BY <1>7, <2>2, LcKindFacts DEF Lc!ShellFollowupTool, Lc!RemoveCommand
  <2>3. CASE Lc!DeviceChanges
    BY <2>3, LcDeviceChanges
  <2> QED  BY <1>2, <1>3, <1>4, <1>5, <1>8, <1>9, <1>11, <2>1, <2>2, <2>3 DEF Lc!LcNext
<1> QED  BY <1>1, <1>10, <1>11

\* What the invariant says to a caller.
LEMMA LcInvHonest ==
    ASSUME LcInv
    PROVE  Lc!ReportIsTrue /\ Lc!ToldStaysTrue /\ Lc!WorkWasAuthorized /\ Lc!ActivityIsTrue
<1>1. LcTyped /\ \A c \in Lc!Ids : LcWork(c) /\ LcTold(c) /\ LcRequest(c)
  BY DEF LcInv
<1>2. Lc!ReportIsTrue
  <2>1. ASSUME NEW a \in Callers, NEW i \in DOMAIN lcTool[a].got,
               lcTool[a].got[i].ok, lcTool[a].items[i].kind \in Lc!Starts
        PROVE  LET g == lcTool[a].got[i]  item == lcTool[a].items[i] IN
               /\ lcWork[g.id] # "none"
               /\ lcCalls[g.id].by = a /\ lcCalls[g.id].kind = item.kind
               /\ lcCalls[g.id].of = item.of
               /\ \A j \in DOMAIN lcTool[a].got : lcTool[a].got[j] = g => j = i
    <3>1. LcCaller(a, lcTool[a]) /\ lcTool[a] \in LcTools
      BY <1>1 DEF LcInv, LcTyped
    <3>2. DOMAIN lcTool[a].got = 1 .. Len(lcTool[a].got)
      BY <3>1 DEF LcTools
    <3> QED  BY ZenonT(60), <2>1, <3>1, <3>2 DEF LcCaller
  <2>2. ASSUME NEW c \in Lc!Ids, lcWork[c] # "none"
        PROVE  \/ lcTold[c] # {} \/ lcCalls[c].lost
               \/ \E a \in Callers : lcTool[a].call = c
               \/ lcCalls[c].kind = "shell_start" /\ <<c, "failed">> \in lcLog
    BY <1>1, <2>2 DEF LcWork, LcMade, LcGivenUp, LcSaid
  <2> QED  BY <2>1, <2>2 DEF Lc!ReportIsTrue
<1>3. Lc!ToldStaysTrue
  BY <1>1 DEF Lc!ToldStaysTrue, LcTold, LcStillTrue, LcWork
<1>4. Lc!WorkWasAuthorized
  <2>1. ASSUME NEW c \in Lc!Ids,
               \/ lcCalls[c].kind \in Lc!Starts /\ lcWork[c] # "none"
               \/ lcCalls[c].kind \in Lc!Followups /\ lcCalls[c].answer \notin {"none", "failed"}
        PROVE  /\ lcCalls[c].early /\ LcRight(lcCalls[c].kind)
               /\ Lc!Manager[lcCalls[c].kind] = "shell" <=>
                    lcCalls[c].kind \in {"shell_start", "shell_status", "shell_cancel"}
    BY <1>1, <2>1, LcShellKinds DEF LcWork, LcRequest, LcMade
  <2> QED  BY <2>1 DEF Lc!WorkWasAuthorized, LcRight
<1>5. Lc!ActivityIsTrue
  BY <1>1 DEF Lc!ActivityIsTrue, LcTold, LcWork, LcSaid
<1> QED  BY <1>2, <1>3, <1>4, <1>5

\* For any number of callers, requests and items in a batch: a caller is told that
\* something was started only if it was, by the request for that very item and under
\* a right of the device; what was told as ended does not run again, and a Shell
\* task told as being cancelled stops; and the activity list agrees, whenever the caller stops waiting, the device is revoked or the Host answers late.
THEOREM CallsAreHonestThm == Spec => []CallsAreHonest
<1>1. LcInv => CallsAreHonest
  BY LcInvHonest DEF CallsAreHonest
<1> QED  BY <1>1, LcInvInit, LcInvStep, PTL DEF Spec

-----------------------------------------------------------------------------
(* The two ends of a session.                                              *)

IsTags == {"ping", "pong", "call", "progress", "reply"}
IsBodies == IsTags \X Nat

\* The transcript of device m's handshake with acceptor k.
IsHash(m, k, c) == <<Is!Ephemeral(m, "dev"), Is!Ephemeral(k, "ctl"), c>>
IsHashes == {IsHash(m, k, c) : m \in Is!Links, k \in Is!Links, c \in {"mine", "other"}}

IsStages == {"start", "hello", "proving", "listen", "accept", "proof", "registering", "open",
             "closed"}
IsEnds == [stage : IsStages, hash : IsHashes \cup {Is!None}, peer : {0} \cup Is!Links,
           put : Seq(IsBodies), got : Seq(IsBodies), read : {"whole", "head", "torn"},
           task : Nat, calls : Nat]

\* What an end has at each stage.
IsStaged(e, x) ==
  /\ e = "dev" => x.stage \in {"start", "hello", "proving", "open", "closed"}
  /\ e = "ctl" => x.stage \in {"listen", "accept", "proof", "registering", "open", "closed"}
  /\ x.stage \in {"start", "hello", "listen"} => x.hash = Is!None
  /\ x.stage \in {"accept", "proof", "registering", "proving", "open"} => x.hash # Is!None
  /\ x.stage \notin {"open", "closed"} => /\ x.put = <<>> /\ x.got = <<>>
                                          /\ x.task = 0 /\ x.calls = 0
  /\ x.stage \notin {"registering", "open", "closed"} => x.peer = 0
  /\ x.hash = Is!None => x.put = <<>> /\ x.got = <<>> /\ x.peer = 0

\* A transcript is of two ends of one kind; a sealed bootstrap reaches the
\* pinned Controller only.
IsKeyed(l, e, x) == x.hash # Is!None =>
  IF e = "dev"
  THEN \E k \in Is!Links : x.hash = IsHash(l, k, isCtl[k]) /\ isEnd[k]["ctl"].hash = x.hash
  ELSE \E m \in Is!Links : /\ x.hash = IsHash(m, l, isCtl[l]) /\ isKind[m] = isKind[l]
                           /\ isKind[l] = "sealed" => isCtl[l] = "mine"

\* What an end was given is the beginning of what the other end sent.
IsBegins(s, t) == Len(s) <= Len(t) /\ \A i \in 1 .. Len(s) : s[i] = t[i]
IsHeard(e, x) == x.got # <<>> =>
  \E k \in Is!Links : /\ isEnd[k][Is!Other(e)].hash = x.hash
                      /\ IsBegins(x.got, isEnd[k][Is!Other(e)].put)

\* What there is to say for a device on a link: that it is in, that its
\* session is still to be disconnected, or what the disconnect did.
IsIn(l, k) == isAllowed[k] \/ k \in isRevoking \/ isCut[l] # "none"

\* With whom an open end believes to speak, and an acceptor from the moment
\* it has authorized the device.
IsTrusts(l, e, x) == x.stage \in {"registering", "open"} =>
  IF e = "dev"
  THEN \E k \in Is!Links : /\ isEnd[k]["ctl"].hash = x.hash
                           /\ isKind[k] = isKind[l] /\ isCtl[k] = "mine"
                           /\ isKind[l] = "member" => isEnd[k]["ctl"].peer = l
  ELSE isKind[l] = "member" =>
         /\ isCtl[l] = "mine"
         /\ \E k \in Is!Links : isEnd[k]["dev"].hash = x.hash /\ x.peer = k /\ IsIn(l, k)

\* A caller has the reply to every call but the one it waits for.
IsNumbered(x) ==
  /\ x.task \in 0 .. 2
  /\ \A i \in Is!Replies(x) : x.got[i] = <<"reply", Cardinality({j \in Is!Replies(x) : j <= i})>>
  /\ x.stage = "open" => Cardinality(Is!Replies(x)) + (IF x.task = 2 THEN 1 ELSE 0) = x.calls

IsOk(l, e, x) ==
  /\ x \in IsEnds /\ IsStaged(e, x) /\ IsKeyed(l, e, x) /\ IsHeard(e, x) /\ IsTrusts(l, e, x)
  /\ x.stage # "closed" /\ x.read # "whole" => x.stage = "open" /\ e # Is!Caller(l)
  /\ e = Is!Caller(l) => IsNumbered(x)

\* The packets the two devices and the two acceptors have made.
IsWith(e) == {l \in Is!Links : isEnd[l][e].hash # Is!None}
IsHello(m) == IF isKind[m] = "member" THEN Is!MemberHello(m) ELSE Is!SealedHello(m)
IsSealed(l, e, i) ==
  [type |-> "data", hash |-> isEnd[l][e].hash, from |-> e,
   nonce |-> IF isKind[l] = "member" THEN i ELSE i - 1,
   seq |-> IF isKind[l] = "member" THEN i - 1 ELSE 0, body |-> isEnd[l][e].put[i]]
IsHandshakes ==
  {IsHello(m) : m \in Is!Links}
    \cup {[type |-> "second", hash |-> isEnd[k]["ctl"].hash] : k \in IsWith("ctl")}
    \cup {[type |-> "third", hash |-> isEnd[m]["dev"].hash] : m \in IsWith("dev")}
IsProofs ==
  {Is!DeviceProof(m, isEnd[m]["dev"].hash) : m \in IsWith("dev")}
    \cup {Is!ControllerProof(k, isEnd[k]["ctl"].peer) :
            k \in {l \in IsWith("ctl") : isEnd[l]["ctl"].peer # 0}}
IsData ==
  UNION {{IsSealed(at[1], at[2], i) : i \in 1 .. Len(isEnd[at[1]][at[2]].put)} :
           at \in Is!Links \X Is!Ends}
IsPackets == IsHandshakes \cup IsProofs \cup IsData

IsBase ==
  /\ isKind \in [Is!Links -> {"member", "sealed"}]
  /\ isCtl \in [Is!Links -> {"mine", "other"}]
  /\ isAllowed \in [Is!Links -> BOOLEAN]
  /\ isCross \in BOOLEAN
  /\ isEnd \in [Is!Links -> [Is!Ends -> IsEnds]]
  /\ isWire \in [Is!Links -> [Is!Ends -> Seq(IsPackets)]]
  /\ \A l \in Is!Links, e \in Is!Ends : IsOk(l, e, isEnd[l][e])
  /\ \A l \in Is!Links, e \in Is!Ends :
       isEnd[l][e].stage = "open" /\ isEnd[l][e].read # "whole" => isWire[l][e] # <<>>

IsInv == focus = "session" => IsBase
-----------------------------------------------------------------------------
\* The links and the ends.
LEMMA IsPlaces ==
    /\ Is!Links = {1, 2} /\ Is!Ends = {"dev", "ctl"}
    /\ \A l \in Is!Links : Is!Route(l) \in Is!Links /\ Is!Caller(l) \in Is!Ends /\ Is!Server(l) \in Is!Ends
    /\ \A e \in Is!Ends : Is!Other(e) \in Is!Ends /\ Is!Other(e) # e /\ Is!Other(Is!Other(e)) = e
    /\ \A l \in Is!Links : Is!Server(l) # Is!Caller(l)
<1>1. Is!Links = {1, 2} /\ Is!Ends = {"dev", "ctl"}
  BY DEF Is!Links, Is!Ends
<1> QED  BY <1>1 DEF Is!Route, Is!Caller, Is!Server, Is!Other

\* A transcript says whose it is, and is something.
LEMMA IsHashFacts ==
    ASSUME NEW m \in Is!Links, NEW k \in Is!Links, NEW c \in {"mine", "other"}
    PROVE  /\ IsHash(m, k, c) \in IsHashes /\ IsHash(m, k, c) # Is!None
           /\ IsHash(m, k, c)[1] = Is!Ephemeral(m, "dev")
           /\ \A n \in Is!Links : IsHash(m, k, c)[1] = Is!Ephemeral(n, "dev") => n = m
           /\ \A n \in Is!Links, j \in Is!Links, d \in {"mine", "other"} :
                IsHash(m, k, c) = IsHash(n, j, d) => n = m /\ j = k /\ d = c
<1>1. IsHash(m, k, c) \in IsHashes
  BY DEF IsHashes
<1>2. Len(IsHash(m, k, c)) = 3 /\ Len(Is!None) = 0
  BY DEF IsHash, Is!None
<1> QED  BY <1>1, <1>2 DEF IsHash, Is!Ephemeral

\* An end keeps its transcript, its peer and what it has sent.
IsLater(x, y) ==
  /\ x.hash # Is!None => y.hash = x.hash
  /\ x.peer # 0 => y.peer = x.peer
  /\ IsBegins(x.put, y.put)

\* An end that does nothing.
LEMMA IsSameLater == ASSUME NEW x \in IsEnds PROVE IsLater(x, x)
BY DEF IsLater, IsBegins, IsEnds

\* What one end sent begins the same way later.
LEMMA IsBeginsLater ==
    ASSUME NEW s \in Seq(IsBodies), NEW t \in Seq(IsBodies), NEW u \in Seq(IsBodies),
           IsBegins(s, t), IsBegins(t, u)
    PROVE  IsBegins(s, u)
<1>1. Len(s) \in Nat /\ Len(t) \in Nat /\ Len(u) \in Nat
  OBVIOUS
<1> QED  BY <1>1 DEF IsBegins

\* The packets that were made.
LEMMA IsPacketKinds ==
    ASSUME NEW p
    PROVE  p \in IsPackets <=>
             \/ \E m \in Is!Links : p = IsHello(m)
             \/ \E k \in IsWith("ctl") : p = [type |-> "second", hash |-> isEnd[k]["ctl"].hash]
             \/ \E m \in IsWith("dev") : p = [type |-> "third", hash |-> isEnd[m]["dev"].hash]
             \/ \E m \in IsWith("dev") : p = Is!DeviceProof(m, isEnd[m]["dev"].hash)
             \/ \E k \in IsWith("ctl") : /\ isEnd[k]["ctl"].peer # 0
                                         /\ p = Is!ControllerProof(k, isEnd[k]["ctl"].peer)
             \/ \E l \in Is!Links, e \in Is!Ends : \E i \in 1 .. Len(isEnd[l][e].put) : p = IsSealed(l, e, i)
<1>1. p \in IsHandshakes <=>
        \/ \E m \in Is!Links : p = IsHello(m)
        \/ \E k \in IsWith("ctl") : p = [type |-> "second", hash |-> isEnd[k]["ctl"].hash]
        \/ \E m \in IsWith("dev") : p = [type |-> "third", hash |-> isEnd[m]["dev"].hash]
  BY DEF IsHandshakes
<1>2. p \in IsProofs <=>
        \/ \E m \in IsWith("dev") : p = Is!DeviceProof(m, isEnd[m]["dev"].hash)
        \/ \E k \in IsWith("ctl") : /\ isEnd[k]["ctl"].peer # 0
                                    /\ p = Is!ControllerProof(k, isEnd[k]["ctl"].peer)
  BY DEF IsProofs
<1>3. p \in IsData <=>
        \E l \in Is!Links, e \in Is!Ends : \E i \in 1 .. Len(isEnd[l][e].put) : p = IsSealed(l, e, i)
  <2>1. p \in IsData <=> \E at \in Is!Links \X Is!Ends :
                          \E i \in 1 .. Len(isEnd[at[1]][at[2]].put) : p = IsSealed(at[1], at[2], i)
    <3> DEFINE Of(at) == {IsSealed(at[1], at[2], i) : i \in 1 .. Len(isEnd[at[1]][at[2]].put)}
    <3>1. \A at : p \in Of(at) <=> \E i \in 1 .. Len(isEnd[at[1]][at[2]].put) : p = IsSealed(at[1], at[2], i)
      OBVIOUS
    <3>2. IsData = UNION {Of(at) : at \in Is!Links \X Is!Ends}
      BY DEF IsData
    <3> HIDE DEF Of
    <3>3. p \in IsData <=> \E at \in Is!Links \X Is!Ends : p \in Of(at)
      BY <3>2
    <3> QED  BY <3>1, <3>3, Zenon
  <2>2. ASSUME NEW l \in Is!Links, NEW e \in Is!Ends
        PROVE  <<l, e>> \in Is!Links \X Is!Ends /\ <<l, e>>[1] = l /\ <<l, e>>[2] = e
    OBVIOUS
  <2>3. ASSUME NEW at \in Is!Links \X Is!Ends PROVE at[1] \in Is!Links /\ at[2] \in Is!Ends
    OBVIOUS
  <2> DEFINE P(l, e) == \E i \in 1 .. Len(isEnd[l][e].put) : p = IsSealed(l, e, i)
  <2>4. p \in IsData <=> \E at \in Is!Links \X Is!Ends : P(at[1], at[2])
    BY <2>1
  <2> HIDE DEF P
  <2>5. p \in IsData => \E l \in Is!Links, e \in Is!Ends : P(l, e)
    BY <2>3, <2>4
  <2>6. ASSUME NEW l \in Is!Links, NEW e \in Is!Ends, P(l, e) PROVE p \in IsData
    <3>1. P(<<l, e>>[1], <<l, e>>[2])
      BY <2>2, <2>6
    <3> QED  BY <2>2, <2>4, <3>1
  <2> QED  BY <2>5, <2>6 DEF P
<1> QED  BY <1>1, <1>2, <1>3 DEF IsPackets

-----------------------------------------------------------------------------
\* When ends only move on, so does what was made.
LEMMA IsPacketsGrow ==
    ASSUME isEnd \in [Is!Links -> [Is!Ends -> IsEnds]], isEnd' \in [Is!Links -> [Is!Ends -> IsEnds]],
           UNCHANGED <<isKind, isCtl>>,
           \A l \in Is!Links, e \in Is!Ends : IsOk(l, e, isEnd[l][e]),
           \A l \in Is!Links, e \in Is!Ends : IsLater(isEnd[l][e], isEnd'[l][e])
    PROVE  IsPackets \subseteq IsPackets'
<1> SUFFICES ASSUME NEW p \in IsPackets PROVE p \in IsPackets'
  OBVIOUS
<1>1. \A e \in Is!Ends : \A l \in IsWith(e) :
        l \in Is!Links /\ isEnd'[l][e].hash = isEnd[l][e].hash /\ l \in IsWith(e)'
  BY DEF IsWith, IsLater
<1>2. CASE \E m \in Is!Links : p = IsHello(m)
  <2>1. \A m \in Is!Links : IsHello(m)' = IsHello(m)
    BY DEF IsHello, Is!MemberHello, Is!SealedHello
  <2> QED  BY <1>2, <2>1 DEF IsPackets, IsHandshakes
<1>3. CASE \E k \in IsWith("ctl") : p = [type |-> "second", hash |-> isEnd[k]["ctl"].hash]
  BY <1>1, <1>3, IsPlaces DEF IsPackets, IsHandshakes
<1>4. CASE \E m \in IsWith("dev") : p = [type |-> "third", hash |-> isEnd[m]["dev"].hash]
  BY <1>1, <1>4, IsPlaces DEF IsPackets, IsHandshakes
<1>5. CASE \E m \in IsWith("dev") : p = Is!DeviceProof(m, isEnd[m]["dev"].hash)
  <2>1. PICK m \in IsWith("dev") : p = Is!DeviceProof(m, isEnd[m]["dev"].hash)
    BY <1>5
  <2>2. p = Is!DeviceProof(m, isEnd'[m]["dev"].hash) /\ m \in IsWith("dev")'
    BY <1>1, <2>1, IsPlaces
  <2> QED  BY <2>2 DEF IsPackets, IsProofs
<1>6. CASE \E k \in IsWith("ctl") : /\ isEnd[k]["ctl"].peer # 0
                                    /\ p = Is!ControllerProof(k, isEnd[k]["ctl"].peer)
  <2>1. PICK k \in IsWith("ctl") : /\ isEnd[k]["ctl"].peer # 0
                                   /\ p = Is!ControllerProof(k, isEnd[k]["ctl"].peer)
    BY <1>6
  <2>2. /\ k \in IsWith("ctl")' /\ isEnd'[k]["ctl"].hash = isEnd[k]["ctl"].hash
        /\ isEnd'[k]["ctl"].peer = isEnd[k]["ctl"].peer
    BY <1>1, <2>1, IsPlaces DEF IsLater
  <2>3. Is!ControllerProof(k, isEnd[k]["ctl"].peer)' = Is!ControllerProof(k, isEnd[k]["ctl"].peer)
    BY <2>2 DEF Is!ControllerProof
  <2> QED  BY <2>1, <2>2, <2>3 DEF IsPackets, IsProofs
<1>7. CASE \E l \in Is!Links, e \in Is!Ends : \E i \in 1 .. Len(isEnd[l][e].put) : p = IsSealed(l, e, i)
  <2>1. PICK l \in Is!Links, e \in Is!Ends : \E i \in 1 .. Len(isEnd[l][e].put) : p = IsSealed(l, e, i)
    BY <1>7
  <2>2. PICK i \in 1 .. Len(isEnd[l][e].put) : p = IsSealed(l, e, i)
    BY <2>1
  <2>3. isEnd[l][e] \in IsEnds /\ isEnd'[l][e] \in IsEnds /\ IsLater(isEnd[l][e], isEnd'[l][e])
        /\ IsStaged(e, isEnd[l][e])
    BY DEF IsOk
  <2>4. isEnd[l][e].put # <<>>
    BY <2>2
  <2>5. isEnd'[l][e].hash = isEnd[l][e].hash
    BY <2>3, <2>4 DEF IsStaged, IsLater
  <2>6. i \in 1 .. Len(isEnd'[l][e].put) /\ isEnd'[l][e].put[i] = isEnd[l][e].put[i]
    BY <2>2, <2>3 DEF IsLater, IsBegins, IsEnds
  <2>7. IsSealed(l, e, i)' = p
    BY <2>2, <2>5, <2>6 DEF IsSealed
  <2>8. <<l, e>> \in Is!Links \X Is!Ends /\ <<l, e>>[1] = l /\ <<l, e>>[2] = e
    OBVIOUS
  <2> QED  BY <2>6, <2>7, <2>8 DEF IsPackets, IsData
<1> QED  BY <1>2, <1>3, <1>4, <1>5, <1>6, <1>7, IsPacketKinds

\* An end is still all right when the other ends move on.
LEMMA IsOkLater ==
    ASSUME isEnd \in [Is!Links -> [Is!Ends -> IsEnds]], isEnd' \in [Is!Links -> [Is!Ends -> IsEnds]],
           UNCHANGED <<isKind, isCtl>>,
           \A k \in Is!Links, f \in Is!Ends : IsLater(isEnd[k][f], isEnd'[k][f]),
           NEW l \in Is!Links, NEW e \in Is!Ends, NEW x, IsOk(l, e, x),
           x.stage \in {"registering", "open"} /\ e = "ctl" /\ isKind[l] = "member" =>
             (IsIn(l, x.peer) => IsIn(l, x.peer)')
    PROVE  IsOk(l, e, x)'
<1>1. x \in IsEnds /\ IsStaged(e, x)
  BY DEF IsOk
<1>2. IsKeyed(l, e, x)'
  <2>1. IsKeyed(l, e, x)
    BY DEF IsOk
  <2> QED  BY <2>1, IsPlaces DEF IsKeyed, IsLater
<1>3. IsHeard(e, x)'
  <2> SUFFICES ASSUME x.got # <<>>
               PROVE  \E k \in Is!Links : /\ isEnd'[k][Is!Other(e)].hash = x.hash
                                          /\ IsBegins(x.got, isEnd'[k][Is!Other(e)].put)
    BY DEF IsHeard
  <2> DEFINE o == Is!Other(e)
  <2>1. x.hash # Is!None /\ o \in Is!Ends
    BY <1>1, IsPlaces DEF IsStaged
  <2>2. PICK k \in Is!Links : isEnd[k][o].hash = x.hash /\ IsBegins(x.got, isEnd[k][o].put)
    BY DEF IsOk, IsHeard
  <2>3. IsLater(isEnd[k][o], isEnd'[k][o])
    BY <2>1
  <2>4. x.got \in Seq(IsBodies) /\ isEnd[k][o].put \in Seq(IsBodies) /\ isEnd'[k][o].put \in Seq(IsBodies)
    <3>1. x \in IsEnds /\ isEnd[k][o] \in IsEnds /\ isEnd'[k][o] \in IsEnds
      BY <1>1, <2>1
    <3>2. \A z \in IsEnds : z.put \in Seq(IsBodies) /\ z.got \in Seq(IsBodies)
      BY DEF IsEnds
    <3> QED  BY ONLY <3>1, <3>2
  <2>5. isEnd'[k][o].hash = x.hash
    BY <2>1, <2>2, <2>3 DEF IsLater
  <2>6. IsBegins(x.got, isEnd'[k][o].put)
    BY <2>2, <2>3, <2>4, IsBeginsLater DEF IsLater
  <2> QED  BY <2>5, <2>6
<1>4. IsTrusts(l, e, x)'
  <2> SUFFICES ASSUME x.stage \in {"registering", "open"} PROVE IsTrusts(l, e, x)'
    BY DEF IsTrusts
  <2>1. x.hash # Is!None /\ IsTrusts(l, e, x)
    BY <1>1 DEF IsStaged, IsOk
  <2>2. CASE e = "dev"
    <3>1. PICK k \in Is!Links : /\ isEnd[k]["ctl"].hash = x.hash
                                /\ isKind[k] = isKind[l] /\ isCtl[k] = "mine"
                                /\ isKind[l] = "member" => isEnd[k]["ctl"].peer = l
      BY <2>1, <2>2 DEF IsTrusts
    <3>2. IsLater(isEnd[k]["ctl"], isEnd'[k]["ctl"]) /\ l # 0
      BY IsPlaces
    <3> QED  BY <2>1, <2>2, <3>1, <3>2 DEF IsTrusts, IsLater
  <2>3. CASE e = "ctl"
    <3> SUFFICES ASSUME isKind[l] = "member"
                 PROVE  /\ isCtl[l] = "mine"
                        /\ \E k \in Is!Links : isEnd'[k]["dev"].hash = x.hash /\ x.peer = k /\ IsIn(l, k)'
      BY <2>3 DEF IsTrusts
    <3>1. isCtl[l] = "mine" /\ \E k \in Is!Links : isEnd[k]["dev"].hash = x.hash /\ x.peer = k /\ IsIn(l, k)
      BY <2>1, <2>3 DEF IsTrusts
    <3>2. PICK k \in Is!Links : isEnd[k]["dev"].hash = x.hash /\ x.peer = k /\ IsIn(l, k)
      BY <3>1
    <3>3. isEnd'[k]["dev"].hash = x.hash /\ IsIn(l, k)'
      BY <2>1, <2>3, <3>2, IsPlaces DEF IsLater
    <3> QED  BY <3>1, <3>2, <3>3
  <2> QED  BY <2>2, <2>3, IsPlaces
<1>5. e = Is!Caller(l)' => IsNumbered(x)
  BY DEF IsOk, Is!Caller
<1>6. x.stage # "closed" /\ x.read # "whole" => x.stage = "open" /\ e # Is!Caller(l)'
  BY DEF IsOk, Is!Caller
<1> QED  BY <1>1, <1>2, <1>3, <1>4, <1>5, <1>6 DEF IsOk

-----------------------------------------------------------------------------
\* The wires with packets of a set.
IsWires(A) == [Is!Links -> [Is!Ends -> Seq(A)]]

\* What becomes of a wire.
IsPut(w, l, e, ps)  == [w EXCEPT ![l][e] = @ \o ps]
IsPush(w, l, e, p)  == [w EXCEPT ![l][e] = Append(@, p)]
IsDrop(w, l, e)     == [w EXCEPT ![l][e] = Tail(@)]

\* Packets are put behind those on a wire.
LEMMA IsWireSends ==
    ASSUME NEW A, NEW w \in IsWires(A), NEW l \in Is!Links, NEW e \in Is!Ends, NEW ps \in Seq(A),
           NEW v, v = IsPut(w, l, e, ps)
    PROVE  /\ v \in IsWires(A)
           /\ \A k \in Is!Links, f \in Is!Ends : w[k][f] # <<>> => v[k][f] # <<>>
<1>1. w[l][e] \in Seq(A)
  BY DEF IsWires
<1>2. w[l][e] \o ps \in Seq(A) /\ Len(w[l][e] \o ps) = Len(w[l][e]) + Len(ps)
  BY <1>1, ConcatProperties
<1>3. w[l][e] # <<>> => w[l][e] \o ps # <<>>
  BY <1>1, <1>2
<1> QED  BY <1>2, <1>3 DEF IsWires, IsPut

\* The first packet is taken off a wire.
LEMMA IsWireRest ==
    ASSUME NEW A, NEW w \in IsWires(A), NEW l \in Is!Links, NEW e \in Is!Ends, w[l][e] # <<>>,
           NEW v, v = IsDrop(w, l, e)
    PROVE  /\ v \in IsWires(A) /\ Head(w[l][e]) \in A
           /\ \A k \in Is!Links, f \in Is!Ends : <<k, f>> # <<l, e>> => v[k][f] = w[k][f]
<1>1. w[l][e] \in Seq(A)
  BY DEF IsWires
<1>2. Tail(w[l][e]) \in Seq(A) /\ Head(w[l][e]) \in A
  BY <1>1, HeadTailProperties
<1> QED  BY <1>2 DEF IsWires, IsDrop

\* A packet more.
LEMMA IsWireAppends ==
    ASSUME NEW A, NEW w \in IsWires(A), NEW l \in Is!Links, NEW e \in Is!Ends, NEW p \in A,
           NEW v, v = IsPush(w, l, e, p)
    PROVE  /\ v \in IsWires(A)
           /\ \A k \in Is!Links, f \in Is!Ends : w[k][f] # <<>> => v[k][f] # <<>>
<1>1. w[l][e] \in Seq(A)
  BY DEF IsWires
<1>2. Append(w[l][e], p) \in Seq(A) /\ Append(w[l][e], p) # <<>>
  BY <1>1, AppendProperties
<1> QED  BY <1>2 DEF IsWires, IsPush

\* What is on a wire stays something that was made.
LEMMA IsWiresGrow ==
    ASSUME NEW A, NEW B, A \subseteq B, NEW w \in IsWires(A)
    PROVE  w \in IsWires(B)
<1>1. \A s \in Seq(A) : s \in Seq(B)
  OBVIOUS
<1> QED  BY <1>1 DEF IsWires

\* One end becomes n: all ends are still all right.
LEMMA IsEndsNext ==
    ASSUME IsBase, NEW l \in Is!Links, NEW e \in Is!Ends, NEW n,
           IsOk(l, e, n), IsLater(isEnd[l][e], n), Is!Becomes(l, e, n),
           UNCHANGED <<isKind, isCtl, isAllowed, isRevoking, isCut>>
    PROVE  /\ isEnd' \in [Is!Links -> [Is!Ends -> IsEnds]]
           /\ \A k \in Is!Links, f \in Is!Ends : (IsOk(k, f, isEnd[k][f]))'
           /\ isEnd'[l][e] = n
           /\ \A k \in Is!Links, f \in Is!Ends : <<k, f>> # <<l, e>> => isEnd'[k][f] = isEnd[k][f]
           /\ IsPackets \subseteq IsPackets'
           /\ isWire \in IsWires(IsPackets')
<1>1. isEnd \in [Is!Links -> [Is!Ends -> IsEnds]] /\ n \in IsEnds
  BY DEF IsBase, IsOk
<1>2. isEnd' = [isEnd EXCEPT ![l][e] = n]
  BY DEF Is!Becomes
<1>3. isEnd' \in [Is!Links -> [Is!Ends -> IsEnds]] /\ isEnd'[l][e] = n
  BY <1>1, <1>2
<1>4. ASSUME NEW k \in Is!Links, NEW f \in Is!Ends, <<k, f>> # <<l, e>>
      PROVE  isEnd'[k][f] = isEnd[k][f]
  BY <1>1, <1>2, <1>4
<1>5. ASSUME NEW k \in Is!Links, NEW f \in Is!Ends
      PROVE  /\ IsLater(isEnd[k][f], isEnd'[k][f])
             /\ IsOk(k, f, isEnd'[k][f])
  <2>1. CASE k = l /\ f = e
    BY <1>3, <2>1
  <2>2. CASE ~(k = l /\ f = e)
    <3>1. isEnd'[k][f] = isEnd[k][f]
      BY <1>4, <2>2
    <3>2. IsLater(isEnd[k][f], isEnd[k][f])
      BY <1>1, IsSameLater
    <3> QED  BY <3>1, <3>2 DEF IsBase
  <2> QED  BY <2>1, <2>2
<1>6. ASSUME NEW k \in Is!Links, NEW f \in Is!Ends PROVE (IsOk(k, f, isEnd[k][f]))'
  <2>1. PICK x : x = isEnd'[k][f]
    OBVIOUS
  <2>3. IsOk(k, f, x)
    BY <1>5, <2>1
  <2>2. \A j \in Is!Links, g \in Is!Ends : IsLater(isEnd[j][g], isEnd'[j][g])
    BY <1>5
  <2>5. IsIn(k, x.peer)' <=> IsIn(k, x.peer)
    BY DEF IsIn
  <2>4. IsOk(k, f, x)'
    BY <1>1, <1>3, <2>2, <2>3, <2>5, IsOkLater
  <2> QED  BY <2>1, <2>4
<1>7. IsPackets \subseteq IsPackets'
  <2>1. \A j \in Is!Links, g \in Is!Ends : IsOk(j, g, isEnd[j][g]) /\ IsLater(isEnd[j][g], isEnd'[j][g])
    BY <1>5 DEF IsBase
  <2> QED  BY <1>1, <1>3, <2>1, IsPacketsGrow
<1>8. isWire \in IsWires(IsPackets')
  BY <1>7, IsWiresGrow DEF IsBase, IsWires
<1> QED  BY <1>3, <1>4, <1>6, <1>7, <1>8

\* The invariant is kept when the wires hold what was made, and what an end
\* has begun to read is still there.
LEMMA IsBaseNext ==
    ASSUME IsBase, NEW l \in Is!Links, NEW e \in Is!Ends, NEW n,
           IsOk(l, e, n), IsLater(isEnd[l][e], n), Is!Becomes(l, e, n),
           UNCHANGED <<isKind, isCtl, isAllowed, isRevoking, isCut>>, isCross' \in BOOLEAN,
           isWire' \in IsWires(IsPackets'),
           \A k \in Is!Links, f \in Is!Ends :
             isWire[k][f] # <<>> /\ <<k, f>> # <<l, e>> => isWire'[k][f] # <<>>,
           n.stage = "open" /\ n.read # "whole" => isWire'[l][e] # <<>>
    PROVE  IsBase'
<1>1. /\ isEnd' \in [Is!Links -> [Is!Ends -> IsEnds]]
      /\ \A k \in Is!Links, f \in Is!Ends : (IsOk(k, f, isEnd[k][f]))'
      /\ isEnd'[l][e] = n
      /\ \A k \in Is!Links, f \in Is!Ends : <<k, f>> # <<l, e>> => isEnd'[k][f] = isEnd[k][f]
  BY IsEndsNext
<1>2. ASSUME NEW k \in Is!Links, NEW f \in Is!Ends,
             isEnd'[k][f].stage = "open", isEnd'[k][f].read # "whole"
      PROVE  isWire'[k][f] # <<>>
  <2>1. CASE k = l /\ f = e
    BY <1>1, <1>2, <2>1
  <2>2. CASE ~(k = l /\ f = e)
    <3>1. <<k, f>> # <<l, e>>
      BY <2>2
    <3>2. isEnd'[k][f] = isEnd[k][f]
      BY <1>1, <3>1
    <3>3. isWire[k][f] # <<>>
      BY <1>2, <3>2 DEF IsBase
    <3> QED  BY <3>1, <3>3
  <2> QED  BY <2>1, <2>2
<1>3. /\ isKind' \in [Is!Links -> {"member", "sealed"}] /\ isCtl' \in [Is!Links -> {"mine", "other"}]
      /\ isAllowed' \in [Is!Links -> BOOLEAN]
  BY DEF IsBase
<1> QED  BY <1>1, <1>2, <1>3 DEF IsBase, IsWires

-----------------------------------------------------------------------------
\* A step that sends.
LEMMA IsSends ==
    ASSUME IsBase, NEW l \in Is!Links, NEW e \in Is!Ends, NEW n, NEW ps,
           IsOk(l, e, n), IsLater(isEnd[l][e], n), Is!Becomes(l, e, n), Is!Still,
           ps \in Seq(IsPackets'), Is!Writes(l, e, ps),
           n.stage = "open" /\ n.read # "whole" => isWire[l][e] # <<>>
    PROVE  IsBase'
<1>1. UNCHANGED <<isKind, isCtl, isAllowed, isRevoking, isCut>> /\ isCross' = isCross
  BY DEF Is!Still
<1>2. isWire \in IsWires(IsPackets')
  BY <1>1, IsEndsNext
<1>3. isWire' = [isWire EXCEPT ![Is!Route(l)][Is!Other(e)] = @ \o ps]
  BY DEF Is!Writes
<1>4. /\ isWire' \in IsWires(IsPackets')
      /\ \A k \in Is!Links, f \in Is!Ends : isWire[k][f] # <<>> => isWire'[k][f] # <<>>
  <2>1. PICK A, w, v : A = IsPackets' /\ w = isWire /\ v = isWire'
    OBVIOUS
  <2>2. Is!Route(l) \in Is!Links /\ Is!Other(e) \in Is!Ends
    BY IsPlaces
  <2>3. w \in IsWires(A) /\ ps \in Seq(A) /\ v = IsPut(w, Is!Route(l), Is!Other(e), ps)
    BY <1>2, <1>3, <2>1 DEF IsPut
  <2>4. v \in IsWires(A) /\ \A k \in Is!Links, f \in Is!Ends : w[k][f] # <<>> => v[k][f] # <<>>
    BY SMTT(30), <2>2, <2>3, IsWireSends
  <2> QED  BY <2>1, <2>4
<1>5. isCross' \in BOOLEAN
  BY <1>1 DEF IsBase
<1> QED  BY <1>1, <1>4, <1>5, IsBaseNext

\* A step that reads a packet.
LEMMA IsTakes ==
    ASSUME IsBase, NEW l \in Is!Links, NEW e \in Is!Ends, NEW n,
           IsOk(l, e, n), IsLater(isEnd[l][e], n), Is!Takes(l, e, n), isWire[l][e] # <<>>,
           n.stage = "open" => n.read = "whole"
    PROVE  IsBase'
<1>1. UNCHANGED <<isKind, isCtl, isAllowed, isRevoking, isCut>> /\ isCross' = isCross /\ Is!Becomes(l, e, n)
      /\ isWire' = [isWire EXCEPT ![l][e] = Tail(@)]
  BY DEF Is!Takes, Is!Still, Is!Rest
<1>2. isWire \in IsWires(IsPackets')
  BY <1>1, IsEndsNext
<1>3. /\ isWire' \in IsWires(IsPackets')
      /\ \A k \in Is!Links, f \in Is!Ends : <<k, f>> # <<l, e>> => isWire'[k][f] = isWire[k][f]
  <2>1. PICK A, w, v : A = IsPackets' /\ w = isWire /\ v = isWire'
    OBVIOUS
  <2>2. w \in IsWires(A) /\ w[l][e] # <<>> /\ v = IsDrop(w, l, e)
    BY <1>1, <1>2, <2>1 DEF IsDrop
  <2>3. v \in IsWires(A) /\ \A k \in Is!Links, f \in Is!Ends : <<k, f>> # <<l, e>> => v[k][f] = w[k][f]
    BY <2>2, IsWireRest
  <2> QED  BY <2>1, <2>3
<1>4. isCross' \in BOOLEAN
  BY <1>1 DEF IsBase
<1>5. \A k \in Is!Links, f \in Is!Ends :
        isWire[k][f] # <<>> /\ <<k, f>> # <<l, e>> => isWire'[k][f] # <<>>
  BY <1>3
<1> QED  BY <1>1, <1>3, <1>4, <1>5, IsBaseNext

\* A step that reads a packet and sends.
LEMMA IsTurns ==
    ASSUME IsBase, NEW l \in Is!Links, NEW e \in Is!Ends, NEW n, NEW ps,
           IsOk(l, e, n), IsLater(isEnd[l][e], n), Is!Becomes(l, e, n), Is!Still,
           isWire[l][e] # <<>>, n.stage = "open" => n.read = "whole",
           \/ /\ ps \in Seq(IsPackets')
              /\ isWire' = [Is!Rest(l, e) EXCEPT ![Is!Route(l)][Is!Other(e)] = @ \o ps]
           \/ /\ ps \in IsPackets'
              /\ isWire' = [Is!Rest(l, e) EXCEPT ![Is!Route(l)][Is!Other(e)] = Append(@, ps)]
    PROVE  IsBase'
<1>1. UNCHANGED <<isKind, isCtl, isAllowed, isRevoking, isCut>> /\ isCross' = isCross
  BY DEF Is!Still
<1>2. isWire \in IsWires(IsPackets')
  BY <1>1, IsEndsNext
<1>3. PICK w : w = Is!Rest(l, e)
  OBVIOUS
<1>4. w = [isWire EXCEPT ![l][e] = Tail(@)]
  BY <1>3 DEF Is!Rest
<1>5. /\ w \in IsWires(IsPackets')
      /\ \A k \in Is!Links, f \in Is!Ends : <<k, f>> # <<l, e>> => w[k][f] = isWire[k][f]
  <2>1. PICK A, u : A = IsPackets' /\ u = isWire
    OBVIOUS
  <2>2. u \in IsWires(A) /\ u[l][e] # <<>> /\ w = IsDrop(u, l, e)
    BY <1>2, <1>4, <2>1 DEF IsDrop
  <2>3. w \in IsWires(A) /\ \A k \in Is!Links, f \in Is!Ends : <<k, f>> # <<l, e>> => w[k][f] = u[k][f]
    BY <2>2, IsWireRest
  <2> QED  BY <2>1, <2>3
<1>6. /\ isWire' \in IsWires(IsPackets')
      /\ \A k \in Is!Links, f \in Is!Ends : w[k][f] # <<>> => isWire'[k][f] # <<>>
  <2>1. PICK A, v : A = IsPackets' /\ v = isWire'
    OBVIOUS
  <2>2. Is!Route(l) \in Is!Links /\ Is!Other(e) \in Is!Ends
    BY IsPlaces
  <2>3. CASE ps \in Seq(A) /\ v = IsPut(w, Is!Route(l), Is!Other(e), ps)
    <3>1. v \in IsWires(A) /\ \A k \in Is!Links, f \in Is!Ends : w[k][f] # <<>> => v[k][f] # <<>>
      BY SMTT(30), <1>5, <2>1, <2>2, <2>3, IsWireSends
    <3> QED  BY <2>1, <3>1
  <2>4. CASE ps \in A /\ v = IsPush(w, Is!Route(l), Is!Other(e), ps)
    <3>1. v \in IsWires(A) /\ \A k \in Is!Links, f \in Is!Ends : w[k][f] # <<>> => v[k][f] # <<>>
      BY SMTT(30), <1>5, <2>1, <2>2, <2>4, IsWireAppends
    <3> QED  BY <2>1, <3>1
  <2> QED  BY <1>3, <2>1, <2>3, <2>4 DEF IsPut, IsPush
<1>7. isCross' \in BOOLEAN
  BY <1>1 DEF IsBase
<1>8. \A k \in Is!Links, f \in Is!Ends :
        isWire[k][f] # <<>> /\ <<k, f>> # <<l, e>> => isWire'[k][f] # <<>>
  BY <1>5, <1>6
<1> QED  BY <1>1, <1>6, <1>7, <1>8, IsBaseNext

\* An end that closes keeps what it knows.
LEMMA IsClosedOk ==
    ASSUME NEW l \in Is!Links, NEW e \in Is!Ends, NEW x, IsOk(l, e, x)
    PROVE  IsOk(l, e, Is!Closed(x)) /\ IsLater(x, Is!Closed(x)) /\ Is!Closed(x).stage = "closed"
<1> DEFINE n == Is!Closed(x)
<1>1. x \in IsEnds /\ IsStaged(e, x)
  BY DEF IsOk
<1>2. /\ n \in IsEnds /\ n.stage = "closed" /\ n.task = 0 /\ n.hash = x.hash /\ n.peer = x.peer
      /\ n.put = x.put /\ n.got = x.got
  BY <1>1 DEF IsEnds, IsStages, Is!Closed
<1> HIDE DEF n
<1>3. IsStaged(e, n) /\ IsKeyed(l, e, n) /\ IsHeard(e, n) /\ IsTrusts(l, e, n)
  BY <1>1, <1>2, IsPlaces DEF IsOk, IsStaged, IsKeyed, IsHeard, IsTrusts
<1>4. Is!Replies(n) = Is!Replies(x)
  BY <1>2 DEF Is!Replies
<1>5. e = Is!Caller(l) => IsNumbered(n)
  BY <1>2, <1>4 DEF IsOk, IsNumbered
<1>6. IsLater(x, n)
  BY <1>1, <1>2 DEF IsLater, IsBegins, IsEnds
<1> QED  BY <1>2, <1>3, <1>5, <1>6 DEF IsOk, n

\* A packet that does not fit closes the end.
LEMMA IsRefuses ==
    ASSUME IsBase, NEW l \in Is!Links, NEW e \in Is!Ends, Is!Refuses(l, e), isWire[l][e] # <<>>
    PROVE  IsBase'
<1>1. PICK x : x = isEnd[l][e]
  OBVIOUS
<1>2. IsOk(l, e, x)
  BY <1>1 DEF IsBase
<1>3. IsOk(l, e, Is!Closed(x)) /\ IsLater(x, Is!Closed(x)) /\ Is!Closed(x).stage = "closed"
  BY <1>2, IsClosedOk
<1>4. PICK n : n = Is!Closed(x)
  OBVIOUS
<1>5. Is!Takes(l, e, n)
  BY <1>1, <1>4 DEF Is!Refuses
<1> QED  BY <1>1, <1>3, <1>4, <1>5, IsTakes

-----------------------------------------------------------------------------
(* Packets.                                                                 *)

\* The first packet on a wire was made.
LEMMA IsFirst ==
    ASSUME IsBase, NEW l \in Is!Links, NEW e \in Is!Ends, isWire[l][e] # <<>>
    PROVE  Is!First(l, e) \in IsPackets
<1>1. isWire[l][e] \in Seq(IsPackets)
  BY DEF IsBase
<1>2. PICK A, s : A = IsPackets /\ s = isWire[l][e]
  OBVIOUS
<1>3. s \in Seq(A) /\ s # <<>>
  BY <1>1, <1>2
<1> QED  BY <1>2, <1>3, HeadTailProperties DEF Is!First

\* What a packet of a type says.
LEMMA IsReading ==
    ASSUME IsBase, NEW p \in IsPackets
    PROVE  /\ p.type \in {"member", "sealed"} => \E m \in Is!Links : p = IsHello(m) /\ isKind[m] = p.type
           /\ p.type = "second" => \E k \in IsWith("ctl") : p.hash = isEnd[k]["ctl"].hash
           /\ p.type = "device_proof" =>
                \E m \in IsWith("dev") : /\ p.hash = isEnd[m]["dev"].hash
                                         /\ p.device = m /\ p.controller = "mine"
           /\ p.type = "controller_proof" =>
                \E k \in IsWith("ctl") :
                  /\ p.hash = isEnd[k]["ctl"].hash
                  /\ p.device = isEnd[k]["ctl"].peer /\ p.controller = isCtl[k]
           /\ p.type = "data" =>
                \E l \in Is!Links, e \in Is!Ends : \E i \in 1 .. Len(isEnd[l][e].put) : p = IsSealed(l, e, i)
<1>1. CASE \E m \in Is!Links : p = IsHello(m)
  <2>1. PICK m \in Is!Links : p = IsHello(m)
    BY <1>1
  <2>2. isKind[m] \in {"member", "sealed"}
    BY DEF IsBase
  <2>3. p.type = isKind[m]
    BY <2>1, <2>2 DEF IsHello, Is!MemberHello, Is!SealedHello
  <2> QED  BY <2>1, <2>2, <2>3
<1>2. CASE \E k \in IsWith("ctl") : p = [type |-> "second", hash |-> isEnd[k]["ctl"].hash]
  BY <1>2
<1>3. CASE \E m \in IsWith("dev") : p = [type |-> "third", hash |-> isEnd[m]["dev"].hash]
  BY <1>3
<1>4. CASE \E m \in IsWith("dev") : p = Is!DeviceProof(m, isEnd[m]["dev"].hash)
  BY <1>4 DEF Is!DeviceProof
<1>5. CASE \E k \in IsWith("ctl") : /\ isEnd[k]["ctl"].peer # 0
                                    /\ p = Is!ControllerProof(k, isEnd[k]["ctl"].peer)
  BY <1>5 DEF Is!ControllerProof
<1>6. CASE \E l \in Is!Links, e \in Is!Ends : \E i \in 1 .. Len(isEnd[l][e].put) : p = IsSealed(l, e, i)
  <2>1. p.type = "data"
    BY <1>6 DEF IsSealed
  <2> QED  BY <1>6, <2>1
<1> QED  BY <1>1, <1>2, <1>3, <1>4, <1>5, <1>6, IsPacketKinds

\* The other end of a transcript is one, and of the same kind.
LEMMA IsPartner ==
    ASSUME IsBase, NEW l \in Is!Links, NEW e \in Is!Ends, NEW k \in Is!Links,
           isEnd[l][e].hash # Is!None, isEnd[k][Is!Other(e)].hash = isEnd[l][e].hash
    PROVE  /\ isKind[k] = isKind[l]
           /\ \A j \in Is!Links : isEnd[j][Is!Other(e)].hash = isEnd[l][e].hash => j = k
<1>0. \A j \in Is!Links : isCtl[j] \in {"mine", "other"}
  BY DEF IsBase
<1>1. ASSUME NEW j \in Is!Links, isEnd[j]["ctl"].hash # Is!None
      PROVE  \E m \in Is!Links : isEnd[j]["ctl"].hash = IsHash(m, j, isCtl[j]) /\ isKind[m] = isKind[j]
  <2>1. IsKeyed(j, "ctl", isEnd[j]["ctl"])
    BY IsPlaces DEF IsBase, IsOk
  <2> QED  BY <1>1, <2>1 DEF IsKeyed
<1>2. ASSUME NEW j \in Is!Links, isEnd[j]["dev"].hash # Is!None
      PROVE  \E c \in Is!Links : isEnd[j]["dev"].hash = IsHash(j, c, isCtl[c])
  <2>1. IsKeyed(j, "dev", isEnd[j]["dev"])
    BY IsPlaces DEF IsBase, IsOk
  <2> QED  BY <1>2, <2>1 DEF IsKeyed
<1>3. ASSUME NEW i \in Is!Links, NEW j \in Is!Links, isEnd[i]["dev"].hash # Is!None,
             isEnd[i]["dev"].hash = isEnd[j]["ctl"].hash
      PROVE  /\ isKind[i] = isKind[j]
             /\ \E c \in {"mine", "other"} : isEnd[i]["dev"].hash = IsHash(i, j, c)
  <2>1. PICK m \in Is!Links : isEnd[j]["ctl"].hash = IsHash(m, j, isCtl[j]) /\ isKind[m] = isKind[j]
    BY <1>1, <1>3
  <2>2. PICK c \in Is!Links : isEnd[i]["dev"].hash = IsHash(i, c, isCtl[c])
    BY <1>2, <1>3
  <2>3. i = m /\ c = j
    BY <1>0, <1>3, <2>1, <2>2, IsHashFacts
  <2> QED  BY <1>0, <2>1, <2>2, <2>3
<1>4. CASE e = "dev"
  <2>1. Is!Other(e) = "ctl"
    BY <1>4 DEF Is!Other
  <2> QED  BY <1>3, <1>4, <2>1, IsHashFacts
<1>5. CASE e = "ctl"
  <2>1. Is!Other(e) = "dev"
    BY <1>5 DEF Is!Other
  <2>2. isKind[k] = isKind[l]
    BY <1>3, <1>5, <2>1
  <2>3. ASSUME NEW j \in Is!Links, isEnd[j]["dev"].hash = isEnd[l]["ctl"].hash
        PROVE  j = k
    BY <1>3, <1>5, <2>1, <2>3, IsHashFacts
  <2> QED  BY <1>5, <2>1, <2>2, <2>3
<1> QED  BY <1>4, <1>5, IsPlaces

\* The packet that opens next is the next one that the other end sent.
LEMMA IsOpensNext ==
    ASSUME IsBase, NEW l \in Is!Links, NEW e \in Is!Ends, NEW p \in IsPackets, Is!Opens(l, e, p),
           isEnd[l][e].hash # Is!None
    PROVE  /\ p.body \in IsBodies
           /\ \A n : n.got = Append(isEnd[l][e].got, p.body) /\ n.hash = isEnd[l][e].hash => IsHeard(e, n)
<1>0. PICK x, o : x = isEnd[l][e] /\ o = Is!Other(e)
  OBVIOUS
<1>1. /\ p.type = "data" /\ p.hash = x.hash /\ p.from = o
      /\ p.nonce = IF isKind[l] = "member" THEN Len(x.got) + 1 ELSE Len(x.got)
  BY <1>0 DEF Is!Opens, Is!InnerOpens, Is!SealedOpens, Is!Decrypts
<1>2. PICK k \in Is!Links, f \in Is!Ends : \E i \in 1 .. Len(isEnd[k][f].put) : p = IsSealed(k, f, i)
  BY <1>1, IsReading
<1>3. PICK i \in 1 .. Len(isEnd[k][f].put) : p = IsSealed(k, f, i)
  BY <1>2
<1>4. PICK y : y = isEnd[k][f]
  OBVIOUS
<1>5. f = o /\ y.hash = x.hash /\ p.body = y.put[i]
      /\ p.nonce = IF isKind[k] = "member" THEN i ELSE i - 1
  BY <1>1, <1>3, <1>4 DEF IsSealed
<1>6. isKind[k] = isKind[l] /\ \A j \in Is!Links : isEnd[j][o].hash = x.hash => j = k
  <2>1. isEnd[l][e].hash # Is!None /\ isEnd[k][Is!Other(e)].hash = isEnd[l][e].hash
    BY <1>0, <1>4, <1>5
  <2> QED  BY <1>0, <2>1, IsPartner
<1>7. x \in IsEnds /\ y \in IsEnds /\ IsHeard(e, x)
  BY <1>0, <1>4 DEF IsBase, IsOk
<1>8. /\ x.got \in Seq(IsBodies) /\ y.put \in Seq(IsBodies) /\ i \in 1 .. Len(y.put)
      /\ Len(x.got) \in Nat /\ Len(y.put) \in Nat
  BY SMTT(30), <1>3, <1>4, <1>7 DEF IsEnds
<1>9. i = Len(x.got) + 1
  BY <1>1, <1>5, <1>6, <1>8
<1>10. p.body \in IsBodies
  BY <1>5, <1>8, ElementOfSeq
<1>11. IsBegins(x.got, y.put)
  <2>1. CASE x.got = <<>>
    BY <1>8, <2>1 DEF IsBegins
  <2>2. CASE x.got # <<>>
    <3>1. PICK j \in Is!Links : isEnd[j][o].hash = x.hash /\ IsBegins(x.got, isEnd[j][o].put)
      BY <1>0, <1>7, <2>2 DEF IsHeard
    <3>2. j = k
      BY <1>6, <3>1
    <3> QED  BY <1>4, <1>5, <3>1, <3>2
  <2> QED  BY <2>1, <2>2
<1>12. ASSUME NEW n, n.got = Append(isEnd[l][e].got, p.body), n.hash = isEnd[l][e].hash
       PROVE  IsHeard(e, n)
  <2>1. PICK g : g = n.got
    OBVIOUS
  <2>2. g = Append(x.got, p.body)
    BY <1>0, <1>12, <2>1
  <2>3. Len(g) = Len(x.got) + 1 /\ g[Len(x.got) + 1] = p.body
        /\ \A j \in 1 .. Len(x.got) : g[j] = x.got[j]
    BY <1>8, <1>10, <2>2, AppendProperties
  <2>4. ASSUME NEW j \in 1 .. Len(g) PROVE g[j] = y.put[j]
    <3>1. CASE j = Len(x.got) + 1
      BY <1>5, <1>9, <2>3, <3>1
    <3>2. CASE j \in 1 .. Len(x.got)
      BY <1>11, <2>3, <3>2 DEF IsBegins
    <3> QED  BY <1>8, <2>3, <2>4, <3>1, <3>2
  <2>5. IsBegins(g, y.put)
    BY <1>8, <1>9, <2>3, <2>4 DEF IsBegins
  <2>6. isEnd[k][Is!Other(e)].hash = n.hash /\ IsBegins(n.got, isEnd[k][Is!Other(e)].put)
    BY <1>0, <1>4, <1>5, <1>12, <2>1, <2>5
  <2> QED  BY <2>6 DEF IsHeard
<1> QED  BY <1>10, <1>12

\* What an end seals with the next number is a packet that was made.
LEMMA IsSealsMade ==
    ASSUME IsBase, NEW l \in Is!Links, NEW e \in Is!Ends, NEW body \in IsBodies,
           NEW x, x = isEnd[l][e], NEW y, y = isEnd'[l][e],
           y.put = Append(x.put, body), y.hash = x.hash, UNCHANGED isKind
    PROVE  Is!Seals(l, e, body) \in IsPackets'
<1>1. x.put \in Seq(IsBodies) /\ x \in IsEnds
  BY DEF IsBase, IsEnds
<1>2. PICK i : i = Len(x.put) + 1
  OBVIOUS
<1>3. /\ Len(y.put) = i /\ y.put[i] = body /\ Len(x.put) \in Nat /\ i \in 1 .. Len(y.put)
      /\ i - 1 = Len(x.put)
  <2>1. PICK s, t : s = x.put /\ t = y.put
    OBVIOUS
  <2>2. s \in Seq(IsBodies) /\ t = Append(s, body) /\ body \in IsBodies /\ i = Len(s) + 1
    BY <1>1, <1>2, <2>1
  <2>3. Len(t) = Len(s) + 1 /\ t[Len(s) + 1] = body /\ Len(s) \in Nat
    BY ONLY <2>2, AppendProperties
  <2>4. Len(t) = i /\ t[i] = body /\ Len(s) \in Nat /\ i \in 1 .. Len(t) /\ i - 1 = Len(s)
    BY ONLY <2>2, <2>3
  <2> QED  BY ONLY <2>1, <2>4
<1>4. PICK q : q = IsSealed(l, e, i)'
  OBVIOUS
<1>5. q = [type |-> "data", hash |-> x.hash, from |-> e,
           nonce |-> IF isKind[l] = "member" THEN i ELSE i - 1,
           seq |-> IF isKind[l] = "member" THEN i - 1 ELSE 0, body |-> body]
  BY <1>3, <1>4 DEF IsSealed
<1>6. q = Is!Seals(l, e, body)
  BY <1>2, <1>3, <1>5 DEF Is!Seals, Is!InnerSeals, Is!SealedSeals
<1>7. PICK at : at = <<l, e>>
  OBVIOUS
<1>8. at \in Is!Links \X Is!Ends /\ at[1] = l /\ at[2] = e
  BY <1>7
<1>9. i \in 1 .. Len(isEnd'[at[1]][at[2]].put) /\ q = IsSealed(at[1], at[2], i)'
  BY <1>3, <1>4, <1>8
<1> QED  BY <1>6, <1>8, <1>9 DEF IsPackets, IsData

-----------------------------------------------------------------------------
(* Numbered replies.                                                        *)

\* Replies are counted.
LEMMA IsReplyCount ==
    ASSUME NEW x \in IsEnds
    PROVE  /\ Is!Replies(x) \subseteq 1 .. Len(x.got) /\ IsFiniteSet(Is!Replies(x))
           /\ Cardinality(Is!Replies(x)) \in Nat
<1>1. x.got \in Seq(IsBodies)
  BY DEF IsEnds
<1>2. Len(x.got) \in Nat /\ DOMAIN x.got = 1 .. Len(x.got)
  BY <1>1
<1>3. Is!Replies(x) \subseteq 1 .. Len(x.got)
  BY <1>2 DEF Is!Replies
<1>4. IsFiniteSet(1 .. Len(x.got))
  BY <1>2, FS_Interval
<1>5. IsFiniteSet(Is!Replies(x))
  BY <1>3, <1>4, FS_Subset
<1> QED  BY <1>3, <1>5, FS_CardinalityType

\* A caller that was given nothing.
LEMMA IsNumberedSame ==
    ASSUME NEW x \in IsEnds, NEW n \in IsEnds, IsNumbered(x), n.got = x.got, n.stage = x.stage,
           \/ n.task \in 0 .. 2 /\ n.calls = x.calls /\ (n.task = 2 <=> x.task = 2)
           \/ n.task = 2 /\ x.task # 2 /\ n.calls = x.calls + 1
    PROVE  IsNumbered(n)
<1>1. Is!Replies(n) = Is!Replies(x)
  BY DEF Is!Replies
<1>2. Cardinality(Is!Replies(x)) \in Nat /\ x.calls \in Nat
  BY IsReplyCount DEF IsEnds
<1>3. PICK c : c = Cardinality(Is!Replies(x))
  OBVIOUS
<1>4. n.stage = "open" => c + (IF n.task = 2 THEN 1 ELSE 0) = n.calls
  <2>1. x.stage = "open" => c + (IF x.task = 2 THEN 1 ELSE 0) = x.calls
    BY <1>3 DEF IsNumbered
  <2> QED  BY <1>2, <1>3, <2>1
<1>5. \A i \in Is!Replies(n) : n.got[i] = <<"reply", Cardinality({j \in Is!Replies(n) : j <= i})>>
  BY <1>1 DEF IsNumbered
<1> QED  BY <1>1, <1>3, <1>4, <1>5 DEF IsNumbered

\* A caller that was given something that is no reply.
LEMMA IsOtherGiven ==
    ASSUME NEW x \in IsEnds, NEW n \in IsEnds, NEW b \in IsBodies, IsNumbered(x),
           n.got = Append(x.got, b), b[1] # "reply", n.stage = x.stage, n.calls = x.calls,
           n.task \in 0 .. 2, n.task = 2 <=> x.task = 2
    PROVE  IsNumbered(n)
<1>1. x.got \in Seq(IsBodies) /\ Len(x.got) \in Nat
  BY DEF IsEnds
<1>2. /\ Len(n.got) = Len(x.got) + 1 /\ n.got[Len(x.got) + 1] = b
      /\ \A j \in 1 .. Len(x.got) : n.got[j] = x.got[j]
  BY <1>1, AppendProperties
<1>3. Is!Replies(x) \subseteq 1 .. Len(x.got) /\ Is!Replies(n) \subseteq 1 .. Len(n.got)
  BY IsReplyCount
<1>4. DOMAIN x.got = 1 .. Len(x.got) /\ DOMAIN n.got = 1 .. Len(n.got)
  BY DEF IsEnds
<1>5. Is!Replies(n) = Is!Replies(x)
  <2>1. \A j \in Is!Replies(n) : j \in 1 .. Len(x.got)
    BY <1>1, <1>2, <1>3 DEF Is!Replies
  <2> QED  BY <1>1, <1>2, <1>3, <1>4, <2>1 DEF Is!Replies
<1>6. \A i \in Is!Replies(n) : n.got[i] = <<"reply", Cardinality({j \in Is!Replies(n) : j <= i})>>
  BY <1>2, <1>3, <1>5 DEF IsNumbered
<1> QED  BY <1>5, <1>6 DEF IsNumbered

\* A caller that was given the reply it waits for.
LEMMA IsReplyGiven ==
    ASSUME NEW x \in IsEnds, NEW n \in IsEnds, NEW b, IsNumbered(x), x.stage = "open", x.task = 2,
           b = <<"reply", x.calls>>, n.got = Append(x.got, b), n.calls = x.calls, n.task = 0
    PROVE  IsNumbered(n)
<1>1. x.got \in Seq(IsBodies) /\ Len(x.got) \in Nat /\ x.calls \in Nat /\ b \in IsBodies /\ b[1] = "reply"
  BY DEF IsEnds, IsBodies, IsTags
<1>2. /\ Len(n.got) = Len(x.got) + 1 /\ n.got[Len(x.got) + 1] = b
      /\ \A j \in 1 .. Len(x.got) : n.got[j] = x.got[j]
  BY <1>1, AppendProperties
<1>3. /\ Is!Replies(x) \subseteq 1 .. Len(x.got) /\ IsFiniteSet(Is!Replies(x))
      /\ Cardinality(Is!Replies(x)) \in Nat /\ Is!Replies(n) \subseteq 1 .. Len(n.got)
  BY IsReplyCount
<1>4. DOMAIN x.got = 1 .. Len(x.got) /\ DOMAIN n.got = 1 .. Len(n.got)
  BY DEF IsEnds
<1>5. PICK m, A, B : m = Len(x.got) + 1 /\ A = Is!Replies(x) /\ B = Is!Replies(n)
  OBVIOUS
<1>6. B = A \cup {m}
  <2>1. m \in B
    BY <1>1, <1>2, <1>4, <1>5 DEF Is!Replies
  <2>2. ASSUME NEW j \in 1 .. Len(x.got) PROVE j \in A <=> j \in B
    BY <1>1, <1>2, <1>4, <1>5 DEF Is!Replies
  <2>3. \A j \in B : j = m \/ j \in 1 .. Len(x.got)
    BY <1>1, <1>2, <1>3, <1>5
  <2> QED  BY <1>3, <1>5, <2>1, <2>2, <2>3
<1>7. m \notin A /\ \A i \in A : i \in Nat /\ i < m
  BY <1>1, <1>3, <1>5
<1>8. Cardinality(B) = Cardinality(A) + 1
  <2>1. IsFiniteSet(A)
    BY <1>3, <1>5
  <2>2. Cardinality(A \cup {m}) = IF m \in A THEN Cardinality(A) ELSE Cardinality(A) + 1
    BY <2>1, FS_AddElement
  <2> QED  BY <1>6, <1>7, <2>2
<1>9. Cardinality(A) + 1 = x.calls
  <2>1. Cardinality(Is!Replies(x)) + (IF x.task = 2 THEN 1 ELSE 0) = x.calls
    BY DEF IsNumbered
  <2> QED  BY <1>5, <2>1
<1>10. ASSUME NEW i \in B PROVE n.got[i] = <<"reply", Cardinality({j \in B : j <= i})>>
  <2>1. CASE i \in A
    <3>1. {j \in B : j <= i} = {j \in A : j <= i}
      BY <1>1, <1>5, <1>6, <1>7, <2>1
    <3>2. n.got[i] = x.got[i]
      BY <1>2, <1>3, <1>5, <2>1
    <3>3. x.got[i] = <<"reply", Cardinality({j \in A : j <= i})>>
      BY <1>5, <2>1 DEF IsNumbered
    <3> QED  BY <3>1, <3>2, <3>3
  <2>2. CASE i = m
    <3>0. \A j \in B : j <= i
      BY <1>1, <1>5, <1>6, <1>7, <2>2
    <3>1. {j \in B : j <= i} = B
      BY <3>0
    <3> QED  BY <1>2, <1>5, <1>8, <1>9, <2>2, <3>1
  <2> QED  BY <1>6, <1>10, <2>1, <2>2
<1>11. n.stage = "open" => Cardinality(B) + (IF n.task = 2 THEN 1 ELSE 0) = n.calls
  <2>1. Cardinality(A) \in Nat
    BY <1>3, <1>5
  <2> QED  BY <1>1, <1>8, <1>9, <2>1
<1>12. n.task \in 0 .. 2 /\ B = Is!Replies(n)
  BY <1>5
<1> QED  BY <1>10, <1>11, <1>12 DEF IsNumbered

\* An open end that goes on as itself.
LEMMA IsOkData ==
    ASSUME NEW l \in Is!Links, NEW e \in Is!Ends, NEW x, IsOk(l, e, x), x.stage = "open",
           NEW n \in IsEnds, n.stage = x.stage, n.hash = x.hash, n.peer = x.peer,
           IsBegins(x.put, n.put), IsHeard(e, n), n.read # "whole" => e # Is!Caller(l),
           e = Is!Caller(l) => IsNumbered(n)
    PROVE  IsOk(l, e, n) /\ IsLater(x, n)
<1>1. IsStaged(e, n)
  BY DEF IsOk, IsStaged
<1>2. IsKeyed(l, e, n)
  BY DEF IsOk, IsKeyed
<1>3. IsTrusts(l, e, n)
  BY DEF IsOk, IsTrusts
<1>4. IsLater(x, n)
  BY DEF IsLater
<1> QED  BY <1>1, <1>2, <1>3, <1>4 DEF IsOk

\* What an end sends more.
LEMMA IsPutMore ==
    ASSUME NEW x \in IsEnds, NEW b \in IsBodies
    PROVE  /\ Append(x.put, b) \in Seq(IsBodies) /\ IsBegins(x.put, Append(x.put, b))
           /\ Append(x.got, b) \in Seq(IsBodies)
           /\ IsBegins(x.put, x.put)
           /\ x.put \in Seq(IsBodies) /\ x.got \in Seq(IsBodies)
<1>1. x.put \in Seq(IsBodies) /\ x.got \in Seq(IsBodies) /\ Len(x.put) \in Nat
  BY DEF IsEnds
<1>2. /\ Append(x.put, b) \in Seq(IsBodies) /\ Len(Append(x.put, b)) = Len(x.put) + 1
      /\ \A j \in 1 .. Len(x.put) : Append(x.put, b)[j] = x.put[j]
      /\ Append(x.got, b) \in Seq(IsBodies)
  BY <1>1, AppendProperties
<1> QED  BY <1>1, <1>2 DEF IsBegins

-----------------------------------------------------------------------------
(* The steps of a handshake.                                                *)

\* An end that gets on with its handshake.
LEMMA IsOkMoves ==
    ASSUME NEW l \in Is!Links, NEW e \in Is!Ends, NEW x, IsOk(l, e, x), x.stage \notin {"open", "closed"},
           NEW n \in IsEnds, n.got = <<>>, n.calls = 0, n.task \in 0 .. 1, n.read = x.read,
           x.hash # Is!None => n.hash = x.hash, x.peer # 0 => n.peer = x.peer,
           IsStaged(e, n), IsKeyed(l, e, n), IsTrusts(l, e, n)
    PROVE  IsOk(l, e, n) /\ IsLater(x, n) /\ n.read = "whole"
<1>1. x.put = <<>> /\ x.read = "whole" /\ x \in IsEnds
  BY DEF IsOk, IsStaged, IsEnds
<1>2. IsLater(x, n)
  <2>1. Len(x.put) = 0 /\ Len(n.put) \in Nat
    BY <1>1 DEF IsEnds
  <2> QED  BY <1>1, <2>1 DEF IsLater, IsBegins
<1>3. IsHeard(e, n)
  BY DEF IsHeard
<1>4. IsNumbered(n)
  <2>1. Is!Replies(n) = {}
    BY DEF Is!Replies
  <2>2. Cardinality({}) = 0
    BY FS_EmptySet
  <2> QED  BY <2>1, <2>2 DEF IsNumbered
<1> QED  BY <1>1, <1>2, <1>3, <1>4 DEF IsOk

\* The handshake packets of an acceptor.
LEMMA IsSecondMade ==
    ASSUME NEW l \in Is!Links, NEW h, h # Is!None, isEnd'[l]["ctl"].hash = h
    PROVE  [type |-> "second", hash |-> h] \in IsPackets'
BY DEF IsPackets, IsHandshakes, IsWith

\* The handshake packets of a device.
LEMMA IsThirdMade ==
    ASSUME NEW l \in Is!Links, NEW h, h # Is!None, isEnd'[l]["dev"].hash = h
    PROVE  [type |-> "third", hash |-> h] \in IsPackets' /\ Is!DeviceProof(l, h) \in IsPackets'
<1>1. l \in IsWith("dev")'
  BY DEF IsWith
<1>2. [type |-> "third", hash |-> h] \in IsHandshakes'
  BY <1>1 DEF IsHandshakes
<1>3. Is!DeviceProof(l, h) \in IsProofs'
  BY <1>1 DEF IsProofs
<1> QED  BY <1>2, <1>3 DEF IsPackets

\* The device speaks first.
LEMMA IsConnects == ASSUME IsBase, NEW l \in Is!Links, Is!Connect(l) PROVE IsBase'
<1>1. PICK x, n : x = isEnd[l]["dev"] /\ n = [x EXCEPT !.stage = "hello"]
  OBVIOUS
<1>2. "dev" \in Is!Ends
  BY IsPlaces
<1>3. IsOk(l, "dev", x) /\ x.stage = "start" /\ x \in IsEnds /\ IsStaged("dev", x)
  BY <1>1, <1>2 DEF IsBase, IsOk, Is!Connect
<1>4. /\ n \in IsEnds /\ n.stage = "hello" /\ n.hash = x.hash /\ n.peer = x.peer /\ n.put = x.put
      /\ n.got = x.got /\ n.task = x.task /\ n.calls = x.calls /\ n.read = x.read
  BY <1>1, <1>3 DEF IsEnds, IsStages
<1>5. IsStaged("dev", n) /\ IsKeyed(l, "dev", n) /\ IsTrusts(l, "dev", n)
  BY <1>3, <1>4 DEF IsStaged, IsKeyed, IsTrusts
<1>6. n.got = <<>> /\ n.calls = 0 /\ n.task \in 0 .. 1
  BY <1>3, <1>4 DEF IsStaged
<1>7. IsOk(l, "dev", n) /\ IsLater(x, n) /\ n.read = "whole"
  BY <1>2, <1>3, <1>4, <1>5, <1>6, IsOkMoves
<1>8. /\ Is!Becomes(l, "dev", n) /\ Is!Still /\ isKind' = isKind
      /\ Is!Writes(l, "dev", <<IsHello(l)>>)
  BY <1>1 DEF Is!Connect, IsHello, Is!Still
<1>9. IsHello(l) \in IsPackets'
  <2>1. IsHello(l)' = IsHello(l)
    BY <1>8 DEF IsHello, Is!MemberHello, Is!SealedHello
  <2> QED  BY <2>1 DEF IsPackets, IsHandshakes
<1>10. <<IsHello(l)>> \in Seq(IsPackets')
  BY <1>9
<1> QED  BY <1>1, <1>2, <1>7, <1>8, <1>10, IsSends

\* The acceptor answers the first packet.
LEMMA IsAccepts == ASSUME IsBase, NEW l \in Is!Links, Is!Accept(l) PROVE IsBase'
<1>1. PICK x, p, h, n :
        /\ x = isEnd[l]["ctl"] /\ p = Is!First(l, "ctl")
        /\ h = <<p.dev, Is!Ephemeral(l, "ctl"), isCtl[l]>>
        /\ n = [x EXCEPT !.hash = h, !.stage = IF isKind[l] = "sealed" THEN "open" ELSE "accept"]
  OBVIOUS
<1>2. "ctl" \in Is!Ends /\ isWire[l]["ctl"] # <<>>
  BY IsPlaces DEF Is!Accept
<1>3. IsOk(l, "ctl", x) /\ x.stage = "listen" /\ x \in IsEnds /\ IsStaged("ctl", x)
  BY <1>1, <1>2 DEF IsBase, IsOk, Is!Accept
<1>4. p \in IsPackets
  BY <1>1, <1>2, IsFirst
<1>5. isKind[l] \in {"member", "sealed"} /\ isCtl[l] \in {"mine", "other"}
  BY DEF IsBase
<1>6. CASE ~(Is!Classified(l, p) /\ p.ctl \in {"any", isCtl[l]})
  <2>1. Is!Refuses(l, "ctl")
    BY <1>1, <1>6 DEF Is!Accept
  <2> QED  BY <1>2, <2>1, IsRefuses
<1>7. CASE Is!Classified(l, p) /\ p.ctl \in {"any", isCtl[l]}
  <2>1. PICK m \in Is!Links : p = IsHello(m) /\ isKind[m] = isKind[l]
    BY <1>4, <1>5, <1>7, IsReading DEF Is!Classified
  <2>2. p.dev = Is!Ephemeral(m, "dev") /\ (isKind[l] = "sealed" => isCtl[l] = "mine")
    BY <1>7, <2>1 DEF IsHello, Is!MemberHello, Is!SealedHello
  <2>3. h = IsHash(m, l, isCtl[l])
    BY <1>1, <2>2 DEF IsHash
  <2>4. h \in IsHashes /\ h # Is!None
    BY <1>5, <2>3, IsHashFacts
  <2>5. /\ n \in IsEnds /\ n.stage = (IF isKind[l] = "sealed" THEN "open" ELSE "accept") /\ n.hash = h
        /\ n.peer = x.peer /\ n.put = x.put
        /\ n.got = x.got /\ n.task = x.task /\ n.calls = x.calls /\ n.read = x.read
    BY ZenonT(60), <1>1, <1>3, <2>4 DEF IsEnds, IsStages
  <2>6. IsStaged("ctl", n)
    BY <1>3, <2>4, <2>5 DEF IsStaged
  <2>7. IsKeyed(l, "ctl", n)
    BY <2>1, <2>2, <2>3, <2>5 DEF IsKeyed
  <2>8. IsTrusts(l, "ctl", n)
    BY <2>5 DEF IsTrusts
  <2>9. n.got = <<>> /\ n.calls = 0 /\ n.task \in 0 .. 1 /\ x.hash = Is!None
    BY <1>3, <2>5 DEF IsStaged
  <2>10. IsOk(l, "ctl", n) /\ IsLater(x, n) /\ n.read = "whole"
    BY <1>2, <1>3, <2>5, <2>6, <2>7, <2>8, <2>9, IsOkMoves
  <2>11. Is!Answers(l, "ctl", n, [type |-> "second", hash |-> h])
    BY <1>1, <1>7 DEF Is!Accept
  <2>12. /\ Is!Becomes(l, "ctl", n) /\ Is!Still
         /\ isWire' = [Is!Rest(l, "ctl") EXCEPT ![Is!Route(l)][Is!Other("ctl")] =
                         Append(@, [type |-> "second", hash |-> h])]
    BY <2>11 DEF Is!Answers
  <2>13. isEnd'[l]["ctl"] = n
    BY <1>1, <1>2, <2>10, <2>12, IsEndsNext DEF Is!Still
  <2>14. [type |-> "second", hash |-> h] \in IsPackets'
    BY <2>4, <2>5, <2>13, IsSecondMade
  <2>15. PICK ps : ps = [type |-> "second", hash |-> h]
    OBVIOUS
  <2> QED  BY <1>1, <1>2, <2>10, <2>12, <2>14, <2>15, IsTurns
<1> QED  BY <1>6, <1>7

\* The device finishes the handshake with the acceptor that answered.
LEMMA IsFinishes == ASSUME IsBase, NEW l \in Is!Links, Is!Finish(l) PROVE IsBase'
<1>1. PICK x, p, n :
        /\ x = isEnd[l]["dev"] /\ p = Is!First(l, "dev")
        /\ n = [x EXCEPT !.hash = p.hash, !.stage = IF isKind[l] = "sealed" THEN "open" ELSE "proving"]
  OBVIOUS
<1>2. "dev" \in Is!Ends /\ isWire[l]["dev"] # <<>> /\ Is!Other("dev") = "ctl"
  BY IsPlaces DEF Is!Finish, Is!Other
<1>3. IsOk(l, "dev", x) /\ x.stage = "hello" /\ x \in IsEnds /\ IsStaged("dev", x)
  BY <1>1, <1>2 DEF IsBase, IsOk, Is!Finish
<1>4. p \in IsPackets
  BY <1>1, <1>2, IsFirst
<1>5. isKind[l] \in {"member", "sealed"} /\ \A k \in Is!Links : isCtl[k] \in {"mine", "other"}
  BY DEF IsBase
<1>6. CASE p.type # "second" \/ p.hash[1] # Is!Ephemeral(l, "dev")
  <2>1. Is!Refuses(l, "dev")
    BY <1>1, <1>6 DEF Is!Finish
  <2> QED  BY <1>2, <2>1, IsRefuses
<1>7. CASE p.type = "second" /\ p.hash[1] = Is!Ephemeral(l, "dev")
  <2>1. PICK k \in IsWith("ctl") : p.hash = isEnd[k]["ctl"].hash
    BY <1>4, <1>7, IsReading
  <2>2. k \in Is!Links /\ p.hash # Is!None
    BY <2>1 DEF IsWith
  <2>3. IsKeyed(k, "ctl", isEnd[k]["ctl"])
    BY <2>2, IsPlaces DEF IsBase, IsOk
  <2>4. PICK m \in Is!Links : /\ p.hash = IsHash(m, k, isCtl[k]) /\ isKind[m] = isKind[k]
                              /\ isKind[k] = "sealed" => isCtl[k] = "mine"
    BY <2>1, <2>2, <2>3 DEF IsKeyed
  <2>5. m = l /\ p.hash \in IsHashes
    BY <1>5, <1>7, <2>2, <2>4, IsHashFacts
  <2>6. /\ n \in IsEnds /\ n.stage = (IF isKind[l] = "sealed" THEN "open" ELSE "proving") /\ n.hash = p.hash
        /\ n.peer = x.peer /\ n.put = x.put
        /\ n.got = x.got /\ n.task = x.task /\ n.calls = x.calls /\ n.read = x.read
    BY ZenonT(60), <1>1, <1>3, <2>5 DEF IsEnds, IsStages
  <2>7. IsStaged("dev", n)
    BY <1>3, <2>2, <2>6 DEF IsStaged
  <2>8. IsKeyed(l, "dev", n)
    BY <2>1, <2>2, <2>4, <2>5, <2>6 DEF IsKeyed
  <2>9. IsTrusts(l, "dev", n)
    BY <1>5, <2>1, <2>2, <2>4, <2>5, <2>6 DEF IsTrusts
  <2>10. n.got = <<>> /\ n.calls = 0 /\ n.task \in 0 .. 1 /\ x.hash = Is!None
    BY <1>3, <2>6 DEF IsStaged
  <2>11. IsOk(l, "dev", n) /\ IsLater(x, n) /\ n.read = "whole"
    BY <1>2, <1>3, <2>6, <2>7, <2>8, <2>9, <2>10, IsOkMoves
  <2>12. Is!Becomes(l, "dev", n) /\ Is!Still
    BY <1>1, <1>7 DEF Is!Finish
  <2>13. isEnd'[l]["dev"] = n
    BY <1>1, <1>2, <2>11, <2>12, IsEndsNext DEF Is!Still
  <2>14. CASE isKind[l] = "sealed"
    <3>1. isWire' = Is!Rest(l, "dev")
      BY <1>1, <1>7, <2>14 DEF Is!Finish
    <3>2. Is!Takes(l, "dev", n)
      BY <2>12, <3>1 DEF Is!Takes
    <3> QED  BY <1>1, <1>2, <2>11, <3>2, IsTakes
  <2>15. CASE isKind[l] # "sealed"
    <3>1. PICK ps : ps = <<[type |-> "third", hash |-> p.hash], Is!DeviceProof(l, p.hash)>>
      OBVIOUS
    <3>2. isWire' = [Is!Rest(l, "dev") EXCEPT ![Is!Route(l)][Is!Other("dev")] = @ \o ps]
      BY <1>1, <1>2, <1>7, <2>15, <3>1 DEF Is!Finish
    <3>3. [type |-> "third", hash |-> p.hash] \in IsPackets' /\ Is!DeviceProof(l, p.hash) \in IsPackets'
      BY <2>2, <2>6, <2>13, IsThirdMade
    <3>4. ps \in Seq(IsPackets')
      BY <3>1, <3>3
    <3> QED  BY <1>1, <1>2, <2>11, <2>12, <3>2, <3>4, IsTurns
  <2> QED  BY <2>14, <2>15
<1> QED  BY <1>6, <1>7

\* The acceptor has the third packet.
LEMMA IsAcceptsThird == ASSUME IsBase, NEW l \in Is!Links, Is!AcceptThird(l) PROVE IsBase'
<1>1. PICK x, n : x = isEnd[l]["ctl"] /\ n = [x EXCEPT !.stage = "proof"]
  OBVIOUS
<1>2. "ctl" \in Is!Ends /\ isWire[l]["ctl"] # <<>>
  BY IsPlaces DEF Is!AcceptThird
<1>3. IsOk(l, "ctl", x) /\ x.stage = "accept" /\ x \in IsEnds /\ IsStaged("ctl", x)
  BY <1>1, <1>2 DEF IsBase, IsOk, Is!AcceptThird
<1>4. /\ n \in IsEnds /\ n.stage = "proof" /\ n.hash = x.hash /\ n.peer = x.peer /\ n.put = x.put
      /\ n.got = x.got /\ n.task = x.task /\ n.calls = x.calls /\ n.read = x.read
  BY <1>1, <1>3 DEF IsEnds, IsStages
<1>5. IsStaged("ctl", n) /\ IsTrusts(l, "ctl", n)
  BY <1>3, <1>4 DEF IsStaged, IsTrusts
<1>6. IsKeyed(l, "ctl", n)
  BY <1>3, <1>4 DEF IsOk, IsKeyed
<1>7. n.got = <<>> /\ n.calls = 0 /\ n.task \in 0 .. 1
  BY <1>3, <1>4 DEF IsStaged
<1>8. IsOk(l, "ctl", n) /\ IsLater(x, n) /\ n.read = "whole"
  BY <1>2, <1>3, <1>4, <1>5, <1>6, <1>7, IsOkMoves
<1>9. Is!Takes(l, "ctl", n) \/ Is!Refuses(l, "ctl")
  BY <1>1 DEF Is!AcceptThird
<1> QED  BY <1>1, <1>2, <1>8, <1>9, IsTakes, IsRefuses

\* The device has the Controller's proof.
LEMMA IsEstablishes == ASSUME IsBase, NEW l \in Is!Links, Is!Establish(l) PROVE IsBase'
<1>1. PICK x, p, n : x = isEnd[l]["dev"] /\ p = Is!First(l, "dev") /\ n = [x EXCEPT !.stage = "open"]
  OBVIOUS
<1>2. "dev" \in Is!Ends /\ isWire[l]["dev"] # <<>> /\ Is!Other("dev") = "ctl"
  BY IsPlaces DEF Is!Establish, Is!Other
<1>3. IsOk(l, "dev", x) /\ x.stage = "proving" /\ x \in IsEnds /\ IsStaged("dev", x)
  BY <1>1, <1>2 DEF IsBase, IsOk, Is!Establish
<1>4. p \in IsPackets
  BY <1>1, <1>2, IsFirst
<1>5. CASE ~Is!ProvesController(l, p)
  <2>1. Is!Refuses(l, "dev")
    BY <1>1, <1>5 DEF Is!Establish
  <2> QED  BY <1>2, <2>1, IsRefuses
<1>6. CASE Is!ProvesController(l, p)
  <2>1. /\ n \in IsEnds /\ n.stage = "open" /\ n.hash = x.hash /\ n.peer = x.peer /\ n.put = x.put
        /\ n.got = x.got /\ n.task = x.task /\ n.calls = x.calls /\ n.read = x.read
    BY <1>1, <1>3 DEF IsEnds, IsStages
  <2>2. IsStaged("dev", n) /\ x.hash # Is!None
    BY <1>3, <2>1 DEF IsStaged
  <2>3. IsKeyed(l, "dev", n)
    BY <1>3, <2>1 DEF IsOk, IsKeyed
  <2>4. p.type = "controller_proof" /\ p.hash = x.hash /\ p.device = l /\ p.controller = "mine"
    BY <1>1, <1>6 DEF Is!ProvesController
  <2>5. PICK k \in IsWith("ctl") : /\ x.hash = isEnd[k]["ctl"].hash
                                   /\ l = isEnd[k]["ctl"].peer /\ "mine" = isCtl[k]
    BY <1>4, <2>4, IsReading
  <2>6. k \in Is!Links
    BY DEF IsWith
  <2>7. isKind[k] = isKind[l]
    BY <1>1, <1>2, <2>2, <2>5, <2>6, IsPartner
  <2>8. IsTrusts(l, "dev", n)
    BY <2>1, <2>5, <2>6, <2>7 DEF IsTrusts
  <2>9. n.got = <<>> /\ n.calls = 0 /\ n.task \in 0 .. 1
    BY <1>3, <2>1 DEF IsStaged
  <2>10. IsOk(l, "dev", n) /\ IsLater(x, n) /\ n.read = "whole"
    BY <1>2, <1>3, <2>1, <2>2, <2>3, <2>8, <2>9, IsOkMoves
  <2>11. Is!Takes(l, "dev", n)
    BY <1>1, <1>6 DEF Is!Establish
  <2> QED  BY <1>1, <1>2, <2>10, <2>11, IsTakes
<1> QED  BY <1>5, <1>6

\* The Controller has the device's proof, and the device is in: it proves itself.
LEMMA IsAcceptsProof == ASSUME IsBase, NEW l \in Is!Links, Is!AcceptProof(l) PROVE IsBase'
<1>1. PICK x, p, n :
        /\ x = isEnd[l]["ctl"] /\ p = Is!First(l, "ctl")
        /\ n = [x EXCEPT !.stage = "registering", !.peer = p.device]
  OBVIOUS
<1>2. "ctl" \in Is!Ends /\ isWire[l]["ctl"] # <<>> /\ Is!Other("ctl") = "dev"
  BY IsPlaces DEF Is!AcceptProof, Is!Other
<1>3. IsOk(l, "ctl", x) /\ x.stage = "proof" /\ x \in IsEnds /\ IsStaged("ctl", x)
  BY <1>1, <1>2 DEF IsBase, IsOk, Is!AcceptProof
<1>4. p \in IsPackets
  BY <1>1, <1>2, IsFirst
<1>5. CASE ~(Is!ProvesDevice(l, p) /\ Is!Authorizes(p.device))
  <2>1. Is!Refuses(l, "ctl")
    BY <1>1, <1>5 DEF Is!AcceptProof
  <2> QED  BY <1>2, <2>1, IsRefuses
<1>6. CASE Is!ProvesDevice(l, p) /\ Is!Authorizes(p.device)
  <2>1. p.type = "device_proof" /\ p.hash = x.hash /\ p.controller = isCtl[l] /\ isAllowed[p.device]
    BY <1>1, <1>6 DEF Is!ProvesDevice, Is!Authorizes
  <2>2. PICK m \in IsWith("dev") : p.hash = isEnd[m]["dev"].hash /\ p.device = m /\ p.controller = "mine"
    BY <1>4, <2>1, IsReading
  <2>3. m \in Is!Links /\ m # 0 /\ IsIn(l, m)
    BY <2>1, <2>2, IsPlaces DEF IsWith, IsIn
  <2>4. /\ n \in IsEnds /\ n.stage = "registering" /\ n.hash = x.hash /\ n.peer = m /\ n.put = x.put
        /\ n.got = x.got /\ n.task = x.task /\ n.calls = x.calls /\ n.read = x.read
    BY <1>1, <1>3, <2>2, <2>3 DEF IsEnds, IsStages
  <2>5. IsStaged("ctl", n) /\ x.hash # Is!None /\ x.peer = 0
    BY <1>3, <2>4 DEF IsStaged
  <2>6. IsKeyed(l, "ctl", n)
    BY <1>3, <2>4 DEF IsOk, IsKeyed
  <2>7. IsTrusts(l, "ctl", n)
    BY <2>1, <2>2, <2>3, <2>4 DEF IsTrusts
  <2>8. n.got = <<>> /\ n.calls = 0 /\ n.task \in 0 .. 1
    BY <1>3, <2>4 DEF IsStaged
  <2>9. IsOk(l, "ctl", n) /\ IsLater(x, n) /\ n.read = "whole"
    BY <1>2, <1>3, <2>4, <2>5, <2>6, <2>7, <2>8, IsOkMoves
  <2>10. PICK ps : ps = Is!ControllerProof(l, m)
    OBVIOUS
  <2>11. Is!Answers(l, "ctl", n, ps)
    BY <1>1, <1>6, <2>2, <2>10 DEF Is!AcceptProof
  <2>12. /\ Is!Becomes(l, "ctl", n) /\ Is!Still
         /\ isWire' = [Is!Rest(l, "ctl") EXCEPT ![Is!Route(l)][Is!Other("ctl")] = Append(@, ps)]
    BY <2>11 DEF Is!Answers
  <2>13. isEnd'[l]["ctl"] = n /\ UNCHANGED <<isKind, isCtl>>
    BY <1>1, <1>2, <2>9, <2>12, IsEndsNext DEF Is!Still
  <2>14. ps \in IsPackets'
    <3>1. PICK q : q = Is!ControllerProof(l, isEnd[l]["ctl"].peer)'
      OBVIOUS
    <3>2. q = ps
      BY <1>1, <2>4, <2>10, <2>13, <3>1 DEF Is!ControllerProof
    <3>3. l \in IsWith("ctl")' /\ isEnd'[l]["ctl"].peer # 0
      BY <2>3, <2>4, <2>5, <2>13 DEF IsWith
    <3>4. q \in IsProofs'
      BY <3>1, <3>3 DEF IsProofs
    <3> QED  BY <3>2, <3>4 DEF IsPackets
  <2> QED  BY <1>1, <1>2, <2>9, <2>12, <2>14, IsTurns
<1> QED  BY <1>5, <1>6

\* The session is registered, and pings.
LEMMA IsRegisters == ASSUME IsBase, NEW l \in Is!Links, Is!Register(l) PROVE IsBase'
<1>1. PICK x, b, n :
        /\ x = isEnd[l]["ctl"] /\ b = <<"ping", 0>>
        /\ n = [Is!Sends([x EXCEPT !.stage = "open"], b) EXCEPT !.task = 1]
  OBVIOUS
<1>2. "ctl" \in Is!Ends
  BY IsPlaces
<1>3. IsOk(l, "ctl", x) /\ x.stage = "registering" /\ x \in IsEnds /\ IsStaged("ctl", x)
  BY <1>1, <1>2 DEF IsBase, IsOk, Is!Register
<1>4. b \in IsBodies
  BY <1>1 DEF IsBodies, IsTags
<1>5. Append(x.put, b) \in Seq(IsBodies)
  BY <1>3, <1>4, IsPutMore
<1>6. /\ n \in IsEnds /\ n.stage = "open" /\ n.hash = x.hash /\ n.peer = x.peer /\ n.put = Append(x.put, b)
      /\ n.got = x.got /\ n.task = 1 /\ n.calls = x.calls /\ n.read = x.read
  BY <1>1, <1>3, <1>5 DEF IsEnds, IsStages, Is!Sends
<1>7. IsStaged("ctl", n)
  BY <1>3, <1>6 DEF IsStaged
<1>8. IsKeyed(l, "ctl", n)
  BY <1>3, <1>6 DEF IsOk, IsKeyed
<1>9. IsTrusts(l, "ctl", n)
  BY <1>3, <1>6 DEF IsOk, IsTrusts
<1>10. n.got = <<>> /\ n.calls = 0 /\ n.task \in 0 .. 1
  BY <1>3, <1>6 DEF IsStaged
<1>11. IsOk(l, "ctl", n) /\ IsLater(x, n) /\ n.read = "whole"
  BY <1>2, <1>3, <1>6, <1>7, <1>8, <1>9, <1>10, IsOkMoves
<1>12. PICK ps : ps = <<Is!Seals(l, "ctl", b)>>
  OBVIOUS
<1>13. Is!Becomes(l, "ctl", n) /\ Is!Writes(l, "ctl", ps) /\ Is!Still
  BY <1>1, <1>12 DEF Is!Register
<1>14. isEnd'[l]["ctl"] = n /\ isKind' = isKind
  BY <1>1, <1>2, <1>11, <1>13, IsEndsNext DEF Is!Still
<1>15. Is!Seals(l, "ctl", b) \in IsPackets'
  <2>1. PICK y : y = isEnd'[l]["ctl"]
    OBVIOUS
  <2>2. y.put = Append(x.put, b) /\ y.hash = x.hash /\ isKind' = isKind
    BY <1>6, <1>14, <2>1
  <2> QED  BY <1>1, <1>2, <1>4, <2>1, <2>2, IsSealsMade
<1>16. ps \in Seq(IsPackets')
  BY <1>12, <1>15
<1> QED  BY <1>1, <1>2, <1>11, <1>13, <1>16, IsSends

-----------------------------------------------------------------------------
(* The steps of an open session.                                            *)

\* An open end says something.
LEMMA IsSpeaks ==
    ASSUME IsBase, NEW l \in Is!Links, NEW e \in Is!Ends, NEW x, x = isEnd[l][e], x.stage = "open",
           NEW b \in IsBodies, NEW n \in IsEnds,
           n.stage = x.stage, n.hash = x.hash, n.peer = x.peer, n.got = x.got, n.read = x.read,
           n.put = Append(x.put, b), e = Is!Caller(l) => IsNumbered(n),
           Is!Becomes(l, e, n), Is!Writes(l, e, <<Is!Seals(l, e, b)>>), Is!Still
    PROVE  IsBase'
<1>1. IsOk(l, e, x) /\ x \in IsEnds /\ (x.read # "whole" => isWire[l][e] # <<>>)
  BY DEF IsBase, IsOk
<1>2. IsBegins(x.put, n.put)
  BY <1>1, IsPutMore
<1>3. IsHeard(e, n)
  BY <1>1 DEF IsOk, IsHeard
<1>4. n.read # "whole" => e # Is!Caller(l)
  BY <1>1 DEF IsOk
<1>5. IsOk(l, e, n) /\ IsLater(x, n)
  BY <1>1, <1>2, <1>3, <1>4, IsOkData
<1>6. isEnd'[l][e] = n /\ isKind' = isKind
  BY <1>5, IsEndsNext DEF Is!Still
<1>7. Is!Seals(l, e, b) \in IsPackets'
  BY <1>6, IsSealsMade
<1>8. <<Is!Seals(l, e, b)>> \in Seq(IsPackets')
  BY <1>7
<1>9. PICK ps : ps = <<Is!Seals(l, e, b)>>
  OBVIOUS
<1> QED  BY <1>1, <1>5, <1>8, <1>9, IsSends

\* An open end that was given the packet that opens.
LEMMA IsGiven ==
    ASSUME IsBase, NEW l \in Is!Links, NEW e \in Is!Ends, NEW x, x = isEnd[l][e], x.stage = "open",
           isWire[l][e] # <<>>, NEW p, p = Is!First(l, e), Is!Opens(l, e, p),
           NEW n \in IsEnds, n.stage = x.stage, n.hash = x.hash, n.peer = x.peer,
           n.got = Append(x.got, p.body), n.read = "whole", IsBegins(x.put, n.put),
           e = Is!Caller(l) => IsNumbered(n)
    PROVE  IsOk(l, e, n) /\ IsLater(x, n)
<1>1. IsOk(l, e, x) /\ x \in IsEnds /\ x.hash # Is!None
  BY DEF IsBase, IsOk, IsStaged
<1>2. p \in IsPackets
  BY IsFirst
<1>3. IsHeard(e, n)
  BY <1>1, <1>2, IsOpensNext
<1> QED  BY <1>1, <1>3, IsOkData

\* What opens says something.
LEMMA IsGivenBody ==
    ASSUME IsBase, NEW l \in Is!Links, NEW e \in Is!Ends, isEnd[l][e].stage = "open",
           isWire[l][e] # <<>>, NEW p, p = Is!First(l, e), Is!Opens(l, e, p)
    PROVE  /\ p.body \in IsBodies /\ p.body[1] \in IsTags /\ p.body[2] \in Nat
           /\ isEnd[l][e] \in IsEnds /\ IsOk(l, e, isEnd[l][e])
<1>1. IsOk(l, e, isEnd[l][e]) /\ isEnd[l][e] \in IsEnds /\ isEnd[l][e].hash # Is!None
  BY DEF IsBase, IsOk, IsStaged
<1>2. p \in IsPackets
  BY IsFirst
<1>3. p.body \in IsBodies
  BY <1>1, <1>2, IsOpensNext
<1> QED  BY <1>1, <1>3 DEF IsBodies

\* A request.
LEMMA IsCalls == ASSUME IsBase, NEW l \in Is!Links, Is!Call(l) PROVE IsBase'
<1>1. PICK e, x : e = Is!Caller(l) /\ x = isEnd[l][e]
  OBVIOUS
<1>2. PICK b, n : /\ b = <<"call", x.calls + 1>>
                  /\ n = [Is!Sends(x, b) EXCEPT !.task = 2, !.calls = @ + 1]
  OBVIOUS
<1>3. /\ e \in Is!Ends /\ x.stage = "open" /\ x.task = 0 /\ Is!Becomes(l, e, n)
      /\ Is!Writes(l, e, <<Is!Seals(l, e, b)>>) /\ Is!Still
  BY <1>1, <1>2, IsPlaces DEF Is!Call, Is!Open
<1>4. x \in IsEnds /\ IsOk(l, e, x)
  BY <1>1, <1>3 DEF IsBase, IsOk
<1>5. x.calls \in Nat /\ b \in IsBodies
  BY <1>2, <1>4 DEF IsEnds, IsBodies, IsTags
<1>6. Append(x.put, b) \in Seq(IsBodies)
  BY <1>4, <1>5, IsPutMore
<1>7. /\ n \in IsEnds /\ n.stage = x.stage /\ n.hash = x.hash /\ n.peer = x.peer /\ n.got = x.got
      /\ n.read = x.read /\ n.put = Append(x.put, b) /\ n.task = 2 /\ n.calls = x.calls + 1
  <2>1. PICK y : y = Is!Sends(x, b)
    OBVIOUS
  <2>2. /\ y \in IsEnds /\ y.stage = x.stage /\ y.hash = x.hash /\ y.peer = x.peer /\ y.got = x.got
        /\ y.read = x.read /\ y.put = Append(x.put, b) /\ y.calls = x.calls
    BY <1>4, <1>6, <2>1 DEF IsEnds, Is!Sends
  <2>3. PICK c : c = x.calls + 1
    OBVIOUS
  <2>4. n = [y EXCEPT !.task = 2, !.calls = c] /\ c \in Nat
    <3>1. PICK z : z = [y EXCEPT !.task = 2]
      OBVIOUS
    <3>2. z.calls = c - 1 /\ c \in Nat /\ c - 1 = x.calls
      BY <1>5, <2>2, <2>3, <3>1 DEF IsEnds
    <3>3. n = [z EXCEPT !.calls = @ + 1]
      BY <1>2, <2>1, <3>1
    <3>4. n = [z EXCEPT !.calls = c]
      BY <2>3, <3>2, <3>3
    <3> QED  BY <3>1, <3>2, <3>4
  <2>5. n \in IsEnds
    BY <2>2, <2>4 DEF IsEnds
  <2>6. /\ n.stage = y.stage /\ n.hash = y.hash /\ n.peer = y.peer /\ n.got = y.got
        /\ n.read = y.read /\ n.put = y.put /\ n.task = 2 /\ n.calls = c
    BY <2>2, <2>4 DEF IsEnds
  <2> QED  BY <2>2, <2>3, <2>5, <2>6
<1>8. IsNumbered(n)
  BY <1>1, <1>3, <1>4, <1>7, IsNumberedSame DEF IsOk
<1> QED  BY <1>1, <1>3, <1>5, <1>7, <1>8, IsSpeaks

\* A heartbeat.
LEMMA IsPings == ASSUME IsBase, NEW l \in Is!Links, Is!Ping(l) PROVE IsBase'
<1>1. PICK x, b, n : /\ x = isEnd[l]["ctl"] /\ b = <<"ping", Len(x.put)>>
                     /\ n = [Is!Sends(x, b) EXCEPT !.task = 1]
  OBVIOUS
<1>2. /\ "ctl" \in Is!Ends /\ x.stage = "open" /\ x.task = 0 /\ Is!Becomes(l, "ctl", n)
      /\ Is!Writes(l, "ctl", <<Is!Seals(l, "ctl", b)>>) /\ Is!Still /\ "ctl" = Is!Caller(l)
  BY <1>1, IsPlaces DEF Is!Ping, Is!Open, Is!Caller
<1>3. x \in IsEnds /\ IsOk(l, "ctl", x)
  BY <1>1, <1>2 DEF IsBase, IsOk
<1>4. x.put \in Seq(IsBodies) /\ b \in IsBodies
  BY <1>1, <1>3 DEF IsEnds, IsBodies, IsTags
<1>5. Append(x.put, b) \in Seq(IsBodies)
  BY <1>3, <1>4, IsPutMore
<1>6. /\ n \in IsEnds /\ n.stage = x.stage /\ n.hash = x.hash /\ n.peer = x.peer /\ n.got = x.got
      /\ n.read = x.read /\ n.put = Append(x.put, b) /\ n.task = 1 /\ n.calls = x.calls
  <2>1. PICK more : more = Append(x.put, b)
    OBVIOUS
  <2>2. n = [[x EXCEPT !.put = more] EXCEPT !.task = 1]
    BY <1>1, <2>1 DEF Is!Sends
  <2>3. /\ n \in IsEnds /\ n.stage = x.stage /\ n.hash = x.hash /\ n.peer = x.peer /\ n.got = x.got
        /\ n.read = x.read /\ n.put = more /\ n.task = 1 /\ n.calls = x.calls
    <3>1. x \in IsEnds /\ more \in Seq(IsBodies)
      BY <1>3, <1>5, <2>1
    <3> QED  BY ONLY <2>2, <3>1 DEF IsEnds
  <2> QED  BY ONLY <2>1, <2>3
<1>7. IsNumbered(n)
  BY <1>2, <1>3, <1>6, IsNumberedSame DEF IsOk
<1>8. PICK e : e = "ctl"
  OBVIOUS
<1>9. /\ e \in Is!Ends /\ x = isEnd[l][e] /\ x.stage = "open" /\ Is!Becomes(l, e, n)
      /\ Is!Writes(l, e, <<Is!Seals(l, e, b)>>) /\ Is!Still
  BY <1>1, <1>2, <1>8
<1> QED  BY <1>4, <1>6, <1>7, <1>9, IsSpeaks

\* A sign of progress.
LEMMA IsProgresses == ASSUME IsBase, NEW l \in Is!Links, Is!Progress(l) PROVE IsBase'
<1>1. PICK x, b, n : /\ x = isEnd[l]["dev"] /\ b = <<"progress", x.task>> /\ n = Is!Sends(x, b)
  OBVIOUS
<1>2. /\ "dev" \in Is!Ends /\ x.stage = "open" /\ Is!Becomes(l, "dev", n)
      /\ Is!Writes(l, "dev", <<Is!Seals(l, "dev", b)>>) /\ Is!Still /\ "dev" # Is!Caller(l)
  BY <1>1, IsPlaces DEF Is!Progress, Is!Open, Is!Caller
<1>3. x \in IsEnds /\ IsOk(l, "dev", x)
  BY <1>1, <1>2 DEF IsBase, IsOk
<1>4. b \in IsBodies
  BY <1>1, <1>3 DEF IsEnds, IsBodies, IsTags
<1>5. Append(x.put, b) \in Seq(IsBodies)
  BY <1>3, <1>4, IsPutMore
<1>6. /\ n \in IsEnds /\ n.stage = x.stage /\ n.hash = x.hash /\ n.peer = x.peer /\ n.got = x.got
      /\ n.read = x.read /\ n.put = Append(x.put, b)
  BY <1>1, <1>3, <1>5 DEF IsEnds, Is!Sends
<1> QED  BY <1>1, <1>2, <1>4, <1>6, IsSpeaks

\* A reply.
LEMMA IsReplies == ASSUME IsBase, NEW l \in Is!Links, Is!Reply(l) PROVE IsBase'
<1>1. PICK e, x : e = Is!Server(l) /\ x = isEnd[l][e]
  OBVIOUS
<1>2. PICK b, n : b = <<"reply", x.task>> /\ n = [Is!Sends(x, b) EXCEPT !.task = 0]
  OBVIOUS
<1>3. /\ e \in Is!Ends /\ e # Is!Caller(l) /\ x.stage = "open" /\ Is!Becomes(l, e, n)
      /\ Is!Writes(l, e, <<Is!Seals(l, e, b)>>) /\ Is!Still
  BY <1>1, <1>2, IsPlaces DEF Is!Reply, Is!Open
<1>4. x \in IsEnds /\ IsOk(l, e, x)
  BY <1>1, <1>3 DEF IsBase, IsOk
<1>5. b \in IsBodies
  BY <1>2, <1>4 DEF IsEnds, IsBodies, IsTags
<1>6. Append(x.put, b) \in Seq(IsBodies)
  BY <1>4, <1>5, IsPutMore
<1>7. /\ n \in IsEnds /\ n.stage = x.stage /\ n.hash = x.hash /\ n.peer = x.peer /\ n.got = x.got
      /\ n.read = x.read /\ n.put = Append(x.put, b)
  BY <1>2, <1>4, <1>5, <1>6 DEF IsEnds, Is!Sends
<1> QED  BY <1>1, <1>3, <1>5, <1>7, IsSpeaks

\* What a caller is given.
LEMMA IsReceives == ASSUME IsBase, NEW l \in Is!Links, Is!Receive(l) PROVE IsBase'
<1>1. PICK e, x, p : e = Is!Caller(l) /\ x = isEnd[l][e] /\ p = Is!First(l, e)
  OBVIOUS
<1>2. e \in Is!Ends /\ x.stage = "open" /\ x.task > 0 /\ isWire[l][e] # <<>>
  BY <1>1, IsPlaces DEF Is!Receive, Is!Open
<1>3. x \in IsEnds /\ IsOk(l, e, x) /\ IsNumbered(x) /\ x.task \in 1 .. 2 /\ x.read = "whole"
  <2>1. IsOk(l, e, x)
    BY <1>1, <1>2 DEF IsBase
  <2>2. x \in IsEnds /\ IsNumbered(x) /\ x.read = "whole"
    BY <1>1, <1>2, <2>1 DEF IsOk
  <2> QED  BY <1>2, <2>1, <2>2 DEF IsNumbered
<1>4. PICK y, n : y = [x EXCEPT !.got = Append(@, p.body)] /\ n = [y EXCEPT !.task = 0]
  OBVIOUS
<1>5. CASE Is!Refuses(l, e)
  BY <1>2, <1>5, IsRefuses
<1>6. CASE /\ ~Is!Refuses(l, e)
  <2>1. /\ Is!Opens(l, e, p)
        /\ \/ p.body = Is!Awaited(x) /\ Is!Takes(l, e, n)
           \/ x.task = 2 /\ p.body = <<"progress", x.calls>> /\ Is!Takes(l, e, y)
    BY <1>1, <1>4, <1>6 DEF Is!Receive
  <2>2. p.body \in IsBodies
    BY <1>1, <1>2, <2>1, IsGivenBody
  <2>3. Append(x.got, p.body) \in Seq(IsBodies) /\ IsBegins(x.put, x.put)
    BY <1>3, <2>2, IsPutMore
  <2>4. /\ y \in IsEnds /\ y.stage = x.stage /\ y.hash = x.hash /\ y.peer = x.peer /\ y.put = x.put
        /\ y.got = Append(x.got, p.body) /\ y.read = x.read /\ y.task = x.task /\ y.calls = x.calls
    BY <1>3, <1>4, <2>3 DEF IsEnds
  <2>5. /\ n \in IsEnds /\ n.stage = x.stage /\ n.hash = x.hash /\ n.peer = x.peer /\ n.put = x.put
        /\ n.got = Append(x.got, p.body) /\ n.read = x.read /\ n.task = 0 /\ n.calls = x.calls
    BY <1>4, <2>4 DEF IsEnds
  <2>6. CASE p.body = Is!Awaited(x) /\ Is!Takes(l, e, n)
    <3>1. IsNumbered(n)
      <4>1. CASE x.task = 1
        <5>1. p.body[1] = "pong"
          BY <2>6, <4>1 DEF Is!Awaited
        <5> QED  BY <1>3, <2>2, <2>5, <4>1, <5>1, IsOtherGiven
      <4>2. CASE x.task = 2
        <5>1. p.body = <<"reply", x.calls>>
          BY <2>6, <4>2 DEF Is!Awaited
        <5> QED  BY <1>2, <1>3, <2>5, <4>2, <5>1, IsReplyGiven
      <4> QED  BY <1>3, <4>1, <4>2
    <3>2. IsOk(l, e, n) /\ IsLater(x, n)
      BY ZenonT(60), <1>1, <1>2, <1>3, <2>1, <2>3, <2>5, <3>1, IsGiven
    <3> QED  BY <1>1, <1>2, <1>3, <2>5, <2>6, <3>2, IsTakes
  <2>7. CASE x.task = 2 /\ p.body = <<"progress", x.calls>> /\ Is!Takes(l, e, y)
    <3>1. IsNumbered(y)
      <4>1. p.body[1] = "progress"
        BY <2>7
      <4> QED  BY <1>3, <2>2, <2>4, <2>7, <4>1, IsOtherGiven
    <3>2. IsOk(l, e, y) /\ IsLater(x, y)
      BY ZenonT(60), <1>1, <1>2, <1>3, <2>1, <2>3, <2>4, <3>1, IsGiven
    <3> QED  BY <1>1, <1>2, <1>3, <2>4, <2>7, <3>2, IsTakes
  <2> QED  BY <2>1, <2>6, <2>7
<1> QED  BY <1>5, <1>6

\* What a server is given: a ping, or a request.
LEMMA IsServes == ASSUME IsBase, NEW l \in Is!Links, Is!Serve(l) PROVE IsBase'
<1>1. PICK e, x, p : e = Is!Server(l) /\ x = isEnd[l][e] /\ p = Is!First(l, e)
  OBVIOUS
<1>2. e \in Is!Ends /\ e # Is!Caller(l) /\ x.stage = "open" /\ isWire[l][e] # <<>>
  BY <1>1, IsPlaces DEF Is!Serve, Is!Open
<1>3. x \in IsEnds /\ IsOk(l, e, x)
  BY <1>1, <1>2 DEF IsBase, IsOk
<1>4. CASE ~Is!Opens(l, e, p)
  <2>1. Is!Refuses(l, e)
    BY <1>1, <1>4 DEF Is!Serve
  <2> QED  BY <1>2, <2>1, IsRefuses
<1>5. CASE Is!Opens(l, e, p)
  <2>1. PICK y, b, n, t :
          /\ y = [x EXCEPT !.got = Append(@, p.body), !.read = "whole"] /\ b = <<"pong", p.body[2]>>
          /\ n = Is!Sends(y, b) /\ t = [y EXCEPT !.task = p.body[2]]
    OBVIOUS
  <2>2. p.body \in IsBodies /\ p.body[2] \in Nat /\ b \in IsBodies
    <3>1. p.body \in IsBodies /\ p.body[2] \in Nat
      BY <1>1, <1>2, <1>5, IsGivenBody
    <3> QED  BY <2>1, <3>1 DEF IsBodies, IsTags
  <2>3. /\ Append(x.got, p.body) \in Seq(IsBodies) /\ IsBegins(x.put, x.put)
        /\ Append(x.put, b) \in Seq(IsBodies) /\ IsBegins(x.put, Append(x.put, b))
    BY <1>3, <2>2, IsPutMore
  <2>4. /\ y \in IsEnds /\ y.stage = x.stage /\ y.hash = x.hash /\ y.peer = x.peer /\ y.put = x.put
        /\ y.got = Append(x.got, p.body) /\ y.read = "whole"
    BY <1>3, <2>1, <2>3 DEF IsEnds
  <2>5. CASE p.body[1] = "ping"
    <3>1. /\ n \in IsEnds /\ n.stage = x.stage /\ n.hash = x.hash /\ n.peer = x.peer
          /\ n.put = Append(x.put, b) /\ n.got = Append(x.got, p.body) /\ n.read = "whole"
      BY <2>1, <2>3, <2>4 DEF IsEnds, Is!Sends
    <3>2. IsOk(l, e, n) /\ IsLater(x, n)
      BY <1>1, <1>2, <1>5, <2>3, <3>1, IsGiven
    <3>3. Is!Answers(l, e, n, Is!Seals(l, e, b))
      BY <1>1, <1>5, <2>1, <2>5 DEF Is!Serve
    <3>4. PICK ps : ps = Is!Seals(l, e, b)
      OBVIOUS
    <3>5. /\ Is!Becomes(l, e, n) /\ Is!Still
          /\ isWire' = [Is!Rest(l, e) EXCEPT ![Is!Route(l)][Is!Other(e)] = Append(@, ps)]
      BY <3>3, <3>4 DEF Is!Answers
    <3>6. isEnd'[l][e] = n /\ isKind' = isKind
      BY <1>1, <1>2, <3>2, <3>5, IsEndsNext DEF Is!Still
    <3>7. ps \in IsPackets'
      BY ZenonT(60), <1>1, <1>2, <2>2, <3>1, <3>4, <3>6, IsSealsMade
    <3> QED  BY <1>1, <1>2, <3>1, <3>2, <3>5, <3>7, IsTurns
  <2>6. CASE p.body[1] # "ping"
    <3>1. /\ t \in IsEnds /\ t.stage = x.stage /\ t.hash = x.hash /\ t.peer = x.peer
          /\ t.put = x.put /\ t.got = Append(x.got, p.body) /\ t.read = "whole"
      BY <2>1, <2>2, <2>4 DEF IsEnds
    <3>2. IsOk(l, e, t) /\ IsLater(x, t)
      BY <1>1, <1>2, <1>5, <2>3, <3>1, IsGiven
    <3>3. Is!Takes(l, e, t)
      BY <1>1, <1>5, <2>1, <2>6 DEF Is!Serve
    <3> QED  BY <1>1, <1>2, <3>1, <3>2, <3>3, IsTakes
  <2> QED  BY <2>5, <2>6
<1> QED  BY <1>4, <1>5

-----------------------------------------------------------------------------
(* Reads that stop half-way, and what goes wrong.                           *)

\* The Host's reader moves between two packets.
LEMMA IsReads ==
    ASSUME IsBase, NEW l \in Is!Links, Is!ReadHead(l) \/ Is!CancelRead(l) \/ Is!ReadTorn(l) PROVE IsBase'
<1>1. PICK x : x = isEnd[l]["dev"]
  OBVIOUS
<1>2. "dev" \in Is!Ends /\ x.stage = "open"
  BY <1>1, IsPlaces DEF Is!ReadHead, Is!CancelRead, Is!ReadTorn, Is!Open
<1>3. x \in IsEnds /\ IsOk(l, "dev", x)
  BY <1>1, <1>2 DEF IsBase, IsOk
<1>4. x.read # "whole" => isWire[l]["dev"] # <<>> /\ "dev" # Is!Caller(l)
  BY <1>1, <1>2, <1>3 DEF IsBase, IsOk
<1>5. CASE Is!ReadTorn(l)
  <2>1. Is!Refuses(l, "dev") /\ isWire[l]["dev"] # <<>>
    BY <1>1, <1>4, <1>5 DEF Is!ReadTorn
  <2> QED  BY <1>2, <2>1, IsRefuses
<1>6. CASE Is!ReadHead(l) \/ Is!CancelRead(l)
  <2>1. PICK r \in {"head", "torn"} : Is!Becomes(l, "dev", [x EXCEPT !.read = r])
    BY <1>1, <1>6 DEF Is!ReadHead, Is!CancelRead
  <2>2. PICK n : n = [x EXCEPT !.read = r]
    OBVIOUS
  <2>3. /\ UNCHANGED <<isKind, isCtl, isAllowed, isRevoking, isCut, isWire, isCross>> /\ isWire[l]["dev"] # <<>>
        /\ "dev" # Is!Caller(l)
    BY <1>1, <1>4, <1>6 DEF Is!ReadHead, Is!CancelRead, Is!Still, Is!Caller
  <2>4. /\ n \in IsEnds /\ n.stage = x.stage /\ n.hash = x.hash /\ n.peer = x.peer /\ n.put = x.put
        /\ n.got = x.got /\ IsBegins(x.put, n.put)
    BY <1>3, <2>2 DEF IsEnds, IsBegins
  <2>5. IsHeard("dev", n)
    BY <1>3, <2>4 DEF IsOk, IsHeard
  <2>6. IsOk(l, "dev", n) /\ IsLater(x, n)
    BY <1>2, <1>3, <2>3, <2>4, <2>5, IsOkData
  <2>7. Is!Becomes(l, "dev", n)
    BY <2>1, <2>2
  <2>8. isWire' \in IsWires(IsPackets')
    BY <1>1, <1>2, <2>3, <2>6, <2>7, IsEndsNext
  <2>9. isCross' \in BOOLEAN
    BY <2>3 DEF IsBase
  <2> QED  BY <1>1, <1>2, <2>3, <2>6, <2>7, <2>8, <2>9, IsBaseNext
<1> QED  BY <1>5, <1>6

\* A deadline, or the hub, ends a session.
LEMMA IsTimesOut ==
    ASSUME IsBase, NEW l \in Is!Links, NEW e \in Is!Ends, Is!TimeOut(l, e) \/ (e = "ctl" /\ Is!Stop(l))
    PROVE  IsBase'
<1>1. PICK x, n : x = isEnd[l][e] /\ n = Is!Closed(x)
  OBVIOUS
<1>2. IsOk(l, e, n) /\ IsLater(x, n) /\ n.stage = "closed"
  BY <1>1, IsClosedOk DEF IsBase
<1>3. Is!Becomes(l, e, n) /\ UNCHANGED <<isKind, isCtl, isAllowed, isRevoking, isCut, isWire, isCross>>
  BY <1>1 DEF Is!TimeOut, Is!Fault, Is!Stop, Is!Still
<1>4. isWire' \in IsWires(IsPackets')
  BY <1>1, <1>2, <1>3, IsEndsNext
<1>5. isCross' \in BOOLEAN
  BY <1>3 DEF IsBase
<1> QED  BY <1>1, <1>2, <1>3, <1>4, <1>5, IsBaseNext

\* The carrier does nothing to the ends.
LEMMA IsCarries ==
    ASSUME IsBase, UNCHANGED <<isKind, isCtl, isAllowed, isRevoking, isCut, isEnd>>, isCross' \in BOOLEAN,
           isWire' \in IsWires(IsPackets),
           \A l \in Is!Links, e \in Is!Ends :
             isEnd[l][e].read # "whole" /\ isWire[l][e] # <<>> => isWire'[l][e] # <<>>
    PROVE  IsBase'
<1>1. IsPackets' = IsPackets
  BY DEF IsPackets, IsHandshakes, IsProofs, IsData, IsHello, IsWith, IsSealed, Is!MemberHello, Is!SealedHello,
         Is!DeviceProof, Is!ControllerProof
<1>2. isWire' \in [Is!Links -> [Is!Ends -> Seq(IsPackets')]]
  BY <1>1 DEF IsWires
<1>3. \A l \in Is!Links, e \in Is!Ends : (IsOk(l, e, isEnd[l][e]))'
  BY DEF IsBase, IsOk, IsKeyed, IsHeard, IsTrusts, IsIn, Is!Caller
<1>4. \A l \in Is!Links, e \in Is!Ends :
        isEnd'[l][e].stage = "open" /\ isEnd'[l][e].read # "whole" => isWire'[l][e] # <<>>
  BY DEF IsBase
<1> QED  BY <1>2, <1>3, <1>4 DEF IsBase

\* Packets are lost, repeated or reordered.
LEMMA IsMistreats == ASSUME IsBase, NEW l \in Is!Links, NEW e \in Is!Ends, Is!Mistreat(l, e) PROVE IsBase'
<1>1. PICK w, A : w = isWire[l][e] /\ A = IsPackets
  OBVIOUS
<1>2. /\ w # <<>> /\ isEnd[l][e].read = "whole"
      /\ \E t \in {Tail(w), <<Head(w)>> \o w, Tail(w) \o <<Head(w)>>} : isWire' = [isWire EXCEPT ![l][e] = t]
      /\ UNCHANGED <<isKind, isCtl, isAllowed, isRevoking, isCut, isEnd, isCross>>
  BY <1>1 DEF Is!Mistreat, Is!Fault
<1>3. PICK t \in {Tail(w), <<Head(w)>> \o w, Tail(w) \o <<Head(w)>>} : isWire' = [isWire EXCEPT ![l][e] = t]
  BY <1>2
<1>4. isWire \in [Is!Links -> [Is!Ends -> Seq(A)]] /\ w \in Seq(A) /\ isCross' \in BOOLEAN
  <2>1. isWire \in [Is!Links -> [Is!Ends -> Seq(IsPackets)]] /\ isCross \in BOOLEAN
    BY ONLY IsBase DEF IsBase
  <2>2. isWire \in [Is!Links -> [Is!Ends -> Seq(A)]]
    BY ONLY <1>1, <2>1
  <2>3. isWire[l][e] \in Seq(A)
    BY ONLY <2>2, l \in Is!Links, e \in Is!Ends
  <2> QED  BY <1>1, <1>2, <2>1, <2>2, <2>3
<1>5. t \in Seq(A)
  <2>1. Tail(w) \in Seq(A) /\ Head(w) \in A
    BY <1>2, <1>4, HeadTailProperties
  <2>2. <<Head(w)>> \in Seq(A)
    BY <2>1
  <2>3. <<Head(w)>> \o w \in Seq(A) /\ Tail(w) \o <<Head(w)>> \in Seq(A)
    BY <1>4, <2>1, <2>2, ConcatProperties
  <2> QED  BY <2>1, <2>3
<1>6. isWire' \in IsWires(A)
  BY <1>3, <1>4, <1>5 DEF IsWires
<1>7. \A k \in Is!Links, f \in Is!Ends : <<k, f>> # <<l, e>> => isWire'[k][f] = isWire[k][f]
  BY <1>3, <1>4
<1>8. \A k \in Is!Links, f \in Is!Ends :
        isEnd[k][f].read # "whole" /\ isWire[k][f] # <<>> => isWire'[k][f] # <<>>
  BY <1>2, <1>7
<1> QED  BY <1>1, <1>2, <1>4, <1>6, <1>8, IsCarries

\* The carrier joins other ends.
LEMMA IsCrosses == ASSUME IsBase, Is!Cross PROVE IsBase'
<1>1. UNCHANGED <<isKind, isCtl, isAllowed, isRevoking, isCut, isEnd, isWire>> /\ isCross' = ~isCross
  BY DEF Is!Cross, Is!Fault
<1>2. isWire' \in IsWires(IsPackets) /\ isCross' \in BOOLEAN
  BY <1>1 DEF IsBase, IsWires
<1> QED  BY <1>1, <1>2, IsCarries

\* The ends and the wires stay, and there is still something to say for every
\* device that an acceptor has let in.
LEMMA IsStands ==
    ASSUME IsBase, UNCHANGED <<isKind, isCtl, isEnd, isWire, isCross>>, isAllowed' \in [Is!Links -> BOOLEAN],
           \A l \in Is!Links, k \in Is!Links :
             isEnd[l]["ctl"].stage \in {"registering", "open"} /\ isEnd[l]["ctl"].peer = k /\ IsIn(l, k)
               => IsIn(l, k)'
    PROVE  IsBase'
<1>1. /\ isEnd \in [Is!Links -> [Is!Ends -> IsEnds]] /\ isEnd' \in [Is!Links -> [Is!Ends -> IsEnds]]
      /\ \A k \in Is!Links, f \in Is!Ends : IsOk(k, f, isEnd[k][f]) /\ isEnd[k][f] \in IsEnds
  BY DEF IsBase
<1>2. \A k \in Is!Links, f \in Is!Ends : IsLater(isEnd[k][f], isEnd'[k][f])
  BY <1>1, IsSameLater
<1>3. ASSUME NEW k \in Is!Links, NEW f \in Is!Ends PROVE (IsOk(k, f, isEnd[k][f]))'
  <2>1. PICK x : x = isEnd[k][f]
    OBVIOUS
  <2>2. IsOk(k, f, x) /\ x \in IsEnds /\ x = isEnd'[k][f]
    BY <1>1, <2>1
  <2>3. ASSUME x.stage \in {"registering", "open"}, f = "ctl", isKind[k] = "member", IsIn(k, x.peer)
        PROVE  IsIn(k, x.peer)'
    <3>1. x.peer \in Is!Links
      BY <2>2, <2>3 DEF IsOk, IsTrusts
    <3> QED  BY <2>1, <2>3, <3>1
  <2>4. IsOk(k, f, x)'
    BY <1>1, <1>2, <2>2, <2>3, IsOkLater
  <2> QED  BY <2>2, <2>4
<1>4. IsPackets \subseteq IsPackets'
  BY <1>1, <1>2, IsPacketsGrow
<1>5. isWire' \in IsWires(IsPackets')
  <2>1. isWire \in IsWires(IsPackets)
    BY DEF IsBase, IsWires
  <2> QED  BY <1>4, <2>1, IsWiresGrow
<1>6. \A k \in Is!Links, f \in Is!Ends :
        isEnd'[k][f].stage = "open" /\ isEnd'[k][f].read # "whole" => isWire'[k][f] # <<>>
  BY DEF IsBase
<1>7. /\ isKind' \in [Is!Links -> {"member", "sealed"}] /\ isCtl' \in [Is!Links -> {"mine", "other"}]
      /\ isCross' \in BOOLEAN
  BY DEF IsBase
<1> QED  BY <1>1, <1>3, <1>5, <1>6, <1>7 DEF IsBase, IsWires

\* A revocation is committed: the device is out, and to be disconnected.
LEMMA IsRevokes == ASSUME IsBase, NEW l \in Is!Links, Is!Revoke(l) PROVE IsBase'
<1>1. /\ UNCHANGED <<isKind, isCtl, isEnd, isWire, isCross, isCut>>
      /\ isAllowed' = [isAllowed EXCEPT ![l] = FALSE] /\ isRevoking' = isRevoking \cup {l}
  BY DEF Is!Revoke
<1>2. isAllowed \in [Is!Links -> BOOLEAN]
  BY DEF IsBase
<1>3. isAllowed' \in [Is!Links -> BOOLEAN]
      /\ \A k \in Is!Links : isAllowed[k] => isAllowed'[k] \/ k \in isRevoking'
  BY <1>1, <1>2
<1>4. \A j \in Is!Links, k \in Is!Links : IsIn(j, k) => IsIn(j, k)'
  BY <1>1, <1>3 DEF IsIn
<1> QED  BY <1>1, <1>3, <1>4, IsStands

\* The hub tells the session of a revoked device to stop, or misses it.
LEMMA IsDisconnects == ASSUME IsBase, NEW l \in Is!Links, Is!Disconnect(l) PROVE IsBase'
<1>1. /\ UNCHANGED <<isKind, isCtl, isAllowed, isEnd, isWire, isCross>> /\ isRevoking' = isRevoking \ {l}
      /\ isCut' = [k \in Is!Links |->
                      IF isEnd[k]["ctl"].peer # l THEN isCut[k]
                      ELSE IF isEnd[k]["ctl"].stage = "open" THEN "stopped"
                      ELSE IF isEnd[k]["ctl"].stage = "registering" THEN "missed"
                      ELSE isCut[k]]
  BY DEF Is!Disconnect, Is!Open
<1>2. isAllowed' \in [Is!Links -> BOOLEAN]
  BY <1>1 DEF IsBase
<1>3. ASSUME NEW j \in Is!Links, NEW k \in Is!Links, isEnd[j]["ctl"].stage \in {"registering", "open"},
             isEnd[j]["ctl"].peer = k, IsIn(j, k)
      PROVE  IsIn(j, k)'
  <2>1. CASE k = l
    <3>1. isCut'[j] # "none"
      BY <1>1, <1>3, <2>1
    <3> QED  BY <3>1 DEF IsIn
  <2>2. CASE k # l
    <3>1. isCut'[j] = isCut[j]
      BY <1>1, <1>3, <2>2
    <3> QED  BY <1>1, <1>3, <2>2, <3>1 DEF IsIn
  <2> QED  BY <2>1, <2>2
<1> QED  BY <1>1, <1>2, <1>3, IsStands

-----------------------------------------------------------------------------
(* The invariant.                                                           *)

\* In the first state nobody has said anything.
LEMMA IsInvInit == Init => IsInv
<1> SUFFICES ASSUME Init PROVE IsBase
  BY DEF IsInv
<1>1. /\ isKind \in [Is!Links -> {"member", "sealed"}] /\ isCtl \in [Is!Links -> {"mine", "other"}]
      /\ isAllowed \in [Is!Links -> BOOLEAN] /\ isCross = FALSE
      /\ isEnd = [l \in Is!Links |-> [e \in Is!Ends |-> Is!NewEnd(IF e = "dev" THEN "start" ELSE "listen")]]
      /\ isWire = [l \in Is!Links |-> [e \in Is!Ends |-> <<>>]]
  BY DEF Init, Is!IsInit
<1>2. ASSUME NEW l \in Is!Links, NEW e \in Is!Ends
      PROVE  isEnd[l][e] \in IsEnds /\ IsOk(l, e, isEnd[l][e]) /\ isEnd[l][e].read = "whole"
  <2>1. PICK x : x = isEnd[l][e]
    OBVIOUS
  <2>2. x = Is!NewEnd(IF e = "dev" THEN "start" ELSE "listen")
    BY <1>1, <2>1
  <2>3. /\ x.stage = (IF e = "dev" THEN "start" ELSE "listen") /\ x.hash = Is!None /\ x.peer = 0
        /\ x.put = <<>> /\ x.got = <<>> /\ x.read = "whole" /\ x.task = 0 /\ x.calls = 0 /\ x \in IsEnds
    BY <2>2 DEF Is!NewEnd, IsEnds, IsStages
  <2>4. IsStaged(e, x) /\ IsKeyed(l, e, x) /\ IsHeard(e, x) /\ IsTrusts(l, e, x)
    BY <2>3, IsPlaces DEF IsStaged, IsKeyed, IsHeard, IsTrusts
  <2>5. IsNumbered(x)
    <3>1. Is!Replies(x) = {}
      BY <2>3 DEF Is!Replies
    <3>2. Cardinality({}) = 0
      BY FS_EmptySet
    <3> QED  BY <2>3, <3>1, <3>2 DEF IsNumbered
  <2> QED  BY <2>1, <2>3, <2>4, <2>5 DEF IsOk
<1>3. isEnd \in [Is!Links -> [Is!Ends -> IsEnds]]
  <2>1. \A l \in Is!Links : isEnd[l] \in [Is!Ends -> IsEnds]
    BY <1>1, <1>2
  <2> QED  BY <1>1, <2>1
<1>4. isWire \in [Is!Links -> [Is!Ends -> Seq(IsPackets)]]
  BY <1>1
<1> QED  BY <1>1, <1>2, <1>3, <1>4 DEF IsBase

\* Every step of the session keeps it.
LEMMA IsBaseStep == IsBase /\ Is!IsNext => IsBase'
<1> SUFFICES ASSUME IsBase, Is!IsNext PROVE IsBase'
  OBVIOUS
<1>1. CASE Is!Cross
  BY <1>1, IsCrosses
<1>2. CASE \E l \in Is!Links : Is!Connect(l) \/ Is!Accept(l) \/ Is!Finish(l) \/ Is!AcceptThird(l)
  BY <1>2, IsConnects, IsAccepts, IsFinishes, IsAcceptsThird
<1>3. CASE \E l \in Is!Links : Is!AcceptProof(l) \/ Is!Register(l) \/ Is!Establish(l)
  BY <1>3, IsAcceptsProof, IsRegisters, IsEstablishes
<1>7. CASE \E l \in Is!Links : Is!Call(l) \/ Is!Ping(l)
  BY <1>7, IsCalls, IsPings
<1>4. CASE \E l \in Is!Links : Is!Receive(l) \/ Is!Serve(l) \/ Is!Progress(l) \/ Is!Reply(l)
  BY <1>4, IsReceives, IsServes, IsProgresses, IsReplies
<1>5. CASE \E l \in Is!Links : Is!ReadHead(l) \/ Is!CancelRead(l) \/ Is!ReadTorn(l)
  BY <1>5, IsReads
<1>6. CASE \E l \in Is!Links : \E e \in Is!Ends : Is!TimeOut(l, e) \/ Is!Mistreat(l, e)
  BY <1>6, IsTimesOut, IsMistreats
<1>8. CASE \E l \in Is!Links : Is!Revoke(l) \/ Is!Disconnect(l) \/ Is!Stop(l)
  BY <1>8, IsRevokes, IsDisconnects, IsTimesOut, IsPlaces
<1> QED  BY <1>1, <1>2, <1>3, <1>4, <1>5, <1>6, <1>7, <1>8 DEF Is!IsNext

\* Every step of the instance keeps it.
LEMMA IsInvStep == IsInv /\ [Next]_vars => IsInv'
<1> SUFFICES ASSUME IsInv, [Next]_vars, focus' = "session" PROVE IsBase'
  BY DEF IsInv
<1>1. CASE InnerSessionStep
  BY <1>1, IsBaseStep DEF InnerSessionStep, IsInv
<1>2. CASE UNCHANGED vars
  <2>1. UNCHANGED <<focus, isKind, isCtl, isAllowed, isRevoking, isCut, isEnd, isWire, isCross>>
    BY <1>2 DEF vars, isVars
  <2>2. IsBase
    BY <2>1 DEF IsInv
  <2>3. isWire' \in IsWires(IsPackets) /\ isCross' \in BOOLEAN
    BY <2>1, <2>2 DEF IsBase, IsWires
  <2> QED  BY <2>1, <2>2, <2>3, IsCarries
<1>3. CASE Next /\ ~InnerSessionStep
  BY <1>3 DEF Next, ManagedFsStep, TcpForwardStep, SitePathStep, MachineServiceStep, SingleInstanceStep,
              SiteKitStep, FsQueryStep, ControllerWindowStep, LocalCallsStep
<1> QED  BY <1>1, <1>2, <1>3

\* The beginning of a sequence is a prefix.
LEMMA IsPrefix ==
    ASSUME NEW s \in Seq(IsBodies), NEW t \in Seq(IsBodies), IsBegins(s, t)
    PROVE  Is!Prefix(s, t)
<1>1. Len(s) \in Nat /\ Len(t) \in Nat /\ Len(s) <= Len(t) /\ \A i \in 1 .. Len(s) : s[i] = t[i]
  BY DEF IsBegins
<1>2. PICK u : u = SubSeq(t, 1, Len(s))
  OBVIOUS
<1>3. u = [i \in 1 .. Len(s) |-> t[i]]
  BY <1>1, <1>2
<1>4. s = [i \in 1 .. Len(s) |-> s[i]]
  OBVIOUS
<1>5. s = u
  BY <1>1, <1>3, <1>4
<1> QED  BY <1>1, <1>2, <1>5 DEF Is!Prefix

\* The module of the session counts as this one does.
LEMMA IsCardinality == ASSUME NEW S PROVE Is!Cardinality(S) = Cardinality(S)
BY DEF Is!Cardinality, Cardinality

\* The invariant says that the peers agree.
LEMMA IsBaseAgrees == IsBase => Is!PeersAgree
<1> SUFFICES ASSUME IsBase PROVE Is!PeersAgree
  OBVIOUS
<1>1. /\ "dev" \in Is!Ends /\ "ctl" \in Is!Ends /\ Is!Other("dev") = "ctl" /\ Is!Other("ctl") = "dev"
      /\ \A l \in Is!Links, e \in Is!Ends : IsOk(l, e, isEnd[l][e]) /\ isEnd[l][e] \in IsEnds
  BY IsPlaces DEF IsBase, Is!Other
<1>2. ASSUME NEW l \in Is!Links, Is!Open(isEnd[l]["dev"])
      PROVE  \E k \in Is!Partners(l, "dev") :
               /\ isKind[k] = isKind[l] /\ isCtl[k] = "mine"
               /\ isKind[l] = "member" => isEnd[k]["ctl"].peer = l
  <2>1. IsTrusts(l, "dev", isEnd[l]["dev"])
    BY <1>1 DEF IsOk
  <2> QED  BY <1>1, <1>2, <2>1 DEF IsTrusts, Is!Open, Is!Partners
<1>3. ASSUME NEW l \in Is!Links, Is!Open(isEnd[l]["ctl"]), isKind[l] = "member"
      PROVE  isCtl[l] = "mine" /\
             \E k \in Is!Partners(l, "ctl") : isEnd[l]["ctl"].peer = k /\ IsIn(l, k)
  <2>1. IsTrusts(l, "ctl", isEnd[l]["ctl"])
    BY <1>1 DEF IsOk
  <2> QED  BY <1>1, <1>3, <2>1 DEF IsTrusts, Is!Open, Is!Partners
<1>4. ASSUME NEW l \in Is!Links, NEW e \in Is!Ends, isEnd[l][e].got # <<>>
      PROVE  \E k \in Is!Partners(l, e) : Is!Prefix(isEnd[l][e].got, isEnd[k][Is!Other(e)].put)
  <2>1. PICK k \in Is!Links : /\ isEnd[k][Is!Other(e)].hash = isEnd[l][e].hash
                              /\ IsBegins(isEnd[l][e].got, isEnd[k][Is!Other(e)].put)
    BY <1>1, <1>4 DEF IsOk, IsHeard
  <2>2. isEnd[l][e].got \in Seq(IsBodies) /\ isEnd[k][Is!Other(e)].put \in Seq(IsBodies)
    BY <1>1, IsPlaces DEF IsEnds
  <2> QED  BY <2>1, <2>2, IsPrefix DEF Is!Partners
<1>5. ASSUME NEW l \in Is!Links, NEW end, end = isEnd[l][Is!Caller(l)]
      PROVE  /\ \A i \in Is!Replies(end) :
                  end.got[i] = <<"reply", Cardinality({j \in Is!Replies(end) : j <= i})>>
             /\ Is!Open(end) /\ end.task = 0 => Cardinality(Is!Replies(end)) = end.calls
  <2>1. IsNumbered(end) /\ end \in IsEnds
    BY <1>1, <1>5, IsPlaces DEF IsOk
  <2>2. Cardinality(Is!Replies(end)) \in Nat
    BY <2>1, IsReplyCount
  <2> QED  BY <2>1, <2>2 DEF IsNumbered, Is!Open
<1>6. \A l \in Is!Links : Is!Open(isEnd[l]["dev"]) =>
        \E k \in Is!Partners(l, "dev") :
          /\ isKind[k] = isKind[l] /\ isCtl[k] = "mine"
          /\ isKind[l] = "member" => isEnd[k]["ctl"].peer = l
  BY <1>2
<1>7. \A l \in Is!Links : Is!Open(isEnd[l]["ctl"]) /\ isKind[l] = "member" =>
        isCtl[l] = "mine" /\
        \E k \in Is!Partners(l, "ctl") : isEnd[l]["ctl"].peer = k /\ IsIn(l, k)
  BY <1>3
<1>8. \A l \in Is!Links, e \in Is!Ends :
        isEnd[l][e].got # <<>> =>
          \E k \in Is!Partners(l, e) : Is!Prefix(isEnd[l][e].got, isEnd[k][Is!Other(e)].put)
  BY <1>4
<1>9. \A l \in Is!Links :
        LET end == isEnd[l][Is!Caller(l)]
        IN /\ \A i \in Is!Replies(end) :
                end.got[i] = <<"reply", Is!Cardinality({j \in Is!Replies(end) : j <= i})>>
           /\ Is!Open(end) /\ end.task = 0 => Is!Cardinality(Is!Replies(end)) = end.calls
  BY <1>5, IsCardinality
<1> QED  BY <1>6, <1>7, <1>8, <1>9 DEF Is!PeersAgree, IsIn

\* PeersAgree for sessions of any length and any number of faults: both ends
\* of an established session are ends of one handshake, with a device that was let
\* in, and a revocation leaves only a session that it met before its registration;
\* each was given the beginning of what the other sent, and every reply answers
\* its own call.
THEOREM PeersAgreeThm == Spec => []PeersAgree
<1>1. IsInv => PeersAgree
  BY IsBaseAgrees DEF IsInv, PeersAgree
<1> QED  BY <1>1, IsInvInit, IsInvStep, PTL DEF Spec

-----------------------------------------------------------------------------
(* The window of the Controller.                                           *)

WnStates == {"open", "closed", "revoked", "gone"}
WnOutfits == [rev : Nat, from : Wn!Outfits, look : BOOLEAN]
WnProfiles == [id : Wn!Outfits, rev : Nat, look : BOOLEAN]
WnCommands ==
  [op : {"refresh", "invite", "kit", "import", "store", "preview", "backup", "recovery",
         "activity", "shutdown"}]
  \cup [op : {"close", "revoke", "delete"}, id : Nat]
  \cup [op : {"show", "create", "image", "default"}, id : Wn!Outfits]
  \cup [op : {"update"}, id : Wn!Outfits, of : Wn!Outfits]
WnPlain ==
  [ev : {"error", "imported", "importFailed", "credential", "default", "stored", "preview",
         "backup", "recovery", "activity", "shutdown"}]
WnShots ==
  [ev : {"snapshot"}, creds : Seq(WnStates), paused : BOOLEAN, catalog : [Wn!Outfits -> Nat],
   default : Wn!Outfits, recent : Wn!Outfits, images : SUBSET {1}, runtime : BOOLEAN]
WnEvents ==
  WnPlain \cup [ev : {"invite", "kit"}, id : Nat] \cup [ev : {"loaded", "saved"}, profile : WnProfiles]
  \cup WnShots

WnCtlTyped ==
  /\ DOMAIN wnCtl = {"up", "creds", "images", "runtime", "paused", "default", "recent", "lib"}
  /\ wnCtl.up \in BOOLEAN /\ wnCtl.runtime \in BOOLEAN /\ wnCtl.paused \in BOOLEAN
  /\ wnCtl.creds \in Seq(WnStates) /\ wnCtl.images \in SUBSET {1}
  /\ wnCtl.default \in Wn!Outfits /\ wnCtl.recent \in Wn!Outfits
  /\ wnCtl.lib \in [Wn!Outfits -> WnOutfits]

WnWinTyped ==
  /\ DOMAIN wnWin = {"refreshing", "creds", "selected", "confirm", "open", "inviting", "importing",
                     "tried", "importError", "runtime", "default", "kit", "exporting", "paused",
                     "armed", "mcp", "exit", "acceptance", "page"}
  /\ wnWin.refreshing \in BOOLEAN /\ wnWin.inviting \in BOOLEAN /\ wnWin.importing \in BOOLEAN
  /\ wnWin.exporting \in BOOLEAN /\ wnWin.exit \in BOOLEAN
  /\ wnWin.creds \in Seq(WnStates)

WnStudioTyped ==
  /\ DOMAIN wnStudio = {"catalog", "default", "recent", "images", "sel", "profile", "draft", "image",
                        "texture", "rendering", "loading", "busy"}
  /\ wnStudio.catalog \in [Wn!Outfits -> Nat]
  /\ wnStudio.default \in Wn!Outfits /\ wnStudio.recent \in {Wn!None} \cup Wn!Outfits
  /\ wnStudio.sel \in {Wn!None} \cup Wn!Outfits
  /\ wnStudio.profile \in {Wn!NoProfile} \cup WnProfiles
  /\ wnStudio.draft \in [of : {Wn!None} \cup Wn!Outfits, dirty : BOOLEAN]
  /\ wnStudio.image \in BOOLEAN /\ wnStudio.texture \in BOOLEAN /\ wnStudio.rendering \in BOOLEAN
  /\ wnStudio.loading \in BOOLEAN /\ wnStudio.busy \in BOOLEAN

WnTyped ==
  /\ WnCtlTyped /\ WnWinTyped /\ WnStudioTyped
  /\ wnQueue \in Seq(WnCommands) /\ wnEvents \in Seq(WnEvents)
  /\ wnWork \in {Wn!Idle, Wn!Ended} \cup [at : {"refresh"}, creds : Seq(WnStates)]

\* A credential that is not open, and a list that shows as closed only such
\* credentials.
WnShut(i) == i \in DOMAIN wnCtl.creds /\ wnCtl.creds[i] # "open"
WnListTrue(list) == \A i \in DOMAIN list : list[i] # "open" => WnShut(i)

\* The command and the event say what may be done and what was.
WnCommandTrue(c) ==
  /\ c.op = "delete" => WnShut(c.id)
  /\ c.op = "update" => c.of = c.id
WnProfileTrue(p) == p.rev <= wnCtl.lib[p.id].rev
WnEventTrue(e) ==
  /\ e.ev = "shutdown" => ~wnCtl.up
  /\ e.ev \in {"loaded", "saved"} => WnProfileTrue(e.profile)
  /\ e.ev = "snapshot" => /\ WnListTrue(e.creds)
                          /\ \A o \in Wn!Outfits : e.catalog[o] <= wnCtl.lib[o].rev

WnTrue ==
  /\ \A o \in Wn!Outfits : wnCtl.lib[o].from = o /\ wnStudio.catalog[o] <= wnCtl.lib[o].rev
  /\ \A i \in DOMAIN wnQueue : WnCommandTrue(wnQueue[i])
  /\ \A i \in DOMAIN wnEvents : WnEventTrue(wnEvents[i])
  /\ wnWork.at = "refresh" => WnListTrue(wnWork.creds)
  /\ WnListTrue(wnWin.creds)
  /\ \A i : wnWin.confirm = <<"delete", i>> => WnShut(i)
  /\ wnWin.exit => ~wnCtl.up /\ wnWin.mcp = "none"

\* A profile on its way is not older than the catalog the window has by then.
WnOrdered ==
  \A i \in DOMAIN wnEvents : wnEvents[i].ev \in {"loaded", "saved"} =>
    /\ wnStudio.catalog[wnEvents[i].profile.id] <= wnEvents[i].profile.rev
    /\ \A j \in DOMAIN wnEvents : j < i /\ wnEvents[j].ev = "snapshot" =>
         wnEvents[j].catalog[wnEvents[i].profile.id] <= wnEvents[i].profile.rev

\* The profile that is shown.
WnShown ==
  wnStudio.profile # Wn!NoProfile =>
    /\ wnStudio.sel = wnStudio.profile.id /\ wnStudio.draft.of = wnStudio.profile.id
    /\ ~wnStudio.loading
    /\ wnStudio.catalog[wnStudio.profile.id] <= wnStudio.profile.rev
    /\ WnProfileTrue(wnStudio.profile)

\* What a spinner waits for is on its way, unless the worker has ended.
WnHasOp(q, ops) == \E i \in DOMAIN q : q[i].op \in ops
WnHasEv(q, evs) == \E i \in DOMAIN q : q[i].ev \in evs
WnWaits(ops, evs) == wnWork = Wn!Ended \/ WnHasOp(wnQueue, ops) \/ WnHasEv(wnEvents, evs)

WnSpins ==
  /\ wnWin.refreshing => \/ wnWork.at = "refresh" \/ wnWork = Wn!Ended
                         \/ wnQueue # <<>> \/ wnEvents # <<>>
  /\ wnWin.inviting => WnWaits({"invite", "kit"}, {"invite", "kit", "error"})
  /\ wnWin.importing => WnWaits({"import"}, {"imported", "importFailed", "error"})
  /\ wnWin.exporting => WnWaits({"backup"}, {"backup", "error"})
  /\ wnStudio.busy => WnWaits({"create", "update", "image", "default"}, {"saved", "default", "error"})
  /\ wnStudio.loading => WnWaits({"show"}, {"loaded", "error"})
  /\ wnStudio.rendering => WnWaits({"preview"}, {"preview", "error"})

WnBase == WnTyped /\ WnTrue /\ WnOrdered /\ WnShown /\ WnSpins
WnInv == focus = "window" => WnBase

\* The head and the tail of a sequence.
LEMMA WnHeads ==
    ASSUME NEW S, NEW q \in Seq(S), q # <<>>
    PROVE  /\ Head(q) \in S /\ Head(q) = q[1] /\ 1 \in DOMAIN q /\ Tail(q) \in Seq(S)
           /\ \A i \in DOMAIN Tail(q) : i \in Nat /\ i + 1 \in DOMAIN q /\ Tail(q)[i] = q[i + 1]
           /\ \A i \in DOMAIN q : i \in Nat /\ i >= 1 /\ q[i] \in S
           /\ \A i \in DOMAIN q : i # 1 => i - 1 \in DOMAIN Tail(q)
OBVIOUS

\* The sequence with one more at its end.
LEMMA WnAppends ==
    ASSUME NEW S, NEW q \in Seq(S), NEW e \in S
    PROVE  /\ Append(q, e) \in Seq(S) /\ DOMAIN Append(q, e) = DOMAIN q \cup {Len(q) + 1}
           /\ Append(q, e)[Len(q) + 1] = e /\ Len(q) \in Nat
           /\ \A i \in DOMAIN q : i \in Nat /\ i < Len(q) + 1 /\ Append(q, e)[i] = q[i] /\ q[i] \in S
OBVIOUS

\* Two sequences in a row.
LEMMA WnJoins ==
    ASSUME NEW S, NEW q \in Seq(S), NEW r \in Seq(S)
    PROVE  /\ q \o r \in Seq(S)
           /\ \A i \in DOMAIN q : i \in DOMAIN (q \o r) /\ (q \o r)[i] = q[i]
           /\ \A i \in DOMAIN r : Len(q) + i \in DOMAIN (q \o r) /\ (q \o r)[Len(q) + i] = r[i]
           /\ \A i \in DOMAIN (q \o r) :
                i \in DOMAIN q \/ \E k \in DOMAIN r : (q \o r)[i] = r[k]
<1>1. /\ q \o r \in Seq(S) /\ Len(q \o r) = Len(q) + Len(r) /\ Len(q) \in Nat /\ Len(r) \in Nat
      /\ DOMAIN q = 1 .. Len(q) /\ DOMAIN r = 1 .. Len(r) /\ DOMAIN (q \o r) = 1 .. (Len(q) + Len(r))
      /\ \A i \in 1 .. (Len(q) + Len(r)) : (q \o r)[i] = IF i <= Len(q) THEN q[i] ELSE r[i - Len(q)]
  OBVIOUS
<1>2. ASSUME NEW i \in DOMAIN (q \o r), i \notin DOMAIN q
      PROVE  \E k \in DOMAIN r : (q \o r)[i] = r[k]
  <2>1. i - Len(q) \in DOMAIN r /\ (q \o r)[i] = r[i - Len(q)]
    BY <1>1, <1>2
  <2> QED  BY <2>1
<1> QED  BY <1>1, <1>2

\* The worker takes a command and answers it.
LEMMA WnWaitsAnswer ==
    ASSUME WnTyped, NEW ops, NEW evs, WnWaits(ops, evs), wnQueue # <<>>, NEW e \in WnEvents,
           wnQueue' = Tail(wnQueue), wnEvents' = Append(wnEvents, e),
           Head(wnQueue).op \in ops => e.ev \in evs, wnWork = Wn!Ended => wnWork' = Wn!Ended
    PROVE  WnWaits(ops, evs)'
<1>1. wnQueue \in Seq(WnCommands) /\ wnEvents \in Seq(WnEvents)
  BY DEF WnTyped
<1>2. CASE wnWork = Wn!Ended
  BY <1>2 DEF WnWaits, Wn!Ended
<1>3. CASE WnHasEv(wnEvents, evs)
  <2>1. PICK i \in DOMAIN wnEvents : wnEvents[i].ev \in evs
    BY <1>3 DEF WnHasEv
  <2>2. i \in DOMAIN wnEvents' /\ wnEvents'[i].ev \in evs
    BY <1>1, <2>1, WnAppends
  <2> QED  BY <2>2 DEF WnWaits, WnHasEv
<1>4. CASE WnHasOp(wnQueue, ops)
  <2>1. PICK i \in DOMAIN wnQueue : wnQueue[i].op \in ops
    BY <1>4 DEF WnHasOp
  <2>2. CASE i = 1
    <3>1. e.ev \in evs
      BY <1>1, <2>1, <2>2, WnHeads
    <3>2. Len(wnEvents) + 1 \in DOMAIN wnEvents' /\ wnEvents'[Len(wnEvents) + 1].ev \in evs
      BY <1>1, <3>1, WnAppends
    <3> QED  BY <3>2 DEF WnWaits, WnHasEv
  <2>3. CASE i # 1
    <3>1. i - 1 \in DOMAIN wnQueue' /\ wnQueue'[i - 1] = wnQueue[i - 1 + 1] /\ i \in Nat
      BY <1>1, <2>1, <2>3, WnHeads
    <3>2. wnQueue'[i - 1].op \in ops
      BY <2>1, <3>1
    <3> QED  BY <3>1, <3>2 DEF WnWaits, WnHasOp
  <2> QED  BY <2>2, <2>3
<1> QED  BY <1>2, <1>3, <1>4 DEF WnWaits

\* It begins a refresh, for which no spinner waits alone.
LEMMA WnWaitsBegin ==
    ASSUME WnTyped, NEW ops, NEW evs, WnWaits(ops, evs), wnQueue # <<>>, wnWork # Wn!Ended,
           wnQueue' = Tail(wnQueue), UNCHANGED wnEvents, Head(wnQueue).op \notin ops
    PROVE  WnWaits(ops, evs)'
<1>1. wnQueue \in Seq(WnCommands)
  BY DEF WnTyped
<1>2. CASE WnHasEv(wnEvents, evs)
  BY <1>2 DEF WnWaits
<1>3. CASE WnHasOp(wnQueue, ops)
  <2>1. PICK i \in DOMAIN wnQueue : wnQueue[i].op \in ops
    BY <1>3 DEF WnHasOp
  <2>2. i # 1
    BY <1>1, <2>1, WnHeads
  <2>3. i - 1 \in DOMAIN wnQueue' /\ wnQueue'[i - 1] = wnQueue[i - 1 + 1] /\ i \in Nat
    BY <1>1, <2>1, <2>2, WnHeads
  <2>4. wnQueue'[i - 1].op \in ops
    BY <2>1, <2>3
  <2> QED  BY <2>3, <2>4 DEF WnWaits, WnHasOp
<1> QED  BY <1>2, <1>3 DEF WnWaits

\* It sends an event.
LEMMA WnWaitsSend ==
    ASSUME WnTyped, NEW ops, NEW evs, WnWaits(ops, evs), NEW e \in WnEvents, wnWork # Wn!Ended,
           wnEvents' = Append(wnEvents, e), UNCHANGED wnQueue
    PROVE  WnWaits(ops, evs)'
<1>1. wnEvents \in Seq(WnEvents)
  BY DEF WnTyped
<1>2. CASE WnHasEv(wnEvents, evs)
  <2>1. PICK i \in DOMAIN wnEvents : wnEvents[i].ev \in evs
    BY <1>2 DEF WnHasEv
  <2>2. i \in DOMAIN wnEvents' /\ wnEvents'[i].ev \in evs
    BY <1>1, <2>1, WnAppends
  <2> QED  BY <2>2 DEF WnWaits, WnHasEv
<1>3. CASE WnHasOp(wnQueue, ops)
  BY <1>3 DEF WnWaits
<1> QED  BY <1>2, <1>3 DEF WnWaits

\* The window takes an event and sends commands.
LEMMA WnWaitsTake ==
    ASSUME WnTyped, NEW ops, NEW evs, NEW cmds \in Seq(WnCommands), wnEvents # <<>>,
           \/ WnWaits(ops, evs) /\ Head(wnEvents).ev \notin evs
           \/ WnHasOp(cmds, ops),
           wnEvents' = Tail(wnEvents), wnQueue' = wnQueue \o cmds, UNCHANGED wnWork
    PROVE  WnWaits(ops, evs)'
<1>1. wnEvents \in Seq(WnEvents) /\ wnQueue \in Seq(WnCommands)
  BY DEF WnTyped
<1>2. CASE WnHasOp(cmds, ops)
  <2>1. PICK i \in DOMAIN cmds : cmds[i].op \in ops
    BY <1>2 DEF WnHasOp
  <2>2. Len(wnQueue) + i \in DOMAIN wnQueue' /\ wnQueue'[Len(wnQueue) + i].op \in ops
    BY SMTT(30), <1>1, <2>1, WnJoins
  <2> QED  BY <2>2 DEF WnWaits, WnHasOp
<1>3. CASE WnHasOp(wnQueue, ops)
  <2>1. PICK i \in DOMAIN wnQueue : wnQueue[i].op \in ops
    BY <1>3 DEF WnHasOp
  <2>2. i \in DOMAIN wnQueue' /\ wnQueue'[i].op \in ops
    BY <1>1, <2>1, WnJoins
  <2> QED  BY <2>2 DEF WnWaits, WnHasOp
<1>4. CASE WnHasEv(wnEvents, evs) /\ Head(wnEvents).ev \notin evs
  <2>1. PICK i \in DOMAIN wnEvents : wnEvents[i].ev \in evs
    BY <1>4 DEF WnHasEv
  <2>2. i # 1
    BY <1>1, <1>4, <2>1, WnHeads
  <2>3. i - 1 \in DOMAIN wnEvents' /\ wnEvents'[i - 1] = wnEvents[i - 1 + 1] /\ i \in Nat
    BY <1>1, <2>1, <2>2, WnHeads
  <2>4. wnEvents'[i - 1].ev \in evs
    BY <2>1, <2>3
  <2> QED  BY <2>3, <2>4 DEF WnWaits, WnHasEv
<1>5. CASE wnWork = Wn!Ended
  BY <1>5 DEF WnWaits, Wn!Ended
<1> QED  BY <1>2, <1>3, <1>4, <1>5 DEF WnWaits

\* The user clicks.
LEMMA WnWaitsClick ==
    ASSUME WnTyped, NEW ops, NEW evs, NEW cmds \in Seq(WnCommands),
           WnWaits(ops, evs) \/ WnHasOp(cmds, ops),
           wnQueue' = IF wnWork = Wn!Ended THEN wnQueue ELSE wnQueue \o cmds,
           UNCHANGED <<wnEvents, wnWork>>
    PROVE  WnWaits(ops, evs)'
<1>1. wnQueue \in Seq(WnCommands)
  BY DEF WnTyped
<1>2. CASE wnWork = Wn!Ended
  BY <1>2 DEF WnWaits, Wn!Ended
<1>3. CASE wnWork # Wn!Ended /\ WnHasOp(cmds, ops)
  <2>1. PICK i \in DOMAIN cmds : cmds[i].op \in ops
    BY <1>3 DEF WnHasOp
  <2>2. Len(wnQueue) + i \in DOMAIN wnQueue' /\ wnQueue'[Len(wnQueue) + i].op \in ops
    BY <1>1, <1>3, <2>1, WnJoins
  <2> QED  BY <2>2 DEF WnWaits, WnHasOp
<1>4. CASE wnWork # Wn!Ended /\ WnHasOp(wnQueue, ops)
  <2>1. PICK i \in DOMAIN wnQueue : wnQueue[i].op \in ops
    BY <1>4 DEF WnHasOp
  <2>2. i \in DOMAIN wnQueue' /\ wnQueue'[i].op \in ops
    BY <1>1, <1>4, <2>1, WnJoins
  <2> QED  BY <2>2 DEF WnWaits, WnHasOp
<1>5. CASE WnHasEv(wnEvents, evs)
  BY <1>5 DEF WnWaits
<1> QED  BY <1>2, <1>3, <1>4, <1>5 DEF WnWaits

\* What may become of the Controller's state: a credential does not open
\* again, an outfit does not go back, and a Controller that ended stays so.
WnOver(d) ==
  /\ DOMAIN d = DOMAIN wnCtl
  /\ d.up \in BOOLEAN /\ d.runtime \in BOOLEAN /\ d.paused \in BOOLEAN
  /\ d.creds \in Seq(WnStates) /\ d.images \in SUBSET {1}
  /\ d.default \in Wn!Outfits /\ d.recent \in Wn!Outfits
  /\ d.lib \in [Wn!Outfits -> WnOutfits]
  /\ \A i : WnShut(i) => i \in DOMAIN d.creds /\ d.creds[i] # "open"
  /\ \A o \in Wn!Outfits : wnCtl.lib[o].rev <= d.lib[o].rev /\ d.lib[o].from = o
  /\ ~wnCtl.up => ~d.up

\* An outfit, a command and an event of each kind.
LEMMA WnKinds ==
    /\ \A l \in WnOutfits : l.rev \in Nat /\ l.from \in Wn!Outfits /\ l.look \in BOOLEAN
    /\ \A p \in WnProfiles : p.id \in Wn!Outfits /\ p.rev \in Nat /\ p.look \in BOOLEAN
    /\ Wn!NoProfile \notin WnProfiles
    /\ \A e \in WnEvents : /\ e.ev \in {"loaded", "saved"} => e.profile \in WnProfiles
                           /\ e.ev = "snapshot" => e \in WnShots
    /\ \A c \in WnCommands :
         /\ c.op \in {"close", "revoke", "delete"} => c.id \in Nat
         /\ c.op \in {"show", "create", "image", "default", "update"} => c.id \in Wn!Outfits
         /\ c.op = "update" => c.of \in Wn!Outfits
    /\ Wn!Idle.at = "idle" /\ Wn!Ended.at = "ended" /\ Wn!Idle # Wn!Ended
<1>1. \A e \in WnEvents : /\ e.ev \in {"loaded", "saved"} => e.profile \in WnProfiles
                          /\ e.ev = "snapshot" => e \in WnShots
  BY DEF WnEvents, WnPlain, WnShots
<1>2. \A c \in WnCommands :
        /\ c.op \in {"close", "revoke", "delete"} => c.id \in Nat
        /\ c.op \in {"show", "create", "image", "default", "update"} => c.id \in Wn!Outfits
        /\ c.op = "update" => c.of \in Wn!Outfits
  BY DEF WnCommands
<1>3. Wn!NoProfile \notin WnProfiles
  <2>1. \A p \in WnProfiles : "rev" \in DOMAIN p
    BY DEF WnProfiles
  <2>2. "rev" \notin DOMAIN Wn!NoProfile
    BY DEF Wn!NoProfile
  <2> QED  BY <2>1, <2>2
<1>4. Wn!Idle.at = "idle" /\ Wn!Ended.at = "ended"
  BY DEF Wn!Idle, Wn!Ended
<1>5. /\ \A l \in WnOutfits : l.rev \in Nat /\ l.from \in Wn!Outfits /\ l.look \in BOOLEAN
      /\ \A p \in WnProfiles : p.id \in Wn!Outfits /\ p.rev \in Nat /\ p.look \in BOOLEAN
  BY DEF WnOutfits, WnProfiles
<1> QED  BY <1>1, <1>2, <1>3, <1>4, <1>5

\* The state that stays is over itself.
LEMMA WnSameOver == ASSUME WnBase PROVE WnOver(wnCtl)
<1>1. \A o \in Wn!Outfits : wnCtl.lib[o].rev \in Nat
  BY WnKinds DEF WnBase, WnTyped, WnCtlTyped
<1> QED  BY <1>1 DEF WnOver, WnBase, WnTyped, WnCtlTyped, WnTrue, WnShut

\* What was true of a list, a command, a profile or an event stays true.
LEMMA WnOlder ==
    ASSUME WnBase, WnOver(wnCtl')
    PROVE  /\ WnCtlTyped'
           /\ \A i : WnShut(i) => WnShut(i)'
           /\ \A l : WnListTrue(l) => WnListTrue(l)'
           /\ \A c : WnCommandTrue(c) => WnCommandTrue(c)'
           /\ \A p \in WnProfiles : WnProfileTrue(p) => WnProfileTrue(p)'
           /\ \A e \in WnEvents : WnEventTrue(e) => WnEventTrue(e)'
           /\ \A o \in Wn!Outfits : wnCtl'.lib[o].from = o /\ wnStudio.catalog[o] <= wnCtl'.lib[o].rev
<1>1. WnCtlTyped'
  BY DEF WnOver, WnBase, WnTyped, WnCtlTyped
<1>2. \A i : WnShut(i) => WnShut(i)'
  BY DEF WnOver, WnShut
<1>3. \A l : WnListTrue(l) => WnListTrue(l)'
  BY <1>2 DEF WnListTrue
<1>4. \A c : WnCommandTrue(c) => WnCommandTrue(c)'
  BY <1>2 DEF WnCommandTrue
<1>5. \A o \in Wn!Outfits : /\ wnCtl.lib[o].rev \in Nat /\ wnCtl'.lib[o].rev \in Nat
                            /\ wnCtl.lib[o].rev <= wnCtl'.lib[o].rev /\ wnCtl'.lib[o].from = o
  <2>1. wnCtl.lib \in [Wn!Outfits -> WnOutfits] /\ wnCtl'.lib \in [Wn!Outfits -> WnOutfits]
    BY DEF WnOver, WnBase, WnTyped, WnCtlTyped
  <2> QED  BY <2>1, WnKinds DEF WnOver
<1>6. \A p \in WnProfiles : WnProfileTrue(p) => WnProfileTrue(p)'
  <2> SUFFICES ASSUME NEW p \in WnProfiles, p.rev <= wnCtl.lib[p.id].rev
               PROVE  p.rev <= wnCtl'.lib[p.id].rev
    BY DEF WnProfileTrue
  <2>1. p.id \in Wn!Outfits /\ p.rev \in Nat
    BY WnKinds
  <2> QED  BY <1>5, <2>1
<1>7. ~wnCtl.up => ~wnCtl'.up
  BY DEF WnOver
<1>8. ASSUME NEW e \in WnEvents, WnEventTrue(e)
      PROVE  WnEventTrue(e)'
  <2>1. e.ev = "shutdown" => ~wnCtl'.up
    BY <1>7, <1>8 DEF WnEventTrue
  <2>2. e.ev \in {"loaded", "saved"} => WnProfileTrue(e.profile)'
    BY <1>6, <1>8, WnKinds DEF WnEventTrue
  <2>3. ASSUME e.ev = "snapshot"
        PROVE  WnListTrue(e.creds)' /\ \A o \in Wn!Outfits : e.catalog[o] <= wnCtl'.lib[o].rev
    <3>1. WnListTrue(e.creds) /\ \A o \in Wn!Outfits : e.catalog[o] <= wnCtl.lib[o].rev
      BY <1>8, <2>3 DEF WnEventTrue
    <3>2. e.catalog \in [Wn!Outfits -> Nat]
      BY <2>3, WnKinds DEF WnShots
    <3>3. \A o \in Wn!Outfits : e.catalog[o] \in Nat
      BY <3>2
    <3> QED  BY <1>3, <1>5, <3>1, <3>3
  <2> QED  BY <2>1, <2>2, <2>3 DEF WnEventTrue
<1>9. \A o \in Wn!Outfits : wnStudio.catalog[o] \in Nat /\ wnStudio.catalog[o] <= wnCtl.lib[o].rev
  BY DEF WnBase, WnTyped, WnStudioTyped, WnTrue
<1> QED  BY <1>1, <1>2, <1>3, <1>4, <1>5, <1>6, <1>8, <1>9

\* The window stays and the Controller moves.
LEMMA WnWindowKept ==
    ASSUME WnBase, WnOver(wnCtl'), UNCHANGED <<wnWin, wnStudio>>
    PROVE  /\ WnCtlTyped' /\ WnWinTyped' /\ WnStudioTyped' /\ WnShown'
           /\ \A o \in Wn!Outfits : wnCtl'.lib[o].from = o /\ wnStudio'.catalog[o] <= wnCtl'.lib[o].rev
           /\ WnListTrue(wnWin.creds)' /\ (\A i : wnWin.confirm = <<"delete", i>> => WnShut(i))'
           /\ wnWin'.exit => ~wnCtl'.up /\ wnWin'.mcp = "none"
<1>1. WnWinTyped' /\ WnStudioTyped'
  BY DEF WnBase, WnTyped, WnWinTyped, WnStudioTyped
<1>2. WnShown'
  <2> SUFFICES ASSUME wnStudio.profile # Wn!NoProfile PROVE WnShown'
    BY DEF WnShown
  <2>1. PICK p \in WnProfiles : p = wnStudio.profile
    BY DEF WnBase, WnTyped, WnStudioTyped
  <2>2. WnProfileTrue(p)
    BY <2>1 DEF WnBase, WnShown
  <2>3. WnProfileTrue(p)'
    BY <2>2, WnOlder
  <2> QED  BY <2>1, <2>3 DEF WnBase, WnShown, WnProfileTrue
<1>3. WnListTrue(wnWin.creds)'
  <2>1. PICK l : l = wnWin.creds
    OBVIOUS
  <2>2. WnListTrue(l)'
    BY <2>1, WnOlder DEF WnBase, WnTrue
  <2> QED  BY <2>1, <2>2 DEF WnListTrue
<1>4. (\A i : wnWin.confirm = <<"delete", i>> => WnShut(i))'
  BY WnOlder DEF WnBase, WnTrue
<1>5. wnWin'.exit => ~wnCtl'.up /\ wnWin'.mcp = "none"
  BY DEF WnBase, WnTrue, WnOver
<1> QED  BY <1>1, <1>2, <1>3, <1>4, <1>5, WnOlder

\* An event is sent.
LEMMA WnSent ==
    ASSUME WnBase, WnOver(wnCtl'), NEW e \in WnEvents, WnEventTrue(e)',
           e.ev \in {"loaded", "saved"} => e.profile.rev = wnCtl'.lib[e.profile.id].rev,
           wnEvents' = Append(wnEvents, e), UNCHANGED wnStudio
    PROVE  /\ wnEvents' \in Seq(WnEvents)
           /\ \A i \in DOMAIN wnEvents' : WnEventTrue(wnEvents[i])'
           /\ WnOrdered'
<1>1. wnEvents \in Seq(WnEvents)
  BY DEF WnBase, WnTyped
<1>2. PICK n \in Nat : n = Len(wnEvents) + 1
  BY <1>1
<1>3. /\ wnEvents' \in Seq(WnEvents) /\ DOMAIN wnEvents' = DOMAIN wnEvents \cup {n} /\ wnEvents'[n] = e
      /\ \A i \in DOMAIN wnEvents : i \in Nat /\ i < n /\ wnEvents'[i] = wnEvents[i] /\ wnEvents[i] \in WnEvents
  BY <1>1, <1>2, WnAppends
<1>4. ASSUME NEW i \in DOMAIN wnEvents'
      PROVE  WnEventTrue(wnEvents[i])'
  <2>1. CASE i = n
    BY <1>3, <2>1
  <2>2. CASE i \in DOMAIN wnEvents
    <3>1. PICK f \in WnEvents : f = wnEvents[i] /\ f = wnEvents'[i]
      BY <1>3, <2>2
    <3>2. WnEventTrue(f)
      BY <2>2, <3>1 DEF WnBase, WnTrue
    <3>3. WnEventTrue(f)'
      BY <3>2, WnOlder
    <3> QED  BY <3>1, <3>3
  <2> QED  BY <1>3, <2>1, <2>2
<1>5. \A o \in Wn!Outfits : wnStudio'.catalog[o] <= wnCtl'.lib[o].rev
  BY WnOlder
<1>6. ASSUME NEW i \in DOMAIN wnEvents', wnEvents'[i].ev \in {"loaded", "saved"}
      PROVE  /\ wnStudio'.catalog[wnEvents'[i].profile.id] <= wnEvents'[i].profile.rev
             /\ \A j \in DOMAIN wnEvents' : j < i /\ wnEvents'[j].ev = "snapshot" =>
                  wnEvents'[j].catalog[wnEvents'[i].profile.id] <= wnEvents'[i].profile.rev
  <2>1. CASE i = n
    <3>1. e.profile \in WnProfiles /\ e.profile.id \in Wn!Outfits /\ wnEvents'[i] = e
      BY <1>3, <1>6, <2>1, WnKinds
    <3>2. wnStudio'.catalog[e.profile.id] <= e.profile.rev
      BY <1>3, <1>5, <1>6, <2>1, <3>1
    <3>3. ASSUME NEW j \in DOMAIN wnEvents', wnEvents'[j].ev = "snapshot"
          PROVE  wnEvents'[j].catalog[e.profile.id] <= e.profile.rev
      <4>1. \A o \in Wn!Outfits : wnEvents'[j].catalog[o] <= wnCtl'.lib[o].rev
        BY <1>4, <3>3 DEF WnEventTrue
      <4> QED  BY <1>3, <1>6, <2>1, <3>1, <4>1
    <3> QED  BY <3>1, <3>2, <3>3
  <2>2. CASE i \in DOMAIN wnEvents
    <3>1. wnEvents'[i] = wnEvents[i] /\ i \in Nat /\ i < n
      BY <1>3, <2>2
    <3>2. \A j \in DOMAIN wnEvents' : j < i => j \in DOMAIN wnEvents /\ wnEvents'[j] = wnEvents[j]
      BY <1>3, <3>1
    <3> QED  BY <1>6, <2>2, <3>1, <3>2 DEF WnBase, WnOrdered
  <2> QED  BY <1>3, <2>1, <2>2
<1> QED  BY <1>3, <1>4, <1>6 DEF WnOrdered

\* The head of the queue is taken.
LEMMA WnTaken ==
    ASSUME WnBase, WnOver(wnCtl'), wnQueue # <<>>, wnQueue' = Tail(wnQueue)
    PROVE  /\ wnQueue' \in Seq(WnCommands) /\ Head(wnQueue) \in WnCommands /\ WnCommandTrue(Head(wnQueue))
           /\ \A i \in DOMAIN wnQueue' : WnCommandTrue(wnQueue[i])'
<1>1. wnQueue \in Seq(WnCommands)
  BY DEF WnBase, WnTyped
<1>2. /\ Head(wnQueue) \in WnCommands /\ Head(wnQueue) = wnQueue[1] /\ 1 \in DOMAIN wnQueue
      /\ wnQueue' \in Seq(WnCommands)
      /\ \A i \in DOMAIN wnQueue' : i + 1 \in DOMAIN wnQueue /\ wnQueue'[i] = wnQueue[i + 1]
  BY <1>1, WnHeads
<1>3. WnCommandTrue(Head(wnQueue))
  BY <1>2 DEF WnBase, WnTrue
<1>4. ASSUME NEW i \in DOMAIN wnQueue' PROVE WnCommandTrue(wnQueue[i])'
  <2>1. PICK c : c = wnQueue[i + 1] /\ c = wnQueue'[i]
    BY <1>2
  <2>2. WnCommandTrue(c)
    BY <1>2, <2>1 DEF WnBase, WnTrue
  <2>3. WnCommandTrue(c)'
    BY <2>2, WnOlder
  <2> QED  BY <2>1, <2>3
<1> QED  BY <1>2, <1>3, <1>4

\* What an event must be for the spinners that wait for its command.
WnAnswersTo(op, ev) ==
  /\ op \in {"invite", "kit"} => ev \in {"invite", "kit", "error"}
  /\ op \in {"import"} => ev \in {"imported", "importFailed", "error"}
  /\ op \in {"backup"} => ev \in {"backup", "error"}
  /\ op \in {"create", "update", "image", "default"} => ev \in {"saved", "default", "error"}
  /\ op \in {"show"} => ev \in {"loaded", "error"}
  /\ op \in {"preview"} => ev \in {"preview", "error"}

\* The worker answers a command.
LEMMA WnWorkerStep ==
    ASSUME WnBase, WnOver(wnCtl'), wnQueue # <<>>, wnQueue' = Tail(wnQueue), wnWork = Wn!Idle,
           wnWork' \in {Wn!Idle, Wn!Ended},
           NEW e \in WnEvents, WnEventTrue(e)', WnAnswersTo(Head(wnQueue).op, e.ev),
           e.ev \in {"loaded", "saved"} => e.profile.rev = wnCtl'.lib[e.profile.id].rev,
           wnEvents' = Append(wnEvents, e), UNCHANGED <<wnWin, wnStudio>>
    PROVE  WnBase'
<1>1. WnTyped /\ WnSpins
  BY DEF WnBase
<1>2. wnWork # Wn!Ended /\ wnWork'.at # "refresh"
  BY WnKinds
<1>3. WnTyped'
  BY WnWindowKept, WnSent, WnTaken DEF WnTyped
<1>4. WnTrue'
  BY <1>2, WnWindowKept, WnSent, WnTaken DEF WnTrue
<1>5. WnSpins'
  <2>1. wnWin.inviting => WnWaits({"invite", "kit"}, {"invite", "kit", "error"})'
    BY <1>1, <1>2, WnWaitsAnswer DEF WnSpins, WnAnswersTo
  <2>2. wnWin.importing => WnWaits({"import"}, {"imported", "importFailed", "error"})'
    BY <1>1, <1>2, WnWaitsAnswer DEF WnSpins, WnAnswersTo
  <2>3. wnWin.exporting => WnWaits({"backup"}, {"backup", "error"})'
    BY <1>1, <1>2, WnWaitsAnswer DEF WnSpins, WnAnswersTo
  <2>4. wnStudio.busy => WnWaits({"create", "update", "image", "default"}, {"saved", "default", "error"})'
    BY <1>1, <1>2, WnWaitsAnswer DEF WnSpins, WnAnswersTo
  <2>5. wnStudio.loading => WnWaits({"show"}, {"loaded", "error"})'
    BY <1>1, <1>2, WnWaitsAnswer DEF WnSpins, WnAnswersTo
  <2>6. wnStudio.rendering => WnWaits({"preview"}, {"preview", "error"})'
    BY <1>1, <1>2, WnWaitsAnswer DEF WnSpins, WnAnswersTo
  <2>7. wnEvents' # <<>>
    BY <1>1 DEF WnTyped
  <2> QED  BY <2>1, <2>2, <2>3, <2>4, <2>5, <2>6, <2>7 DEF WnSpins
<1> QED  BY <1>3, <1>4, <1>5, WnSent, WnWindowKept DEF WnBase

\* The outcome of a call: the state after it and the event it is told with.
WnFits(d, e) ==
  /\ WnOver(d) /\ e \in WnEvents /\ e.ev # "snapshot"
  /\ e.ev = "shutdown" => ~d.up
  /\ e.ev \in {"loaded", "saved"} => e.profile.rev = d.lib[e.profile.id].rev

\* A call that succeeds, is refused, or fails before or after it was made.
LEMMA WnAnswers ==
    ASSUME WnBase, NEW outcomes, NEW failure \in WnEvents, Wn!AnswersOr(outcomes, failure), wnQueue # <<>>,
           failure.ev \in {"error", "importFailed"}, WnAnswersTo(Head(wnQueue).op, failure.ev),
           \A o \in outcomes : WnFits(o.ctl, o.event) /\ WnAnswersTo(Head(wnQueue).op, o.event.ev),
           wnWork' \in {Wn!Idle, Wn!Ended}
    PROVE  WnBase'
<1>1. wnWork = Wn!Idle /\ wnQueue' = Tail(wnQueue) /\ UNCHANGED <<wnWin, wnStudio>>
  BY DEF Wn!AnswersOr
<1>2. CASE \E o \in outcomes : wnCtl' = o.ctl /\ wnEvents' = Append(wnEvents, o.event)
  <2>1. PICK o \in outcomes : wnCtl' = o.ctl /\ wnEvents' = Append(wnEvents, o.event)
    BY <1>2
  <2>2. PICK e \in WnEvents : e = o.event
    BY DEF WnFits
  <2>3. /\ WnOver(wnCtl') /\ e.ev # "snapshot" /\ (e.ev = "shutdown" => ~wnCtl'.up)
        /\ e.ev \in {"loaded", "saved"} => e.profile.rev = wnCtl'.lib[e.profile.id].rev
        /\ WnAnswersTo(Head(wnQueue).op, e.ev)
    BY <2>1, <2>2 DEF WnFits
  <2>4. e.ev \in {"loaded", "saved"} => WnProfileTrue(e.profile)'
    BY <2>3, WnKinds DEF WnProfileTrue
  <2>5. WnEventTrue(e)'
    BY <2>3, <2>4 DEF WnEventTrue
  <2> QED  BY <1>1, <2>1, <2>2, <2>3, <2>5, WnWorkerStep
<1>3. CASE (\E o \in outcomes : wnCtl' = o.ctl) /\ wnEvents' = Append(wnEvents, failure)
  <2>1. WnOver(wnCtl')
    BY <1>3 DEF WnFits
  <2>2. WnEventTrue(failure)'
    BY DEF WnEventTrue
  <2> QED  BY <1>1, <1>3, <2>1, <2>2, WnWorkerStep
<1>4. CASE UNCHANGED wnCtl /\ wnEvents' = Append(wnEvents, failure)
  <2>1. WnOver(wnCtl')
    BY <1>4, WnSameOver
  <2>2. WnEventTrue(failure)'
    BY DEF WnEventTrue
  <2> QED  BY <1>1, <1>4, <2>1, <2>2, WnWorkerStep
<1>5. \/ \E o \in outcomes : wnCtl' = o.ctl /\ wnEvents' = Append(wnEvents, o.event)
      \/ UNCHANGED wnCtl /\ wnEvents' = Append(wnEvents, failure)
      \/ (\E o \in outcomes : wnCtl' = o.ctl) /\ wnEvents' = Append(wnEvents, failure)
  BY DEF Wn!AnswersOr
<1> QED  BY <1>2, <1>3, <1>4, <1>5

\* The failure of any call, and the events that say no more than their kind.
LEMMA WnPlainEvents ==
    /\ Wn!Failed \in WnEvents /\ Wn!Failed.ev = "error"
    /\ \A ev \in {"error", "imported", "importFailed", "credential", "default", "stored", "preview",
                  "backup", "recovery", "activity", "shutdown"} :
         [ev |-> ev] \in WnEvents /\ [ev |-> ev].ev = ev
    /\ \A op : WnAnswersTo(op, "error")
BY DEF Wn!Failed, WnEvents, WnPlain, WnAnswersTo

\* Other lists of credentials, and other outfits.
LEMMA WnOverCreds ==
    ASSUME WnBase, NEW cs \in Seq(WnStates), \A i : WnShut(i) => i \in DOMAIN cs /\ cs[i] # "open"
    PROVE  WnOver([wnCtl EXCEPT !.creds = cs])
<1>1. PICK d : d = [wnCtl EXCEPT !.creds = cs]
  OBVIOUS
<1>2. /\ DOMAIN d = DOMAIN wnCtl /\ d.creds = cs /\ d.up = wnCtl.up /\ d.runtime = wnCtl.runtime
      /\ d.paused = wnCtl.paused /\ d.images = wnCtl.images /\ d.default = wnCtl.default
      /\ d.recent = wnCtl.recent /\ d.lib = wnCtl.lib
  BY <1>1 DEF WnBase, WnTyped, WnCtlTyped
<1>3. WnOver(wnCtl)
  BY WnSameOver
<1> QED  BY <1>1, <1>2, <1>3 DEF WnOver

\* Another outfit is saved.
LEMMA WnOverLib ==
    ASSUME WnBase, NEW o \in Wn!Outfits, NEW l \in WnOutfits, NEW r \in Wn!Outfits,
           l.from = o, l.rev >= wnCtl.lib[o].rev
    PROVE  /\ WnOver([wnCtl EXCEPT !.lib[o] = l, !.recent = r])
           /\ [wnCtl EXCEPT !.lib[o] = l, !.recent = r].lib[o] = l
<1>1. PICK d : d = [wnCtl EXCEPT !.lib[o] = l, !.recent = r]
  OBVIOUS
<1>2. wnCtl.lib \in [Wn!Outfits -> WnOutfits] /\ \A p \in Wn!Outfits : wnCtl.lib[p] \in WnOutfits
  BY DEF WnBase, WnTyped, WnCtlTyped
<1>3. /\ DOMAIN d = DOMAIN wnCtl /\ d.creds = wnCtl.creds /\ d.up = wnCtl.up /\ d.runtime = wnCtl.runtime
      /\ d.paused = wnCtl.paused /\ d.images = wnCtl.images /\ d.default = wnCtl.default
      /\ d.recent = r /\ d.lib = [wnCtl.lib EXCEPT ![o] = l]
  BY <1>1 DEF WnBase, WnTyped, WnCtlTyped
<1>4. WnOver(wnCtl)
  BY WnSameOver
<1>5. /\ d.lib \in [Wn!Outfits -> WnOutfits] /\ d.lib[o] = l
      /\ \A p \in Wn!Outfits : wnCtl.lib[p].rev <= d.lib[p].rev /\ d.lib[p].from = p
  BY <1>2, <1>3, <1>4 DEF WnOver
<1> QED  BY <1>1, <1>3, <1>4, <1>5 DEF WnOver

\* A new credential.
LEMMA WnInvites == ASSUME WnBase, Wn!IssueInvite PROVE WnBase'
<1>1. PICK next \in Nat : next = Len(wnCtl.creds) + 1
  BY DEF WnBase, WnTyped, WnCtlTyped
<1>2. PICK cs : cs = Append(wnCtl.creds, "open")
  OBVIOUS
<1>3. PICK op \in {"invite", "kit"} : op = Head(wnQueue).op
  BY DEF Wn!IssueInvite, Wn!Command
<1>4. PICK d : d = [wnCtl EXCEPT !.creds = cs]
  OBVIOUS
<1>5. PICK outcomes : /\ Wn!AnswersOr(outcomes, Wn!Failed)
                      /\ outcomes \subseteq {[ctl |-> d, event |-> [ev |-> op, id |-> next]]}
  <2>1. PICK outcomes : outcomes = (IF (op = "invite" \/ wnCtl.runtime) /\ next <= MaxIssued
                                    THEN {Wn!Outcome(d, [ev |-> op, id |-> next])} ELSE {})
    OBVIOUS
  <2>2. Wn!AnswersOr(outcomes, Wn!Failed)
    BY <1>1, <1>2, <1>3, <1>4, <2>1 DEF Wn!IssueInvite, Wn!Answers
  <2> QED  BY <2>1, <2>2 DEF Wn!Outcome
<1>6. wnCtl.creds \in Seq(WnStates) /\ "open" \in WnStates
  BY DEF WnBase, WnTyped, WnCtlTyped, WnStates
<1>7. cs \in Seq(WnStates) /\ \A i \in DOMAIN wnCtl.creds : i \in DOMAIN cs /\ cs[i] = wnCtl.creds[i]
  BY <1>2, <1>6, WnAppends
<1>8. WnOver(d)
  BY <1>4, <1>7, WnOverCreds DEF WnShut
<1>9. PICK e : e = [ev |-> op, id |-> next]
  OBVIOUS
<1>10. e \in WnEvents /\ e.ev = op
  BY <1>9 DEF WnEvents
<1>11. WnFits(d, e) /\ WnAnswersTo(op, e.ev)
  BY <1>8, <1>10 DEF WnFits, WnAnswersTo
<1>12. \A o \in outcomes : WnFits(o.ctl, o.event) /\ WnAnswersTo(Head(wnQueue).op, o.event.ev)
  BY <1>3, <1>5, <1>9, <1>11
<1>13. wnQueue # <<>> /\ wnWork' \in {Wn!Idle, Wn!Ended}
  BY <1>5 DEF Wn!IssueInvite, Wn!Command, Wn!AnswersOr
<1> QED  BY <1>5, <1>12, <1>13, WnAnswers, WnPlainEvents

\* A runtime is imported.
LEMMA WnImports == ASSUME WnBase, Wn!ImportRuntime PROVE WnBase'
<1>1. PICK d, good, bad : /\ d = [wnCtl EXCEPT !.runtime = TRUE]
                          /\ good = [ev |-> "imported"] /\ bad = [ev |-> "importFailed"]
  OBVIOUS
<1>2. PICK outcomes : outcomes = {[ctl |-> d, event |-> good], [ctl |-> wnCtl, event |-> bad]}
  OBVIOUS
<1>3. Wn!AnswersOr(outcomes, bad) /\ Head(wnQueue).op = "import" /\ wnQueue # <<>>
  BY <1>1, <1>2 DEF Wn!ImportRuntime, Wn!Outcome, Wn!Command
<1>4. wnWork' \in {Wn!Idle, Wn!Ended}
  BY <1>3 DEF Wn!ImportRuntime, Wn!AnswersOr
<1>5. /\ DOMAIN d = DOMAIN wnCtl /\ d.creds = wnCtl.creds /\ d.lib = wnCtl.lib /\ d.up = wnCtl.up
      /\ d.runtime = TRUE /\ d.paused = wnCtl.paused /\ d.images = wnCtl.images
      /\ d.default = wnCtl.default /\ d.recent = wnCtl.recent
  BY <1>1 DEF WnBase, WnTyped, WnCtlTyped
<1>6. WnOver(d) /\ WnOver(wnCtl)
  BY ZenonT(60), <1>5, WnSameOver DEF WnOver
<1>7. good \in WnEvents /\ good.ev = "imported" /\ bad \in WnEvents /\ bad.ev = "importFailed"
  BY <1>1, WnPlainEvents
<1>8. WnFits(d, good) /\ WnFits(wnCtl, bad)
  BY <1>6, <1>7 DEF WnFits
<1>9. WnAnswersTo("import", good.ev) /\ WnAnswersTo("import", bad.ev)
  BY <1>7 DEF WnAnswersTo
<1>10. \A o \in outcomes : WnFits(o.ctl, o.event) /\ WnAnswersTo(Head(wnQueue).op, o.event.ev)
  BY <1>2, <1>3, <1>8, <1>9
<1> QED  BY <1>3, <1>4, <1>7, <1>9, <1>10, WnAnswers

\* A credential is closed, revoked or deleted.
LEMMA WnChanges == ASSUME WnBase, Wn!ChangeCredential PROVE WnBase'
<1>1. PICK c : c = Head(wnQueue)
  OBVIOUS
<1>2. PICK cs : cs = [wnCtl.creds EXCEPT ![c.id] = Wn!Changed(wnCtl.creds[c.id], c.op)]
  OBVIOUS
<1>3. PICK d, e : d = [wnCtl EXCEPT !.creds = cs] /\ e = [ev |-> "credential"]
  OBVIOUS
<1>4. PICK outcomes : outcomes = {[ctl |-> d, event |-> e]}
  OBVIOUS
<1>5. Wn!AnswersOr(outcomes, Wn!Failed) /\ c.op \in {"close", "revoke", "delete"} /\ wnQueue # <<>>
  BY <1>1, <1>2, <1>3, <1>4 DEF Wn!ChangeCredential, Wn!Answers, Wn!Outcome, Wn!Command
<1>6. wnWork' \in {Wn!Idle, Wn!Ended}
  BY <1>5 DEF Wn!ChangeCredential, Wn!AnswersOr
<1>7. wnCtl.creds \in Seq(WnStates)
  BY DEF WnBase, WnTyped, WnCtlTyped
<1>8. \A s, op : Wn!Changed(s, op) \in WnStates /\ Wn!Changed(s, op) # "open"
  BY DEF Wn!Changed, WnStates
<1>9. PICK v \in WnStates : v = Wn!Changed(wnCtl.creds[c.id], c.op) /\ v # "open"
  BY <1>8
<1>10. cs \in Seq(WnStates) /\ \A i \in DOMAIN wnCtl.creds : i \in DOMAIN cs /\ cs[i] \in {v, wnCtl.creds[i]}
  <2>1. /\ DOMAIN cs = 1 .. Len(wnCtl.creds) /\ Len(wnCtl.creds) \in Nat
        /\ \A i \in DOMAIN wnCtl.creds : cs[i] \in {v, wnCtl.creds[i]}
        /\ \A i \in 1 .. Len(wnCtl.creds) : cs[i] \in WnStates
    BY <1>2, <1>7, <1>9
  <2>2. cs \in [1 .. Len(wnCtl.creds) -> WnStates]
    BY <1>2, <1>7, <1>9, <2>1
  <2> QED  BY <1>7, <2>1, <2>2
<1>11. WnOver(d)
  BY <1>3, <1>9, <1>10, WnOverCreds DEF WnShut
<1>12. e \in WnEvents /\ e.ev = "credential"
  BY <1>3, WnPlainEvents
<1>13. WnFits(d, e) /\ WnAnswersTo(c.op, e.ev)
  BY <1>5, <1>11, <1>12 DEF WnFits, WnAnswersTo
<1>14. \A o \in outcomes : WnFits(o.ctl, o.event) /\ WnAnswersTo(Head(wnQueue).op, o.event.ev)
  BY <1>1, <1>4, <1>13
<1> QED  BY <1>5, <1>6, <1>14, WnAnswers, WnPlainEvents

\* A profile is read.
LEMMA WnShows == ASSUME WnBase, Wn!ShowOutfit PROVE WnBase'
<1>1. PICK c : c = Head(wnQueue)
  OBVIOUS
<1>2. PICK p, e : p = Wn!ProfileOf(c.id) /\ e = [ev |-> "loaded", profile |-> p]
  OBVIOUS
<1>3. PICK outcomes : outcomes = {[ctl |-> wnCtl, event |-> e]}
  OBVIOUS
<1>4. Wn!AnswersOr(outcomes, Wn!Failed) /\ c.op = "show" /\ wnQueue # <<>>
  BY <1>1, <1>2, <1>3 DEF Wn!ShowOutfit, Wn!Answers, Wn!Outcome, Wn!Command
<1>5. wnWork' \in {Wn!Idle, Wn!Ended}
  BY <1>4 DEF Wn!ShowOutfit, Wn!AnswersOr
<1>6. c \in WnCommands
  <2>1. wnQueue \in Seq(WnCommands)
    BY DEF WnBase, WnTyped
  <2> QED  BY <1>1, <1>4, <2>1, WnHeads
<1>7. c.id \in Wn!Outfits /\ wnCtl.lib[c.id] \in WnOutfits
  BY <1>4, <1>6, WnKinds DEF WnBase, WnTyped, WnCtlTyped
<1>8. p \in WnProfiles /\ p.id = c.id /\ p.rev = wnCtl.lib[c.id].rev
  BY <1>2, <1>7, WnKinds DEF Wn!ProfileOf, WnProfiles
<1>9. e \in WnEvents /\ e.ev = "loaded" /\ e.profile = p
  BY <1>2, <1>8 DEF WnEvents
<1>10. WnOver(wnCtl)
  BY WnSameOver
<1>11. WnFits(wnCtl, e) /\ WnAnswersTo(c.op, e.ev)
  BY <1>4, <1>8, <1>9, <1>10 DEF WnFits, WnAnswersTo
<1>12. \A o \in outcomes : WnFits(o.ctl, o.event) /\ WnAnswersTo(Head(wnQueue).op, o.event.ev)
  BY <1>1, <1>3, <1>11
<1> QED  BY <1>4, <1>5, <1>12, WnAnswers, WnPlainEvents

\* An outfit is created, or its draft or image is saved.
LEMMA WnSaves == ASSUME WnBase, Wn!SaveOutfit PROVE WnBase'
<1>1. PICK c : c = Head(wnQueue)
  OBVIOUS
<1>2. PICK outcomes : outcomes = Wn!Saved(c)
  OBVIOUS
<1>3. Wn!AnswersOr(outcomes, Wn!Failed) /\ c.op \in {"create", "update", "image"} /\ wnQueue # <<>>
  BY <1>1, <1>2 DEF Wn!SaveOutfit, Wn!Answers, Wn!Command
<1>4. wnWork' \in {Wn!Idle, Wn!Ended}
  BY <1>3 DEF Wn!SaveOutfit, Wn!AnswersOr
<1>5. c \in WnCommands /\ WnCommandTrue(c)
  <2>1. wnQueue \in Seq(WnCommands)
    BY DEF WnBase, WnTyped
  <2>2. c \in WnCommands /\ c = wnQueue[1] /\ 1 \in DOMAIN wnQueue
    BY <1>1, <1>3, <2>1, WnHeads
  <2> QED  BY <2>2 DEF WnBase, WnTrue
<1>6. PICK id \in Wn!Outfits : id = c.id
  BY <1>3, <1>5, WnKinds
<1>7. PICK was \in WnOutfits : was = wnCtl.lib[id]
  BY DEF WnBase, WnTyped, WnCtlTyped
<1>8. was.from = id /\ was.rev \in Nat /\ was.look \in BOOLEAN
  BY <1>7, WnKinds DEF WnBase, WnTrue
<1>9. PICK now : now = CASE c.op = "create" -> Wn!Outfit(1, c.id, FALSE)
                         [] c.op = "update" -> Wn!Outfit(was.rev + 1, c.of, was.look)
                         [] c.op = "image"  -> IF was.look THEN was ELSE Wn!Outfit(was.rev + 1, was.from, TRUE)
  OBVIOUS
<1>10. outcomes = IF now.rev > MaxRevision \/ (c.op = "create" /\ was.rev > 0) THEN {}
                  ELSE {Wn!Outcome([wnCtl EXCEPT !.lib[c.id] = now, !.recent = c.id],
                                   [ev |-> "saved", profile |-> [id |-> c.id, rev |-> now.rev, look |-> now.look]])}
  BY <1>2, <1>6, <1>7, <1>9 DEF Wn!Saved
<1>11. CASE outcomes = {}
  BY <1>3, <1>4, <1>11, WnAnswers, WnPlainEvents
<1>12. CASE outcomes # {}
  <2>1. ~(c.op = "create" /\ was.rev > 0)
    BY <1>10, <1>12
  <2>2. now \in WnOutfits /\ now.from = id /\ now.rev >= was.rev
    <3>1. CASE c.op = "create"
      <4>1. now = [rev |-> 1, from |-> id, look |-> FALSE] /\ was.rev = 0
        BY <1>6, <1>8, <1>9, <2>1, <3>1 DEF Wn!Outfit
      <4> QED  BY <4>1 DEF WnOutfits
    <3>2. CASE c.op = "update"
      <4>1. now = [rev |-> was.rev + 1, from |-> id, look |-> was.look]
        BY <1>5, <1>6, <1>9, <3>2 DEF Wn!Outfit, WnCommandTrue
      <4> QED  BY <1>8, <4>1 DEF WnOutfits
    <3>3. CASE c.op = "image" /\ was.look
      <4>1. now = was
        BY <1>9, <3>3
      <4> QED  BY <1>8, <4>1
    <3>4. CASE c.op = "image" /\ ~was.look
      <4>1. now = [rev |-> was.rev + 1, from |-> id, look |-> TRUE]
        BY <1>8, <1>9, <3>4 DEF Wn!Outfit
      <4> QED  BY <1>8, <4>1 DEF WnOutfits
    <3> QED  BY <1>3, <3>1, <3>2, <3>3, <3>4
  <2>3. PICK d, p, e : /\ d = [wnCtl EXCEPT !.lib[id] = now, !.recent = id]
                       /\ p = [id |-> id, rev |-> now.rev, look |-> now.look]
                       /\ e = [ev |-> "saved", profile |-> p]
    OBVIOUS
  <2>4. outcomes = {[ctl |-> d, event |-> e]}
    BY <1>6, <1>10, <1>12, <2>3 DEF Wn!Outcome
  <2>5. WnOver(d) /\ d.lib[id] = now
    BY <1>7, <2>2, <2>3, WnOverLib
  <2>6. p \in WnProfiles /\ p.id = id /\ p.rev = now.rev
    BY <2>2, <2>3, WnKinds DEF WnProfiles
  <2>7. e \in WnEvents /\ e.ev = "saved" /\ e.profile = p
    BY <2>3, <2>6 DEF WnEvents
  <2>8. WnFits(d, e) /\ WnAnswersTo(c.op, e.ev)
    BY <1>3, <2>5, <2>6, <2>7 DEF WnFits, WnAnswersTo
  <2>9. \A o \in outcomes : WnFits(o.ctl, o.event) /\ WnAnswersTo(Head(wnQueue).op, o.event.ev)
    BY <1>1, <2>4, <2>8
  <2> QED  BY <1>3, <1>4, <2>9, WnAnswers, WnPlainEvents
<1> QED  BY <1>11, <1>12

\* The default outfit is set.
LEMMA WnDefaults == ASSUME WnBase, Wn!SetDefaultOutfit PROVE WnBase'
<1>1. PICK c : c = Head(wnQueue)
  OBVIOUS
<1>2. PICK d, e : d = [wnCtl EXCEPT !.default = c.id, !.recent = c.id] /\ e = [ev |-> "default"]
  OBVIOUS
<1>3. PICK outcomes : outcomes = {[ctl |-> d, event |-> e]}
  OBVIOUS
<1>4. Wn!AnswersOr(outcomes, Wn!Failed) /\ c.op = "default" /\ wnQueue # <<>>
  BY <1>1, <1>2, <1>3 DEF Wn!SetDefaultOutfit, Wn!Answers, Wn!Outcome, Wn!Command
<1>5. wnWork' \in {Wn!Idle, Wn!Ended}
  BY <1>4 DEF Wn!SetDefaultOutfit, Wn!AnswersOr
<1>6. c \in WnCommands
  <2>1. wnQueue \in Seq(WnCommands)
    BY DEF WnBase, WnTyped
  <2> QED  BY <1>1, <1>4, <2>1, WnHeads
<1>7. c.id \in Wn!Outfits
  BY <1>4, <1>6, WnKinds
<1>8. /\ DOMAIN d = DOMAIN wnCtl /\ d.creds = wnCtl.creds /\ d.lib = wnCtl.lib /\ d.up = wnCtl.up
      /\ d.runtime = wnCtl.runtime /\ d.paused = wnCtl.paused /\ d.images = wnCtl.images
      /\ d.default = c.id /\ d.recent = c.id
  BY <1>2 DEF WnBase, WnTyped, WnCtlTyped
<1>9. WnOver(d)
  BY <1>7, <1>8, WnSameOver DEF WnOver
<1>10. e \in WnEvents /\ e.ev = "default"
  BY <1>2, WnPlainEvents
<1>11. WnFits(d, e) /\ WnAnswersTo(c.op, e.ev)
  BY <1>4, <1>9, <1>10 DEF WnFits, WnAnswersTo
<1>12. \A o \in outcomes : WnFits(o.ctl, o.event) /\ WnAnswersTo(Head(wnQueue).op, o.event.ev)
  BY <1>1, <1>3, <1>11
<1> QED  BY <1>4, <1>5, <1>12, WnAnswers, WnPlainEvents

\* An image is stored or shown.
LEMMA WnServes == ASSUME WnBase, Wn!ServeImage PROVE WnBase'
<1>1. PICK op \in {"store", "preview"} : op = Head(wnQueue).op
  BY DEF Wn!ServeImage, Wn!Command
<1>2. PICK d, e : /\ d = IF op = "store" THEN [wnCtl EXCEPT !.images = {1}] ELSE wnCtl
                  /\ e = IF op = "store" THEN [ev |-> "stored"] ELSE [ev |-> "preview"]
  OBVIOUS
<1>3. PICK outcomes : outcomes = {[ctl |-> d, event |-> e]}
  OBVIOUS
<1>4. Wn!AnswersOr(outcomes, Wn!Failed) /\ wnQueue # <<>>
  <2>1. outcomes = IF op = "store" THEN {Wn!Outcome([wnCtl EXCEPT !.images = {1}], [ev |-> "stored"])}
                   ELSE {Wn!Outcome(wnCtl, [ev |-> "preview"])}
    BY <1>2, <1>3 DEF Wn!Outcome
  <2> QED  BY <1>1, <2>1 DEF Wn!ServeImage, Wn!Answers, Wn!Command
<1>5. wnWork' \in {Wn!Idle, Wn!Ended}
  BY <1>4 DEF Wn!ServeImage, Wn!AnswersOr
<1>6. WnOver(d)
  <2>1. CASE op = "store"
    <3>1. /\ DOMAIN d = DOMAIN wnCtl /\ d.creds = wnCtl.creds /\ d.lib = wnCtl.lib /\ d.up = wnCtl.up
          /\ d.runtime = wnCtl.runtime /\ d.paused = wnCtl.paused /\ d.images = {1}
          /\ d.default = wnCtl.default /\ d.recent = wnCtl.recent
      BY <1>2, <2>1 DEF WnBase, WnTyped, WnCtlTyped
    <3> QED  BY <3>1, WnSameOver DEF WnOver
  <2>2. CASE op = "preview"
    BY <1>2, <2>2, WnSameOver
  <2> QED  BY <2>1, <2>2
<1>7. e \in WnEvents /\ e.ev \in {"stored", "preview"} /\ (op = "preview" => e.ev = "preview")
  BY <1>2, WnPlainEvents
<1>8. WnFits(d, e) /\ WnAnswersTo(op, e.ev)
  BY <1>6, <1>7 DEF WnFits, WnAnswersTo
<1>9. \A o \in outcomes : WnFits(o.ctl, o.event) /\ WnAnswersTo(Head(wnQueue).op, o.event.ev)
  BY <1>1, <1>3, <1>8
<1> QED  BY <1>4, <1>5, <1>9, WnAnswers, WnPlainEvents

\* A backup, the review of a restored state, the activity list.
LEMMA WnCares == ASSUME WnBase, Wn!ServeCare PROVE WnBase'
<1>1. PICK op \in {"backup", "recovery", "activity"} : op = Head(wnQueue).op
  BY DEF Wn!ServeCare, Wn!Command
<1>2. PICK d, e : d = [wnCtl EXCEPT !.paused = @ /\ op # "recovery"] /\ e = [ev |-> op]
  OBVIOUS
<1>3. PICK outcomes : outcomes = {[ctl |-> d, event |-> e]}
  OBVIOUS
<1>4. Wn!AnswersOr(outcomes, Wn!Failed) /\ wnQueue # <<>>
  BY <1>1, <1>2, <1>3 DEF Wn!ServeCare, Wn!Answers, Wn!Outcome, Wn!Command
<1>5. wnWork' \in {Wn!Idle, Wn!Ended}
  BY <1>4 DEF Wn!ServeCare, Wn!AnswersOr
<1>6. /\ DOMAIN d = DOMAIN wnCtl /\ d.creds = wnCtl.creds /\ d.lib = wnCtl.lib /\ d.up = wnCtl.up
      /\ d.runtime = wnCtl.runtime /\ d.paused \in BOOLEAN /\ d.images = wnCtl.images
      /\ d.default = wnCtl.default /\ d.recent = wnCtl.recent
  BY <1>2 DEF WnBase, WnTyped, WnCtlTyped
<1>7. WnOver(d)
  BY <1>6, WnSameOver DEF WnOver
<1>8. e \in WnEvents /\ e.ev = op
  BY <1>2, WnPlainEvents
<1>9. WnFits(d, e) /\ WnAnswersTo(op, e.ev)
  BY <1>7, <1>8 DEF WnFits, WnAnswersTo
<1>10. \A o \in outcomes : WnFits(o.ctl, o.event) /\ WnAnswersTo(Head(wnQueue).op, o.event.ev)
  BY <1>1, <1>3, <1>9
<1> QED  BY <1>4, <1>5, <1>10, WnAnswers, WnPlainEvents

\* The Controller is asked to end.
LEMMA WnShuts == ASSUME WnBase, Wn!Shutdown PROVE WnBase'
<1>1. PICK d, e : d = [wnCtl EXCEPT !.up = FALSE] /\ e = [ev |-> "shutdown"]
  OBVIOUS
<1>2. PICK outcomes : outcomes = {[ctl |-> d, event |-> e]}
  OBVIOUS
<1>3. /\ Wn!AnswersOr(outcomes, Wn!Failed) /\ Head(wnQueue).op = "shutdown" /\ wnQueue # <<>>
      /\ wnWork' \in {Wn!Idle, Wn!Ended}
  BY <1>1, <1>2 DEF Wn!Shutdown, Wn!Answers, Wn!Outcome, Wn!Command
<1>4. /\ DOMAIN d = DOMAIN wnCtl /\ d.creds = wnCtl.creds /\ d.lib = wnCtl.lib /\ d.up = FALSE
      /\ d.runtime = wnCtl.runtime /\ d.paused = wnCtl.paused /\ d.images = wnCtl.images
      /\ d.default = wnCtl.default /\ d.recent = wnCtl.recent
  BY <1>1 DEF WnBase, WnTyped, WnCtlTyped
<1>5. WnOver(d)
  BY <1>4, WnSameOver DEF WnOver
<1>6. e \in WnEvents /\ e.ev = "shutdown"
  BY <1>1, WnPlainEvents
<1>7. WnFits(d, e) /\ WnAnswersTo("shutdown", e.ev)
  BY <1>4, <1>5, <1>6 DEF WnFits, WnAnswersTo
<1>8. \A o \in outcomes : WnFits(o.ctl, o.event) /\ WnAnswersTo(Head(wnQueue).op, o.event.ev)
  BY <1>2, <1>3, <1>7
<1> QED  BY <1>3, <1>8, WnAnswers, WnPlainEvents

\* A refresh that fails at once.
LEMMA WnRefreshFails == ASSUME WnBase, Wn!RefreshFails PROVE WnBase'
<1>1. /\ wnWork = Wn!Idle /\ wnWork' = Wn!Idle /\ wnQueue # <<>> /\ wnQueue' = Tail(wnQueue)
      /\ wnEvents' = Append(wnEvents, Wn!Failed) /\ UNCHANGED <<wnCtl, wnWin, wnStudio>>
  BY DEF Wn!RefreshFails, Wn!Command
<1>2. PICK e \in WnEvents : e = Wn!Failed /\ e.ev = "error"
  BY WnPlainEvents
<1>3. WnOver(wnCtl')
  BY <1>1, WnSameOver
<1>4. WnEventTrue(e)'
  BY <1>2 DEF WnEventTrue
<1>5. WnAnswersTo(Head(wnQueue).op, e.ev)
  BY <1>2, WnPlainEvents
<1> QED  BY <1>1, <1>2, <1>3, <1>4, <1>5, WnWorkerStep

\* A refresh reads the credentials.
LEMMA WnRefreshBegins == ASSUME WnBase, Wn!RefreshBegins PROVE WnBase'
<1>1. /\ wnWork = Wn!Idle /\ Head(wnQueue).op = "refresh" /\ wnQueue # <<>> /\ wnQueue' = Tail(wnQueue)
      /\ wnWork' = [at |-> "refresh", creds |-> wnCtl.creds]
      /\ UNCHANGED <<wnCtl, wnEvents, wnWin, wnStudio>>
  BY DEF Wn!RefreshBegins, Wn!Command
<1>2. WnTyped /\ WnTrue /\ WnSpins /\ WnOrdered
  BY DEF WnBase
<1>3. WnOver(wnCtl')
  BY <1>1, WnSameOver
<1>4. wnWork'.at = "refresh" /\ wnWork'.creds = wnCtl.creds /\ wnWork # Wn!Ended
  BY <1>1, WnKinds
<1>5. WnTyped'
  <2>1. wnWork' \in [at : {"refresh"}, creds : Seq(WnStates)]
    BY <1>1, <1>2 DEF WnTyped, WnCtlTyped
  <2> QED  BY <1>1, <1>2, <1>3, <2>1, WnWindowKept, WnTaken DEF WnTyped
<1>6. WnListTrue(wnWork.creds)'
  BY <1>1, <1>4 DEF WnListTrue, WnShut
<1>7. \A i \in DOMAIN wnEvents' : WnEventTrue(wnEvents[i])'
  BY <1>1, <1>2 DEF WnTrue, WnEventTrue, WnProfileTrue, WnListTrue, WnShut
<1>8. WnTrue'
  BY <1>1, <1>3, <1>6, <1>7, WnWindowKept, WnTaken DEF WnTrue
<1>9. WnSpins'
  <2>1. wnWin.inviting => WnWaits({"invite", "kit"}, {"invite", "kit", "error"})'
    BY <1>1, <1>2, <1>4, WnWaitsBegin DEF WnSpins
  <2>2. wnWin.importing => WnWaits({"import"}, {"imported", "importFailed", "error"})'
    BY <1>1, <1>2, <1>4, WnWaitsBegin DEF WnSpins
  <2>3. wnWin.exporting => WnWaits({"backup"}, {"backup", "error"})'
    BY <1>1, <1>2, <1>4, WnWaitsBegin DEF WnSpins
  <2>4. wnStudio.busy => WnWaits({"create", "update", "image", "default"}, {"saved", "default", "error"})'
    BY <1>1, <1>2, <1>4, WnWaitsBegin DEF WnSpins
  <2>5. wnStudio.loading => WnWaits({"show"}, {"loaded", "error"})'
    BY <1>1, <1>2, <1>4, WnWaitsBegin DEF WnSpins
  <2>6. wnStudio.rendering => WnWaits({"preview"}, {"preview", "error"})'
    BY <1>1, <1>2, <1>4, WnWaitsBegin DEF WnSpins
  <2> QED  BY <1>1, <1>4, <2>1, <2>2, <2>3, <2>4, <2>5, <2>6 DEF WnSpins
<1>10. WnOrdered'
  BY <1>1, <1>2 DEF WnOrdered
<1> QED  BY <1>1, <1>3, <1>5, <1>8, <1>9, <1>10, WnWindowKept DEF WnBase

\* It reads the rest and is told.
LEMMA WnRefreshEnds == ASSUME WnBase, Wn!RefreshEnds PROVE WnBase'
<1>1. PICK e : e = IF ~wnCtl.up THEN Wn!Failed
       ELSE [ev |-> "snapshot", creds |-> wnWork.creds, paused |-> wnCtl.paused,
             catalog |-> [o \in Wn!Outfits |-> wnCtl.lib[o].rev], default |-> wnCtl.default,
             recent |-> wnCtl.recent, images |-> wnCtl.images, runtime |-> wnCtl.runtime]
  OBVIOUS
<1>2. /\ wnWork.at = "refresh" /\ wnWork' = Wn!Idle /\ wnEvents' = Append(wnEvents, e)
      /\ UNCHANGED <<wnCtl, wnQueue, wnWin, wnStudio>>
  BY <1>1 DEF Wn!RefreshEnds
<1>3. WnTyped /\ WnTrue /\ WnSpins
  BY DEF WnBase
<1>4. WnOver(wnCtl')
  BY <1>2, WnSameOver
<1>5. wnWork # Wn!Ended /\ wnWork'.at # "refresh" /\ wnWork.creds \in Seq(WnStates) /\ WnListTrue(wnWork.creds)
  BY <1>2, <1>3, WnKinds DEF WnTyped, WnTrue
<1>6. e \in WnEvents /\ e.ev \in {"error", "snapshot"} /\ WnEventTrue(e)
  <2>1. CASE ~wnCtl.up
    BY <1>1, <2>1, WnPlainEvents DEF WnEventTrue
  <2>2. CASE wnCtl.up
    <3>1. \A o \in Wn!Outfits : wnCtl.lib[o].rev \in Nat
      BY <1>3, WnKinds DEF WnTyped, WnCtlTyped
    <3>2. /\ e = [ev |-> "snapshot", creds |-> wnWork.creds, paused |-> wnCtl.paused,
                  catalog |-> [o \in Wn!Outfits |-> wnCtl.lib[o].rev], default |-> wnCtl.default,
                  recent |-> wnCtl.recent, images |-> wnCtl.images, runtime |-> wnCtl.runtime]
          /\ [o \in Wn!Outfits |-> wnCtl.lib[o].rev] \in [Wn!Outfits -> Nat]
      BY <1>1, <2>2, <3>1
    <3>3. e \in WnShots
      BY <1>3, <1>5, <3>2 DEF WnShots, WnTyped, WnCtlTyped
    <3>4. /\ e.ev = "snapshot" /\ e.creds = wnWork.creds
          /\ \A o \in Wn!Outfits : e.catalog[o] = wnCtl.lib[o].rev
      BY <3>2
    <3>5. \A o \in Wn!Outfits : e.catalog[o] <= wnCtl.lib[o].rev
      BY <3>1, <3>4
    <3> QED  BY <1>5, <3>3, <3>4, <3>5 DEF WnEventTrue, WnEvents
  <2> QED  BY <2>1, <2>2
<1>7. WnEventTrue(e)'
  BY <1>4, <1>6, WnOlder
<1>8. WnTyped'
  BY <1>2, <1>3, <1>4, <1>6, <1>7, WnWindowKept, WnSent DEF WnTyped
<1>9. \A i \in DOMAIN wnQueue' : WnCommandTrue(wnQueue[i])'
  BY <1>2, <1>3 DEF WnTrue, WnCommandTrue, WnShut
<1>10. WnTrue'
  BY <1>2, <1>4, <1>5, <1>6, <1>7, <1>9, WnWindowKept, WnSent DEF WnTrue
<1>11. WnSpins'
  <2>1. wnWin.inviting => WnWaits({"invite", "kit"}, {"invite", "kit", "error"})'
    BY <1>2, <1>3, <1>5, <1>6, WnWaitsSend DEF WnSpins
  <2>2. wnWin.importing => WnWaits({"import"}, {"imported", "importFailed", "error"})'
    BY <1>2, <1>3, <1>5, <1>6, WnWaitsSend DEF WnSpins
  <2>3. wnWin.exporting => WnWaits({"backup"}, {"backup", "error"})'
    BY <1>2, <1>3, <1>5, <1>6, WnWaitsSend DEF WnSpins
  <2>4. wnStudio.busy => WnWaits({"create", "update", "image", "default"}, {"saved", "default", "error"})'
    BY <1>2, <1>3, <1>5, <1>6, WnWaitsSend DEF WnSpins
  <2>5. wnStudio.loading => WnWaits({"show"}, {"loaded", "error"})'
    BY <1>2, <1>3, <1>5, <1>6, WnWaitsSend DEF WnSpins
  <2>6. wnStudio.rendering => WnWaits({"preview"}, {"preview", "error"})'
    BY <1>2, <1>3, <1>5, <1>6, WnWaitsSend DEF WnSpins
  <2>7. wnEvents' # <<>>
    BY <1>2, <1>3 DEF WnTyped
  <2> QED  BY <1>2, <2>1, <2>2, <2>3, <2>4, <2>5, <2>6, <2>7 DEF WnSpins
<1> QED  BY <1>2, <1>4, <1>6, <1>7, <1>8, <1>10, <1>11, WnSent, WnWindowKept DEF WnBase

\* What the window shows and the commands it sends leave nothing waiting.
WnFlags(cmds, ev) ==
  /\ wnWin'.refreshing => (wnWin.refreshing /\ ev = "none") \/ WnHasOp(cmds, {"refresh"})
  /\ wnWin'.inviting => \/ wnWin.inviting /\ ev \notin {"invite", "kit", "error"}
                        \/ WnHasOp(cmds, {"invite", "kit"})
  /\ wnWin'.importing => \/ wnWin.importing /\ ev \notin {"imported", "importFailed", "error"}
                         \/ WnHasOp(cmds, {"import"})
  /\ wnWin'.exporting => (wnWin.exporting /\ ev \notin {"backup", "error"}) \/ WnHasOp(cmds, {"backup"})
  /\ wnStudio'.busy => \/ wnStudio.busy /\ ev \notin {"saved", "default", "error"}
                       \/ WnHasOp(cmds, {"create", "update", "image", "default"})
  /\ wnStudio'.loading => (wnStudio.loading /\ ev \notin {"loaded", "error"}) \/ WnHasOp(cmds, {"show"})
  /\ wnStudio'.rendering => (wnStudio.rendering /\ ev \notin {"preview", "error"}) \/ WnHasOp(cmds, {"preview"})

\* What the window says is true.
WnPane ==
  /\ WnWinTyped /\ WnListTrue(wnWin.creds)
  /\ \A i : wnWin.confirm = <<"delete", i>> => WnShut(i)
  /\ wnWin.exit => ~wnCtl.up /\ wnWin.mcp = "none"
WnStudio == WnStudioTyped /\ WnShown

\* Commands that may be sent.
WnMaySend(cmds) == cmds \in Seq(WnCommands) /\ \A i \in DOMAIN cmds : WnCommandTrue(cmds[i])

\* The queue after the window sent its commands.
LEMMA WnSends ==
    ASSUME WnBase, NEW cmds, WnMaySend(cmds), wnQueue' = wnQueue \o cmds, UNCHANGED wnCtl
    PROVE  /\ wnQueue' \in Seq(WnCommands) /\ \A i \in DOMAIN wnQueue' : WnCommandTrue(wnQueue[i])'
           /\ wnQueue # <<>> => wnQueue' # <<>>
           /\ \A ops : WnHasOp(cmds, ops) => wnQueue' # <<>>
<1>1. wnQueue \in Seq(WnCommands) /\ cmds \in Seq(WnCommands)
  BY DEF WnBase, WnTyped, WnMaySend
<1>2. /\ wnQueue' \in Seq(WnCommands)
      /\ \A i \in DOMAIN wnQueue : i \in DOMAIN wnQueue' /\ wnQueue'[i] = wnQueue[i]
      /\ \A i \in DOMAIN cmds : Len(wnQueue) + i \in DOMAIN wnQueue' /\ wnQueue'[Len(wnQueue) + i] = cmds[i]
      /\ \A i \in DOMAIN wnQueue' : i \in DOMAIN wnQueue \/ \E k \in DOMAIN cmds : wnQueue'[i] = cmds[k]
  BY <1>1, WnJoins
<1>3. ASSUME NEW i \in DOMAIN wnQueue' PROVE WnCommandTrue(wnQueue[i])'
  <2>1. PICK c : c = wnQueue'[i]
    OBVIOUS
  <2>2. WnCommandTrue(c)
    BY <1>2, <2>1 DEF WnBase, WnTrue, WnMaySend
  <2> QED  BY <2>1, <2>2 DEF WnCommandTrue, WnShut
<1>4. wnQueue # <<>> => wnQueue' # <<>>
  <2> SUFFICES ASSUME wnQueue # <<>> PROVE wnQueue' # <<>>
    OBVIOUS
  <2>1. 1 \in DOMAIN wnQueue
    BY <1>1, WnHeads
  <2> QED  BY <1>2, <2>1
<1>5. ASSUME NEW ops, WnHasOp(cmds, ops) PROVE wnQueue' # <<>>
  <2>1. PICK i \in DOMAIN cmds : TRUE
    BY <1>5 DEF WnHasOp
  <2>2. Len(wnQueue) + i \in DOMAIN wnQueue'
    BY <1>2, <2>1
  <2> QED  BY <2>2
<1> QED  BY <1>2, <1>3, <1>4, <1>5

\* The window takes an event.
LEMMA WnEventStep ==
    ASSUME WnBase, NEW cmds, WnMaySend(cmds), wnEvents # <<>>,
           wnEvents' = Tail(wnEvents), wnQueue' = wnQueue \o cmds, UNCHANGED <<wnCtl, wnWork>>,
           WnPane', WnStudio',
           Head(wnEvents).ev # "snapshot" => wnStudio'.catalog = wnStudio.catalog,
           Head(wnEvents).ev = "snapshot" => wnStudio'.catalog = Head(wnEvents).catalog,
           WnFlags(cmds, Head(wnEvents).ev), Head(wnEvents).ev # "none"
    PROVE  WnBase'
<1>1. WnTyped /\ WnTrue /\ WnSpins /\ WnOrdered /\ cmds \in Seq(WnCommands)
  BY DEF WnBase, WnMaySend
<1>2. wnEvents \in Seq(WnEvents)
  BY <1>1 DEF WnTyped
<1>3. /\ Head(wnEvents) \in WnEvents /\ Head(wnEvents) = wnEvents[1] /\ 1 \in DOMAIN wnEvents
      /\ wnEvents' \in Seq(WnEvents)
      /\ \A i \in DOMAIN wnEvents' : i \in Nat /\ i + 1 \in DOMAIN wnEvents /\ wnEvents'[i] = wnEvents[i + 1]
      /\ \A i \in DOMAIN wnEvents : i \in Nat /\ i >= 1
  BY <1>2, WnHeads
<1>4. /\ wnQueue' \in Seq(WnCommands) /\ \A i \in DOMAIN wnQueue' : WnCommandTrue(wnQueue[i])'
      /\ \A ops : WnHasOp(cmds, ops) => wnQueue' # <<>>
  BY WnSends
<1>5. WnTyped'
  BY <1>1, <1>3, <1>4 DEF WnTyped, WnCtlTyped, WnPane, WnStudio
<1>6. ASSUME NEW i \in DOMAIN wnEvents' PROVE WnEventTrue(wnEvents[i])'
  <2>1. PICK e : e = wnEvents'[i] /\ WnEventTrue(e)
    BY <1>1, <1>3 DEF WnTrue
  <2> QED  BY <2>1 DEF WnEventTrue, WnProfileTrue, WnListTrue, WnShut
<1>7. \A o \in Wn!Outfits : wnCtl'.lib[o].from = o /\ wnStudio'.catalog[o] <= wnCtl'.lib[o].rev
  <2>1. CASE Head(wnEvents).ev = "snapshot"
    <3>1. WnEventTrue(Head(wnEvents))
      BY <1>1, <1>3 DEF WnTrue
    <3> QED  BY <1>1, <2>1, <3>1 DEF WnTrue, WnEventTrue
  <2>2. CASE Head(wnEvents).ev # "snapshot"
    BY <1>1, <2>2 DEF WnTrue
  <2> QED  BY <2>1, <2>2
<1>8. wnWork'.at = "refresh" => WnListTrue(wnWork.creds)'
  BY <1>1 DEF WnTrue, WnListTrue, WnShut
<1>9. WnTrue'
  BY <1>4, <1>6, <1>7, <1>8 DEF WnTrue, WnPane
<1>10. ASSUME NEW i \in DOMAIN wnEvents', wnEvents'[i].ev \in {"loaded", "saved"}
       PROVE  /\ wnStudio'.catalog[wnEvents'[i].profile.id] <= wnEvents'[i].profile.rev
              /\ \A j \in DOMAIN wnEvents' : j < i /\ wnEvents'[j].ev = "snapshot" =>
                   wnEvents'[j].catalog[wnEvents'[i].profile.id] <= wnEvents'[i].profile.rev
  <2>1. PICK k \in DOMAIN wnEvents : k = i + 1 /\ i \in Nat /\ wnEvents'[i] = wnEvents[k] /\ 1 < k
    <3>1. i \in Nat /\ i + 1 \in DOMAIN wnEvents /\ wnEvents'[i] = wnEvents[i + 1]
      BY <1>3
    <3>2. i >= 1
      BY <1>3, WnHeads
    <3> QED  BY <3>1, <3>2
  <2>2. /\ wnStudio.catalog[wnEvents[k].profile.id] <= wnEvents[k].profile.rev
        /\ \A j \in DOMAIN wnEvents : j < k /\ wnEvents[j].ev = "snapshot" =>
             wnEvents[j].catalog[wnEvents[k].profile.id] <= wnEvents[k].profile.rev
    BY <1>1, <1>10, <2>1 DEF WnOrdered
  <2>3. wnStudio'.catalog[wnEvents[k].profile.id] <= wnEvents[k].profile.rev
    <3>1. CASE Head(wnEvents).ev = "snapshot"
      BY <1>3, <2>1, <2>2, <3>1
    <3>2. CASE Head(wnEvents).ev # "snapshot"
      BY <2>2, <3>2
    <3> QED  BY <3>1, <3>2
  <2>4. ASSUME NEW j \in DOMAIN wnEvents', j < i, wnEvents'[j].ev = "snapshot"
        PROVE  wnEvents'[j].catalog[wnEvents'[i].profile.id] <= wnEvents'[i].profile.rev
    <3>1. j \in Nat /\ j + 1 \in DOMAIN wnEvents /\ wnEvents'[j] = wnEvents[j + 1] /\ j + 1 < k
      BY <1>3, <2>1, <2>4
    <3> QED  BY <2>1, <2>2, <2>4, <3>1
  <2> QED  BY <2>1, <2>3, <2>4
<1>11. WnOrdered'
  BY <1>10 DEF WnOrdered
<1>12. WnSpins'
  <2>1. wnWin'.inviting => WnWaits({"invite", "kit"}, {"invite", "kit", "error"})'
    BY <1>1, WnWaitsTake DEF WnSpins, WnFlags
  <2>2. wnWin'.importing => WnWaits({"import"}, {"imported", "importFailed", "error"})'
    BY <1>1, WnWaitsTake DEF WnSpins, WnFlags
  <2>3. wnWin'.exporting => WnWaits({"backup"}, {"backup", "error"})'
    BY <1>1, WnWaitsTake DEF WnSpins, WnFlags
  <2>4. wnStudio'.busy => WnWaits({"create", "update", "image", "default"}, {"saved", "default", "error"})'
    BY <1>1, WnWaitsTake DEF WnSpins, WnFlags
  <2>5. wnStudio'.loading => WnWaits({"show"}, {"loaded", "error"})'
    BY <1>1, WnWaitsTake DEF WnSpins, WnFlags
  <2>6. wnStudio'.rendering => WnWaits({"preview"}, {"preview", "error"})'
    BY <1>1, WnWaitsTake DEF WnSpins, WnFlags
  <2>7. wnWin'.refreshing => wnQueue' # <<>>
    BY <1>4 DEF WnFlags
  <2> QED  BY <2>1, <2>2, <2>3, <2>4, <2>5, <2>6, <2>7 DEF WnSpins
<1> QED  BY <1>5, <1>9, <1>11, <1>12 DEF WnBase, WnStudio

\* The user clicks, or a refresh is due.
LEMMA WnClickStep ==
    ASSUME WnBase, NEW cmds, WnMaySend(cmds),
           wnQueue' = IF wnWork = Wn!Ended THEN wnQueue ELSE wnQueue \o cmds,
           UNCHANGED <<wnCtl, wnWork, wnEvents>>,
           WnPane', WnStudio', wnStudio'.catalog = wnStudio.catalog, WnFlags(cmds, "none")
    PROVE  WnBase'
<1>1. WnTyped /\ WnTrue /\ WnSpins /\ WnOrdered /\ cmds \in Seq(WnCommands)
  BY DEF WnBase, WnMaySend
<1>2. /\ wnQueue' \in Seq(WnCommands) /\ \A i \in DOMAIN wnQueue' : WnCommandTrue(wnQueue[i])'
      /\ wnWork # Wn!Ended => /\ wnQueue # <<>> => wnQueue' # <<>>
                              /\ \A ops : WnHasOp(cmds, ops) => wnQueue' # <<>>
  <2>1. CASE wnWork = Wn!Ended
    BY <1>1, <2>1 DEF WnTyped, WnTrue, WnCommandTrue, WnShut
  <2>2. CASE wnWork # Wn!Ended
    BY <2>2, WnSends
  <2> QED  BY <2>1, <2>2
<1>3. WnTyped'
  BY <1>1, <1>2 DEF WnTyped, WnCtlTyped, WnPane, WnStudio
<1>4. \A i \in DOMAIN wnEvents' : WnEventTrue(wnEvents[i])'
  BY <1>1 DEF WnTrue, WnEventTrue, WnProfileTrue, WnListTrue, WnShut
<1>5. wnWork'.at = "refresh" => WnListTrue(wnWork.creds)'
  BY <1>1 DEF WnTrue, WnListTrue, WnShut
<1>6. WnTrue'
  BY <1>1, <1>2, <1>4, <1>5 DEF WnTrue, WnPane
<1>7. WnOrdered'
  BY <1>1 DEF WnOrdered
<1>8. WnSpins'
  <2>1. wnWin'.inviting => WnWaits({"invite", "kit"}, {"invite", "kit", "error"})'
    BY <1>1, WnWaitsClick DEF WnSpins, WnFlags
  <2>2. wnWin'.importing => WnWaits({"import"}, {"imported", "importFailed", "error"})'
    BY <1>1, WnWaitsClick DEF WnSpins, WnFlags
  <2>3. wnWin'.exporting => WnWaits({"backup"}, {"backup", "error"})'
    BY <1>1, WnWaitsClick DEF WnSpins, WnFlags
  <2>4. wnStudio'.busy => WnWaits({"create", "update", "image", "default"}, {"saved", "default", "error"})'
    BY <1>1, WnWaitsClick DEF WnSpins, WnFlags
  <2>5. wnStudio'.loading => WnWaits({"show"}, {"loaded", "error"})'
    BY <1>1, WnWaitsClick DEF WnSpins, WnFlags
  <2>6. wnStudio'.rendering => WnWaits({"preview"}, {"preview", "error"})'
    BY <1>1, WnWaitsClick DEF WnSpins, WnFlags
  <2>7. wnWin'.refreshing => \/ wnWork'.at = "refresh" \/ wnWork' = Wn!Ended
                             \/ wnQueue' # <<>> \/ wnEvents' # <<>>
    BY <1>1, <1>2 DEF WnSpins, WnFlags, Wn!Ended
  <2> QED  BY <2>1, <2>2, <2>3, <2>4, <2>5, <2>6, <2>7 DEF WnSpins
<1> QED  BY <1>3, <1>6, <1>7, <1>8 DEF WnBase, WnStudio

\* The commands the window sends.
LEMMA WnCommandKinds ==
    /\ WnMaySend(<<>>)
    /\ \A op \in {"refresh", "invite", "kit", "import", "store", "preview", "backup", "recovery",
                  "activity", "shutdown"} :
         WnMaySend(<<[op |-> op]>>) /\ \A ops : op \in ops => WnHasOp(<<[op |-> op]>>, ops)
    /\ \A op \in {"show", "create", "image", "default"}, o \in Wn!Outfits :
         WnMaySend(<<[op |-> op, id |-> o]>>) /\ \A ops : op \in ops => WnHasOp(<<[op |-> op, id |-> o]>>, ops)
    /\ \A op \in {"close", "revoke", "delete"}, i \in Nat :
         (op = "delete" => WnShut(i)) => WnMaySend(<<[op |-> op, id |-> i]>>)
    /\ \A o \in Wn!Outfits :
         /\ WnMaySend(<<[op |-> "update", id |-> o, of |-> o]>>)
         /\ \A ops : "update" \in ops => WnHasOp(<<[op |-> "update", id |-> o, of |-> o]>>, ops)
<1>1. ASSUME NEW c \in WnCommands, WnCommandTrue(c)
      PROVE  WnMaySend(<<c>>) /\ \A ops : c.op \in ops => WnHasOp(<<c>>, ops)
  BY <1>1 DEF WnMaySend, WnHasOp
<1>2. WnMaySend(<<>>)
  BY DEF WnMaySend
<1>3. ASSUME NEW op \in {"refresh", "invite", "kit", "import", "store", "preview", "backup", "recovery",
                  "activity", "shutdown"}
      PROVE  WnMaySend(<<[op |-> op]>>) /\ \A ops : op \in ops => WnHasOp(<<[op |-> op]>>, ops)
  <2>1. PICK c : c = [op |-> op]
    OBVIOUS
  <2>2. c \in WnCommands /\ c.op = op /\ WnCommandTrue(c)
    BY <2>1 DEF WnCommands, WnCommandTrue
  <2> QED  BY <1>1, <2>1, <2>2
<1>4. ASSUME NEW op \in {"show", "create", "image", "default"}, NEW o \in Wn!Outfits
      PROVE  /\ WnMaySend(<<[op |-> op, id |-> o]>>)
             /\ \A ops : op \in ops => WnHasOp(<<[op |-> op, id |-> o]>>, ops)
  <2>1. PICK c : c = [op |-> op, id |-> o]
    OBVIOUS
  <2>2. c \in WnCommands /\ c.op = op /\ WnCommandTrue(c)
    BY <2>1 DEF WnCommands, WnCommandTrue
  <2> QED  BY <1>1, <2>1, <2>2
<1>5. ASSUME NEW op \in {"close", "revoke", "delete"}, NEW i \in Nat, op = "delete" => WnShut(i)
      PROVE  WnMaySend(<<[op |-> op, id |-> i]>>)
  <2>1. PICK c : c = [op |-> op, id |-> i]
    OBVIOUS
  <2>2. c \in WnCommands /\ c.op = op /\ WnCommandTrue(c)
    BY <1>5, <2>1 DEF WnCommands, WnCommandTrue
  <2> QED  BY <1>1, <2>1, <2>2
<1>6. ASSUME NEW o \in Wn!Outfits
      PROVE  /\ WnMaySend(<<[op |-> "update", id |-> o, of |-> o]>>)
             /\ \A ops : "update" \in ops => WnHasOp(<<[op |-> "update", id |-> o, of |-> o]>>, ops)
  <2>1. PICK c : c = [op |-> "update", id |-> o, of |-> o]
    OBVIOUS
  <2>2. c \in WnCommands /\ c.op = "update" /\ WnCommandTrue(c)
    BY <2>1 DEF WnCommands, WnCommandTrue
  <2> QED  BY <1>1, <2>1, <2>2
<1> QED  BY <1>2, <1>3, <1>4, <1>5, <1>6

\* Commands in a row.
LEMMA WnSendsBoth ==
    ASSUME NEW a, NEW b, WnMaySend(a), WnMaySend(b)
    PROVE  /\ WnMaySend(a \o b)
           /\ \A ops : WnHasOp(a, ops) \/ WnHasOp(b, ops) => WnHasOp(a \o b, ops)
<1>1. /\ a \in Seq(WnCommands) /\ b \in Seq(WnCommands)
      /\ \A i \in DOMAIN a : WnCommandTrue(a[i])
      /\ \A i \in DOMAIN b : WnCommandTrue(b[i])
  BY DEF WnMaySend
<1>2. /\ a \o b \in Seq(WnCommands)
      /\ \A i \in DOMAIN a : i \in DOMAIN (a \o b) /\ (a \o b)[i] = a[i]
      /\ \A i \in DOMAIN b : Len(a) + i \in DOMAIN (a \o b) /\ (a \o b)[Len(a) + i] = b[i]
      /\ \A i \in DOMAIN (a \o b) : i \in DOMAIN a \/ \E k \in DOMAIN b : (a \o b)[i] = b[k]
  BY <1>1, WnJoins
<1>3. \A i \in DOMAIN (a \o b) : WnCommandTrue((a \o b)[i])
  <2> SUFFICES ASSUME NEW i \in DOMAIN (a \o b) PROVE WnCommandTrue((a \o b)[i])
    OBVIOUS
  <2>1. \/ i \in DOMAIN a /\ (a \o b)[i] = a[i]
        \/ \E k \in DOMAIN b : (a \o b)[i] = b[k]
    BY <1>2
  <2> QED  BY <1>1, <2>1
<1>4. \A ops : WnHasOp(a, ops) => WnHasOp(a \o b, ops)
  BY <1>2 DEF WnHasOp
<1>5. ASSUME NEW ops, WnHasOp(b, ops) PROVE WnHasOp(a \o b, ops)
  <2>1. PICK i \in DOMAIN b : b[i].op \in ops
    BY <1>5 DEF WnHasOp
  <2>2. PICK k \in DOMAIN (a \o b) : (a \o b)[k] = b[i]
    BY <1>2, <2>1
  <2> QED  BY <2>1, <2>2 DEF WnHasOp
<1> QED  BY <1>2, <1>3, <1>4, <1>5 DEF WnMaySend

\* The event that is next.
LEMMA WnHeadEvent ==
    ASSUME WnBase, wnEvents # <<>>
    PROVE  \E e \in WnEvents :
             /\ e = Head(wnEvents) /\ WnEventTrue(e) /\ e.ev # "none"
             /\ e.ev \in {"loaded", "saved"} => wnStudio.catalog[e.profile.id] <= e.profile.rev
<1>1. wnEvents \in Seq(WnEvents)
  BY DEF WnBase, WnTyped
<1>2. Head(wnEvents) \in WnEvents /\ Head(wnEvents) = wnEvents[1] /\ 1 \in DOMAIN wnEvents
  BY <1>1, WnHeads
<1>3. PICK e \in WnEvents : e = Head(wnEvents) /\ e = wnEvents[1]
  BY <1>2
<1>4. e.ev # "none"
  BY DEF WnEvents, WnPlain, WnShots
<1> QED  BY <1>2, <1>3, <1>4 DEF WnBase, WnTrue, WnOrdered

\* The studio stays.
LEMMA WnSameStudio == ASSUME WnBase, UNCHANGED <<wnStudio, wnCtl>> PROVE WnStudio'
BY DEF WnBase, WnTyped, WnStudio, WnStudioTyped, WnShown, WnProfileTrue

\* What the user reads in the window stays.
LEMMA WnSamePane ==
    ASSUME WnBase, UNCHANGED wnCtl, DOMAIN wnWin' = DOMAIN wnWin,
           wnWin'.refreshing \in BOOLEAN, wnWin'.inviting \in BOOLEAN, wnWin'.importing \in BOOLEAN,
           wnWin'.exporting \in BOOLEAN, wnWin'.exit = wnWin.exit, wnWin'.creds = wnWin.creds,
           wnWin'.confirm \in {wnWin.confirm, <<>>}, wnWin'.mcp = wnWin.mcp
    PROVE  WnPane'
<1>1. WnWinTyped'
  BY DEF WnBase, WnTyped, WnWinTyped
<1>2. WnListTrue(wnWin.creds)'
  BY DEF WnBase, WnTrue, WnListTrue, WnShut
<1>3. (\A i : wnWin.confirm = <<"delete", i>> => WnShut(i))'
  <2>1. \A i : <<>> # <<"delete", i>>
    OBVIOUS
  <2> QED  BY <2>1 DEF WnBase, WnTrue, WnShut
<1> QED  BY <1>1, <1>2, <1>3 DEF WnPane, WnBase, WnTrue

\* An event that changes the window and asks for a refresh at most.
LEMMA WnPaneEvent ==
    ASSUME WnBase, NEW cmds \in {<<>>, Wn!Refresh}, wnEvents # <<>>, wnEvents' = Tail(wnEvents),
           wnQueue' = wnQueue \o cmds, UNCHANGED <<wnCtl, wnWork, wnStudio>>, WnPane',
           Head(wnEvents).ev \notin {"snapshot", "saved", "default", "error", "loaded", "preview"},
           wnWin'.refreshing => cmds = Wn!Refresh,
           wnWin'.inviting => wnWin.inviting /\ Head(wnEvents).ev \notin {"invite", "kit"},
           wnWin'.importing => wnWin.importing /\ Head(wnEvents).ev \notin {"imported", "importFailed"},
           wnWin'.exporting => wnWin.exporting /\ Head(wnEvents).ev \notin {"backup"}
    PROVE  WnBase'
<1>1. WnMaySend(cmds) /\ (cmds = Wn!Refresh => WnHasOp(cmds, {"refresh"}))
  BY WnCommandKinds DEF Wn!Refresh
<1>2. Head(wnEvents).ev # "none"
  BY WnHeadEvent
<1>3. WnFlags(cmds, Head(wnEvents).ev)
  BY <1>1, <1>2 DEF WnFlags
<1> QED  BY <1>1, <1>2, <1>3, WnSameStudio, WnEventStep

\* An invite or a kit was issued.
LEMMA WnOnInvite == ASSUME WnBase, Wn!OnInvite PROVE WnBase'
<1>1. PICK e : e = Head(wnEvents)
  OBVIOUS
<1>2. /\ wnEvents # <<>> /\ wnEvents' = Tail(wnEvents) /\ wnQueue' = wnQueue \o Wn!Refresh
      /\ UNCHANGED <<wnCtl, wnWork, wnStudio>> /\ e.ev \in {"invite", "kit"}
  BY <1>1 DEF Wn!OnInvite, Wn!Takes
<1>3. /\ DOMAIN wnWin' = DOMAIN wnWin /\ wnWin'.refreshing = TRUE /\ wnWin'.inviting = FALSE
      /\ wnWin'.importing = wnWin.importing /\ wnWin'.exporting = wnWin.exporting
      /\ wnWin'.exit = wnWin.exit /\ wnWin'.creds = wnWin.creds /\ wnWin'.mcp = wnWin.mcp
      /\ wnWin'.confirm \in {wnWin.confirm, <<>>}
  <2>1. CASE e.ev = "invite"
    <3>1. wnWin' = [[wnWin EXCEPT !.refreshing = TRUE] EXCEPT !.inviting = FALSE, !.open = FALSE]
      BY <1>1, <2>1 DEF Wn!OnInvite, Wn!Takes, Wn!Asked
    <3> QED  BY <3>1 DEF WnBase, WnTyped, WnWinTyped
  <2>2. CASE e.ev = "kit"
    <3>1. wnWin' = [[[wnWin EXCEPT !.refreshing = TRUE] EXCEPT !.inviting = FALSE, !.open = FALSE]
                      EXCEPT !.kit = e.id, !.selected = e.id, !.confirm = <<>>]
      BY <1>1, <2>2 DEF Wn!OnInvite, Wn!Takes, Wn!Asked
    <3> QED  BY <3>1 DEF WnBase, WnTyped, WnWinTyped
  <2> QED  BY <1>2, <2>1, <2>2
<1>4. WnPane'
  BY <1>2, <1>3, WnSamePane DEF WnBase, WnTyped, WnWinTyped
<1> QED  BY <1>1, <1>2, <1>3, <1>4, WnPaneEvent

\* A runtime was imported or was not, a credential changed, a backup was made,
\* a review confirmed or the activity list cleared.
LEMMA WnOnRest ==
    ASSUME WnBase, Wn!OnImported \/ Wn!OnImportFailed \/ Wn!OnCredential \/ Wn!OnCare
    PROVE  WnBase'
<1>1. PICK e : e = Head(wnEvents)
  OBVIOUS
<1>2. PICK cmds \in {<<>>, Wn!Refresh} :
        /\ wnEvents # <<>> /\ wnEvents' = Tail(wnEvents) /\ wnQueue' = wnQueue \o cmds
        /\ UNCHANGED <<wnCtl, wnWork, wnStudio>>
        /\ e.ev \in {"imported", "importFailed", "credential", "backup", "recovery", "activity"}
        /\ DOMAIN wnWin' = DOMAIN wnWin /\ wnWin'.refreshing \in BOOLEAN
        /\ wnWin'.refreshing => cmds = Wn!Refresh
        /\ wnWin'.inviting = wnWin.inviting
        /\ (wnWin'.importing = wnWin.importing /\ e.ev \notin {"imported", "importFailed"}) \/ wnWin'.importing = FALSE
        /\ (wnWin'.exporting = wnWin.exporting /\ e.ev # "backup") \/ wnWin'.exporting = FALSE
        /\ wnWin'.exit = wnWin.exit /\ wnWin'.creds = wnWin.creds /\ wnWin'.mcp = wnWin.mcp
        /\ wnWin'.confirm \in {wnWin.confirm, <<>>}
  <2>1. CASE Wn!OnImported
    <3>1. wnWin' = [[wnWin EXCEPT !.refreshing = TRUE] EXCEPT !.importing = FALSE, !.importError = FALSE]
      BY <2>1 DEF Wn!OnImported, Wn!Takes, Wn!Asked
    <3>2. /\ DOMAIN wnWin' = DOMAIN wnWin /\ wnWin'.refreshing = TRUE /\ wnWin'.inviting = wnWin.inviting
          /\ wnWin'.importing = FALSE /\ wnWin'.exporting = wnWin.exporting
          /\ wnWin'.exit = wnWin.exit /\ wnWin'.creds = wnWin.creds /\ wnWin'.mcp = wnWin.mcp
          /\ wnWin'.confirm = wnWin.confirm
      BY <3>1 DEF WnBase, WnTyped, WnWinTyped
    <3> QED  BY <1>1, <2>1, <3>2 DEF Wn!OnImported, Wn!Takes
  <2>2. CASE Wn!OnImportFailed
    <3>1. wnWin' = [[wnWin EXCEPT !.refreshing = FALSE] EXCEPT !.importing = FALSE, !.importError = TRUE]
      BY <2>2 DEF Wn!OnImportFailed, Wn!Takes, Wn!Settled
    <3>2. /\ DOMAIN wnWin' = DOMAIN wnWin /\ wnWin'.refreshing = FALSE /\ wnWin'.inviting = wnWin.inviting
          /\ wnWin'.importing = FALSE /\ wnWin'.exporting = wnWin.exporting
          /\ wnWin'.exit = wnWin.exit /\ wnWin'.creds = wnWin.creds /\ wnWin'.mcp = wnWin.mcp
          /\ wnWin'.confirm = wnWin.confirm
      BY <3>1 DEF WnBase, WnTyped, WnWinTyped
    <3> QED  BY <1>1, <2>2, <3>2 DEF Wn!OnImportFailed, Wn!Takes
  <2>3. CASE Wn!OnCredential
    <3>1. wnWin' = [[wnWin EXCEPT !.refreshing = TRUE] EXCEPT !.confirm = <<>>]
      BY <2>3 DEF Wn!OnCredential, Wn!Takes, Wn!Asked
    <3>2. /\ DOMAIN wnWin' = DOMAIN wnWin /\ wnWin'.refreshing = TRUE /\ wnWin'.inviting = wnWin.inviting
          /\ wnWin'.importing = wnWin.importing /\ wnWin'.exporting = wnWin.exporting
          /\ wnWin'.exit = wnWin.exit /\ wnWin'.creds = wnWin.creds /\ wnWin'.mcp = wnWin.mcp
          /\ wnWin'.confirm = <<>>
      BY <3>1 DEF WnBase, WnTyped, WnWinTyped
    <3> QED  BY <1>1, <2>3, <3>2 DEF Wn!OnCredential, Wn!Takes
  <2>4. CASE Wn!Takes({"backup"}, [Wn!Settled EXCEPT !.exporting = FALSE], wnStudio, <<>>)
    <3>1. wnWin' = [[wnWin EXCEPT !.refreshing = FALSE] EXCEPT !.exporting = FALSE]
      BY <2>4 DEF Wn!Takes, Wn!Settled
    <3>2. /\ DOMAIN wnWin' = DOMAIN wnWin /\ wnWin'.refreshing = FALSE /\ wnWin'.inviting = wnWin.inviting
          /\ wnWin'.importing = wnWin.importing /\ wnWin'.exporting = FALSE
          /\ wnWin'.exit = wnWin.exit /\ wnWin'.creds = wnWin.creds /\ wnWin'.mcp = wnWin.mcp
          /\ wnWin'.confirm = wnWin.confirm
      BY <3>1 DEF WnBase, WnTyped, WnWinTyped
    <3> QED  BY <1>1, <2>4, <3>2 DEF Wn!Takes
  <2>5. CASE Wn!Takes({"recovery"}, [Wn!Asked EXCEPT !.paused = FALSE, !.armed = FALSE], wnStudio, Wn!Refresh)
    <3>1. wnWin' = [[wnWin EXCEPT !.refreshing = TRUE] EXCEPT !.paused = FALSE, !.armed = FALSE]
      BY <2>5 DEF Wn!Takes, Wn!Asked
    <3>2. /\ DOMAIN wnWin' = DOMAIN wnWin /\ wnWin'.refreshing = TRUE /\ wnWin'.inviting = wnWin.inviting
          /\ wnWin'.importing = wnWin.importing /\ wnWin'.exporting = wnWin.exporting
          /\ wnWin'.exit = wnWin.exit /\ wnWin'.creds = wnWin.creds /\ wnWin'.mcp = wnWin.mcp
          /\ wnWin'.confirm = wnWin.confirm
      BY <3>1 DEF WnBase, WnTyped, WnWinTyped
    <3> QED  BY <1>1, <2>5, <3>2 DEF Wn!Takes
  <2>6. CASE Wn!Takes({"activity"}, Wn!Settled, wnStudio, <<>>)
    <3>1. wnWin' = [wnWin EXCEPT !.refreshing = FALSE]
      BY <2>6 DEF Wn!Takes, Wn!Settled
    <3>2. /\ DOMAIN wnWin' = DOMAIN wnWin /\ wnWin'.refreshing = FALSE /\ wnWin'.inviting = wnWin.inviting
          /\ wnWin'.importing = wnWin.importing /\ wnWin'.exporting = wnWin.exporting
          /\ wnWin'.exit = wnWin.exit /\ wnWin'.creds = wnWin.creds /\ wnWin'.mcp = wnWin.mcp
          /\ wnWin'.confirm = wnWin.confirm
      BY <3>1 DEF WnBase, WnTyped, WnWinTyped
    <3> QED  BY <1>1, <2>6, <3>2 DEF Wn!Takes
  <2> QED  BY <2>1, <2>2, <2>3, <2>4, <2>5, <2>6 DEF Wn!OnCare
<1>3. WnPane'
  BY <1>2, WnSamePane DEF WnBase, WnTyped, WnWinTyped
<1> QED  BY <1>1, <1>2, <1>3, WnPaneEvent

\* The window closes.
LEMMA WnOnShutdown == ASSUME WnBase, Wn!OnShutdown PROVE WnBase'
<1>1. PICK e \in WnEvents : e = Head(wnEvents) /\ WnEventTrue(e)
  BY WnHeadEvent DEF Wn!OnShutdown, Wn!Takes
<1>2. /\ wnEvents # <<>> /\ wnEvents' = Tail(wnEvents) /\ wnQueue' = wnQueue \o <<>>
      /\ UNCHANGED <<wnCtl, wnWork, wnStudio>> /\ e.ev = "shutdown"
      /\ wnWin' = [[wnWin EXCEPT !.refreshing = FALSE] EXCEPT !.exit = TRUE, !.mcp = "none"]
  BY <1>1 DEF Wn!OnShutdown, Wn!Takes, Wn!Settled
<1>3. /\ DOMAIN wnWin' = DOMAIN wnWin /\ wnWin'.refreshing = FALSE /\ wnWin'.inviting = wnWin.inviting
      /\ wnWin'.importing = wnWin.importing /\ wnWin'.exporting = wnWin.exporting
      /\ wnWin'.exit = TRUE /\ wnWin'.creds = wnWin.creds /\ wnWin'.mcp = "none"
      /\ wnWin'.confirm = wnWin.confirm
  BY <1>2 DEF WnBase, WnTyped, WnWinTyped
<1>4. ~wnCtl.up
  BY <1>1, <1>2 DEF WnEventTrue
<1>5. WnPane'
  <2>1. WnWinTyped'
    BY <1>3 DEF WnBase, WnTyped, WnWinTyped
  <2>2. WnListTrue(wnWin.creds)' /\ (\A i : wnWin.confirm = <<"delete", i>> => WnShut(i))'
    BY <1>2, <1>3 DEF WnBase, WnTrue, WnListTrue, WnShut
  <2> QED  BY <1>2, <1>3, <1>4, <2>1, <2>2 DEF WnPane
<1> QED  BY <1>1, <1>2, <1>3, <1>5, WnPaneEvent

\* A studio takes new catalogs: it drops an outfit that is gone, and asks for
\* the profile again if it is another revision.
LEMMA WnCatalogs ==
    ASSUME WnBase, NEW e \in WnShots, UNCHANGED wnCtl, wnStudio' = Wn!SetCatalogs(wnStudio, e).studio,
           NEW cmds, cmds = Wn!SetCatalogs(wnStudio, e).ask
    PROVE  /\ WnStudio' /\ wnStudio'.catalog = e.catalog /\ wnStudio'.busy = wnStudio.busy
           /\ wnStudio'.loading => wnStudio.loading \/ WnHasOp(cmds, {"show"})
           /\ wnStudio'.rendering => wnStudio.rendering
           /\ WnMaySend(cmds)
<1>1. /\ e.catalog \in [Wn!Outfits -> Nat] /\ e.default \in Wn!Outfits /\ e.recent \in Wn!Outfits
  BY DEF WnShots
<1>2. WnStudioTyped /\ WnShown
  BY DEF WnBase, WnTyped
<1>3. PICK new : new = [wnStudio EXCEPT !.catalog = e.catalog, !.default = e.default,
                                        !.recent = e.recent, !.images = e.images]
  OBVIOUS
<1>4. /\ DOMAIN new = DOMAIN wnStudio /\ new.catalog = e.catalog /\ new.default = e.default
      /\ new.recent = e.recent /\ new.sel = wnStudio.sel /\ new.profile = wnStudio.profile
      /\ new.draft = wnStudio.draft /\ new.image = wnStudio.image /\ new.texture = wnStudio.texture
      /\ new.rendering = wnStudio.rendering /\ new.loading = wnStudio.loading /\ new.busy = wnStudio.busy
  BY <1>2, <1>3 DEF WnStudioTyped
<1>5. PICK kept : kept = IF new.sel = Wn!None \/ Wn!Known(new, new.sel) THEN new
                         ELSE [new EXCEPT !.sel = Wn!None, !.profile = Wn!NoProfile, !.draft = Wn!NoDraft,
                                          !.loading = FALSE]
  OBVIOUS
<1>6. Wn!NoDraft \in [of : {Wn!None} \cup Wn!Outfits, dirty : BOOLEAN]
  BY DEF Wn!NoDraft
<1>7. /\ DOMAIN kept = DOMAIN wnStudio /\ kept.catalog = e.catalog /\ kept.default = e.default
      /\ kept.recent = e.recent /\ kept.image = wnStudio.image /\ kept.texture = wnStudio.texture
      /\ kept.rendering = wnStudio.rendering /\ kept.busy = wnStudio.busy
      /\ \/ /\ kept.sel = wnStudio.sel /\ kept.profile = wnStudio.profile
            /\ kept.draft = wnStudio.draft /\ kept.loading = wnStudio.loading
         \/ /\ kept.sel = Wn!None /\ kept.profile = Wn!NoProfile
            /\ kept.draft = Wn!NoDraft /\ kept.loading = FALSE
  BY <1>2, <1>4, <1>5 DEF WnStudioTyped
<1>8. PICK ask : ask = IF kept.sel = Wn!None
                       THEN IF Wn!Known(kept, Wn!Preferred(kept)) THEN Wn!Preferred(kept) ELSE Wn!None
                       ELSE IF Wn!Stale(kept) THEN kept.sel ELSE Wn!None
  OBVIOUS
<1>9. /\ wnStudio' = (IF ask = Wn!None THEN kept ELSE Wn!BeginSelect(kept, ask))
      /\ cmds = (IF ask = Wn!None THEN <<>> ELSE <<Wn!Show(ask)>>)
  BY <1>3, <1>5, <1>8 DEF Wn!SetCatalogs
<1>10. ask \in {Wn!None} \cup Wn!Outfits
  BY <1>1, <1>2, <1>7, <1>8 DEF Wn!Preferred, Wn!Known, WnStudioTyped
<1>11. CASE ask # Wn!None
  <2>1. wnStudio' = [kept EXCEPT !.sel = ask, !.profile = Wn!NoProfile, !.draft = Wn!NoDraft, !.loading = TRUE,
                                 !.rendering = FALSE, !.texture = FALSE]
    BY <1>9, <1>11 DEF Wn!BeginSelect
  <2>2. /\ DOMAIN wnStudio' = DOMAIN wnStudio /\ wnStudio'.catalog = e.catalog /\ wnStudio'.default = e.default
        /\ wnStudio'.recent = e.recent /\ wnStudio'.image = wnStudio.image /\ wnStudio'.texture = FALSE
        /\ wnStudio'.rendering = FALSE /\ wnStudio'.busy = wnStudio.busy /\ wnStudio'.sel = ask
        /\ wnStudio'.profile = Wn!NoProfile /\ wnStudio'.draft = Wn!NoDraft /\ wnStudio'.loading = TRUE
    BY <1>2, <1>7, <2>1 DEF WnStudioTyped
  <2>3. WnStudioTyped'
    BY <1>1, <1>2, <1>6, <1>10, <2>2 DEF WnStudioTyped
  <2>4. WnMaySend(cmds) /\ WnHasOp(cmds, {"show"})
    BY <1>9, <1>10, <1>11, WnCommandKinds DEF Wn!Show
  <2> QED  BY <2>2, <2>3, <2>4 DEF WnStudio, WnShown
<1>12. CASE ask = Wn!None
  <2>1. wnStudio' = kept /\ cmds = <<>>
    BY <1>9, <1>12
  <2>2. WnStudioTyped'
    BY ZenonT(60), <1>1, <1>2, <1>6, <1>7, <2>1 DEF WnStudioTyped
  <2>3. ASSUME wnStudio'.profile # Wn!NoProfile
        PROVE  /\ wnStudio'.sel = wnStudio'.profile.id /\ wnStudio'.draft.of = wnStudio'.profile.id
               /\ ~wnStudio'.loading
               /\ wnStudio'.catalog[wnStudio'.profile.id] <= wnStudio'.profile.rev
               /\ WnProfileTrue(wnStudio.profile)'
    <3>1. /\ kept.sel = wnStudio.sel /\ kept.profile = wnStudio.profile
          /\ kept.draft = wnStudio.draft /\ kept.loading = wnStudio.loading
          /\ wnStudio.profile # Wn!NoProfile
      BY <1>7, <2>1, <2>3
    <3>2. PICK p \in WnProfiles : p = wnStudio.profile /\ p.id \in Wn!Outfits /\ p.rev \in Nat
      BY <1>2, <3>1, WnKinds DEF WnStudioTyped
    <3>3. wnStudio.sel = p.id /\ wnStudio.draft.of = p.id /\ ~wnStudio.loading /\ WnProfileTrue(p)
      BY <1>2, <3>1, <3>2 DEF WnShown
    <3>4. kept.sel # Wn!None
      BY <3>1, <3>2, <3>3 DEF Wn!Outfits, Wn!None
    <3>5. ~Wn!Stale(kept)
      BY <1>8, <1>12, <3>4
    <3>6. kept.catalog[p.id] = p.rev
      BY <3>1, <3>2, <3>3, <3>5 DEF Wn!Stale
    <3>7. WnProfileTrue(p)'
      BY <3>3 DEF WnProfileTrue
    <3> QED  BY <2>1, <3>1, <3>2, <3>3, <3>6, <3>7 DEF WnProfileTrue
  <2>4. WnShown'
    BY <2>3 DEF WnShown
  <2> QED  BY <1>2, <1>7, <2>1, <2>2, <2>4, WnCommandKinds DEF WnStudio, WnStudioTyped
<1> QED  BY <1>11, <1>12

\* A refresh arrives.
LEMMA WnOnSnapshot == ASSUME WnBase, Wn!OnSnapshot PROVE WnBase'
<1>1. PICK e \in WnEvents : e = Head(wnEvents) /\ WnEventTrue(e)
  BY WnHeadEvent DEF Wn!OnSnapshot
<1>2. PICK cmds : cmds = Wn!SetCatalogs(wnStudio, e).ask
  OBVIOUS
<1>3. PICK held : held = (wnWin.selected \in Wn!Listed(e.creds))
  OBVIOUS
<1>4. /\ wnEvents # <<>> /\ e.ev = "snapshot" /\ wnEvents' = Tail(wnEvents) /\ wnQueue' = wnQueue \o cmds
      /\ UNCHANGED <<wnCtl, wnWork>> /\ wnStudio' = Wn!SetCatalogs(wnStudio, e).studio
      /\ wnWin' = [[wnWin EXCEPT !.refreshing = FALSE] EXCEPT
                     !.creds = e.creds, !.runtime = e.runtime, !.default = e.default,
                     !.paused = e.paused,
                     !.selected = IF held THEN @ ELSE Wn!FirstOf(e.creds),
                     !.confirm = IF held THEN @ ELSE <<>>]
  BY <1>1, <1>2, <1>3 DEF Wn!OnSnapshot, Wn!Takes, Wn!Settled
<1>5. /\ DOMAIN wnWin' = DOMAIN wnWin /\ wnWin'.refreshing = FALSE /\ wnWin'.inviting = wnWin.inviting
      /\ wnWin'.importing = wnWin.importing /\ wnWin'.exporting = wnWin.exporting
      /\ wnWin'.exit = wnWin.exit /\ wnWin'.creds = e.creds /\ wnWin'.mcp = wnWin.mcp
      /\ wnWin'.confirm \in {wnWin.confirm, <<>>}
  BY <1>4 DEF WnBase, WnTyped, WnWinTyped
<1>6. e \in WnShots
  BY <1>4, WnKinds
<1>7. /\ WnStudio' /\ wnStudio'.catalog = e.catalog /\ wnStudio'.busy = wnStudio.busy
      /\ wnStudio'.loading => wnStudio.loading \/ WnHasOp(cmds, {"show"})
      /\ wnStudio'.rendering => wnStudio.rendering
      /\ WnMaySend(cmds)
  BY <1>2, <1>4, <1>6, WnCatalogs
<1>8. WnPane'
  <2>1. WnWinTyped'
    BY <1>5, <1>6 DEF WnBase, WnTyped, WnWinTyped, WnShots
  <2>2. WnListTrue(wnWin.creds)'
    BY <1>1, <1>4, <1>5 DEF WnEventTrue, WnListTrue, WnShut
  <2>3. \A i : <<>> # <<"delete", i>>
    OBVIOUS
  <2>4. (\A i : wnWin.confirm = <<"delete", i>> => WnShut(i))'
    <3>1. \A i : wnWin.confirm = <<"delete", i>> => WnShut(i)
      BY DEF WnBase, WnTrue
    <3>2. \A i : WnShut(i)' <=> WnShut(i)
      BY <1>4 DEF WnShut
    <3>3. CASE wnWin'.confirm = wnWin.confirm
      BY ONLY <3>1, <3>2, <3>3
    <3>4. CASE wnWin'.confirm = <<>>
      BY ONLY <2>3, <3>4
    <3>5. wnWin'.confirm = wnWin.confirm \/ wnWin'.confirm = <<>>
      BY ONLY <1>5
    <3> QED  BY <3>3, <3>4, <3>5, Zenon
  <2> QED  BY <1>4, <1>5, <2>1, <2>2, <2>4 DEF WnPane, WnBase, WnTrue
<1>9. WnFlags(cmds, e.ev)
  BY <1>4, <1>5, <1>7 DEF WnFlags
<1> QED  BY <1>1, <1>4, <1>7, <1>8, <1>9, WnEventStep

\* What an event changes in the studio, with its commands of a preview and of a
\* refresh.
LEMMA WnStudioEvent ==
    ASSUME WnBase, NEW ask \in {<<>>, Wn!Preview}, NEW more \in {<<>>, Wn!Refresh}, NEW ev,
           wnEvents # <<>>, wnEvents' = Tail(wnEvents), ev = Head(wnEvents).ev,
           ev \in {"loaded", "saved", "default", "stored", "preview", "error"},
           wnQueue' = wnQueue \o (ask \o more), UNCHANGED <<wnCtl, wnWork>>,
           WnPane', wnWin'.refreshing => more = Wn!Refresh,
           wnWin'.inviting => wnWin.inviting /\ ev # "error",
           wnWin'.importing => wnWin.importing /\ ev # "error",
           wnWin'.exporting => wnWin.exporting /\ ev # "error",
           WnStudio', wnStudio'.catalog = wnStudio.catalog,
           wnStudio'.busy => wnStudio.busy /\ ev \notin {"saved", "default", "error"},
           wnStudio'.loading => wnStudio.loading /\ ev \notin {"loaded", "error"},
           wnStudio'.rendering => (wnStudio.rendering /\ ev \notin {"preview", "error"}) \/ ask = Wn!Preview
    PROVE  WnBase'
<1>1. PICK cmds : cmds = ask \o more
  OBVIOUS
<1>2. /\ WnMaySend(ask) /\ WnMaySend(more)
      /\ ask = Wn!Preview => WnHasOp(ask, {"preview"})
      /\ more = Wn!Refresh => WnHasOp(more, {"refresh"})
  BY WnCommandKinds DEF Wn!Preview, Wn!Refresh
<1>3. /\ WnMaySend(cmds) /\ (ask = Wn!Preview => WnHasOp(cmds, {"preview"}))
      /\ (more = Wn!Refresh => WnHasOp(cmds, {"refresh"}))
  BY <1>1, <1>2, WnSendsBoth
<1>4. ev \notin {"none", "snapshot", "invite", "kit", "imported", "importFailed", "backup"}
  OBVIOUS
<1>5. WnFlags(cmds, ev)
  BY <1>3, <1>4 DEF WnFlags
<1>6. wnQueue' = wnQueue \o cmds
  BY <1>1
<1> QED  BY <1>3, <1>4, <1>5, <1>6, WnEventStep

\* What the studio shows stays, its spinners and images apart.
LEMMA WnStudioFlags ==
    ASSUME WnBase, UNCHANGED wnCtl, DOMAIN wnStudio' = DOMAIN wnStudio,
           wnStudio'.catalog = wnStudio.catalog, wnStudio'.default = wnStudio.default,
           wnStudio'.recent = wnStudio.recent, wnStudio'.sel = wnStudio.sel,
           wnStudio'.profile = wnStudio.profile, wnStudio'.draft.of = wnStudio.draft.of,
           wnStudio'.draft \in [of : {Wn!None} \cup Wn!Outfits, dirty : BOOLEAN],
           wnStudio'.image \in BOOLEAN, wnStudio'.texture \in BOOLEAN, wnStudio'.rendering \in BOOLEAN,
           wnStudio'.loading \in {wnStudio.loading, FALSE}, wnStudio'.busy \in BOOLEAN
    PROVE  WnStudio'
<1>1. WnStudioTyped /\ WnShown
  BY DEF WnBase, WnTyped
<1>2. WnStudioTyped'
  BY <1>1 DEF WnStudioTyped
<1>3. WnShown'
  BY <1>1 DEF WnShown, WnProfileTrue
<1> QED  BY <1>2, <1>3 DEF WnStudio

\* Commands and none.
LEMMA WnNoMore ==
    /\ Wn!Preview \o <<>> = Wn!Preview /\ <<>> \o <<>> = <<>>
    /\ <<>> \o Wn!Refresh = Wn!Refresh
BY DEF Wn!Preview, Wn!Refresh

\* The window counts a refresh as ended, or asks for one.
LEMMA WnRefreshing ==
    ASSUME WnBase, UNCHANGED wnCtl, NEW b \in BOOLEAN, wnWin' = [wnWin EXCEPT !.refreshing = b]
    PROVE  /\ WnPane' /\ wnWin'.refreshing = b /\ wnWin'.inviting = wnWin.inviting
           /\ wnWin'.importing = wnWin.importing /\ wnWin'.exporting = wnWin.exporting
<1>1. /\ DOMAIN wnWin' = DOMAIN wnWin /\ wnWin'.refreshing = b /\ wnWin'.inviting = wnWin.inviting
      /\ wnWin'.importing = wnWin.importing /\ wnWin'.exporting = wnWin.exporting
      /\ wnWin'.exit = wnWin.exit /\ wnWin'.creds = wnWin.creds /\ wnWin'.mcp = wnWin.mcp
      /\ wnWin'.confirm = wnWin.confirm
  BY DEF WnBase, WnTyped, WnWinTyped
<1>2. WnPane'
  BY <1>1, WnSamePane DEF WnBase, WnTyped, WnWinTyped
<1> QED  BY <1>1, <1>2

\* A profile was loaded or saved.
LEMMA WnOnProfile == ASSUME WnBase, Wn!OnProfile PROVE WnBase'
<1>1. PICK e \in WnEvents :
        /\ e = Head(wnEvents) /\ WnEventTrue(e)
        /\ e.ev \in {"loaded", "saved"} => wnStudio.catalog[e.profile.id] <= e.profile.rev
  BY WnHeadEvent DEF Wn!OnProfile
<1>2. wnEvents # <<>> /\ e.ev \in {"loaded", "saved"}
  BY <1>1 DEF Wn!OnProfile
<1>3. PICK p \in WnProfiles : p = e.profile
  BY <1>2, WnKinds
<1>4. WnProfileTrue(p) /\ wnStudio.catalog[p.id] <= p.rev /\ p.id \in Wn!Outfits /\ p.look \in BOOLEAN
  BY <1>1, <1>2, <1>3, WnKinds DEF WnEventTrue
<1>5. WnStudioTyped
  BY DEF WnBase, WnTyped
<1>6. PICK d : d = Wn!DraftOf(wnStudio, p)
  OBVIOUS
<1>7. d.of = p.id /\ d \in [of : {Wn!None} \cup Wn!Outfits, dirty : BOOLEAN]
  BY <1>4, <1>6 DEF Wn!DraftOf
<1>8. PICK new : new = [wnStudio EXCEPT !.loading = FALSE, !.busy = FALSE, !.sel = p.id, !.profile = p,
                         !.draft = d,
                         !.texture = @ /\ (p.look \/ wnStudio.image),
                         !.rendering = @ /\ (p.look \/ wnStudio.image)]
  OBVIOUS
<1>9. /\ DOMAIN new = DOMAIN wnStudio /\ new.catalog = wnStudio.catalog /\ new.default = wnStudio.default
      /\ new.recent = wnStudio.recent /\ new.sel = p.id /\ new.profile = p /\ new.draft = d
      /\ new.image = wnStudio.image /\ new.texture \in BOOLEAN /\ new.rendering \in BOOLEAN
      /\ new.rendering => wnStudio.rendering
      /\ new.loading = FALSE /\ new.busy = FALSE
  BY <1>4, <1>5, <1>8 DEF WnStudioTyped
<1>10. PICK want \in BOOLEAN : want = (p.look /\ Wn!WantsPreview(new))
  BY <1>4, <1>9 DEF Wn!WantsPreview
<1>11. PICK ask \in {<<>>, Wn!Preview} : ask = (IF want THEN Wn!Preview ELSE <<>>)
  OBVIOUS
<1>12. PICK next : next = Wn!AcceptProfile(wnStudio, p)
  OBVIOUS
<1>13. next.studio = [new EXCEPT !.rendering = @ \/ want] /\ next.ask = ask
  BY <1>6, <1>8, <1>10, <1>11, <1>12 DEF Wn!AcceptProfile
<1>14. /\ UNCHANGED <<wnCtl, wnWork>> /\ wnEvents' = Tail(wnEvents)
       /\ wnStudio' = [new EXCEPT !.rendering = @ \/ want]
       /\ \/ /\ e.ev = "loaded" /\ wnQueue' = wnQueue \o ask
             /\ wnWin' = [wnWin EXCEPT !.refreshing = FALSE]
          \/ /\ e.ev = "saved" /\ wnQueue' = wnQueue \o (ask \o Wn!Refresh)
             /\ wnWin' = [wnWin EXCEPT !.refreshing = TRUE]
  <2>1. CASE e.ev = "loaded"
    <3>1. Wn!Takes({"loaded"}, Wn!Settled, next.studio, next.ask)
      BY <1>1, <1>2, <1>3, <1>12, <2>1 DEF Wn!OnProfile
    <3> QED  BY <1>13, <2>1, <3>1 DEF Wn!Takes, Wn!Settled
  <2>2. CASE e.ev = "saved"
    <3>1. Wn!Takes({"saved"}, Wn!Asked, next.studio, next.ask \o Wn!Refresh)
      BY <1>1, <1>2, <1>3, <1>12, <2>2 DEF Wn!OnProfile
    <3> QED  BY <1>13, <2>2, <3>1 DEF Wn!Takes, Wn!Asked
  <2> QED  BY <1>2, <2>1, <2>2
<1>15. PICK more \in {<<>>, Wn!Refresh}, b \in BOOLEAN :
         /\ wnQueue' = wnQueue \o (ask \o more) /\ wnWin' = [wnWin EXCEPT !.refreshing = b]
         /\ b => more = Wn!Refresh
  BY <1>14, WnNoMore
<1>16. /\ DOMAIN wnStudio' = DOMAIN wnStudio /\ wnStudio'.catalog = wnStudio.catalog
       /\ wnStudio'.default = wnStudio.default /\ wnStudio'.recent = wnStudio.recent
       /\ wnStudio'.sel = p.id /\ wnStudio'.profile = p /\ wnStudio'.draft = d
       /\ wnStudio'.image = wnStudio.image /\ wnStudio'.texture \in BOOLEAN
       /\ wnStudio'.rendering \in BOOLEAN /\ (wnStudio'.rendering => wnStudio.rendering \/ want)
       /\ wnStudio'.loading = FALSE /\ wnStudio'.busy = FALSE
  BY <1>5, <1>9, <1>14 DEF WnStudioTyped
<1>17. WnStudio'
  <2>1. WnStudioTyped'
    BY <1>4, <1>5, <1>7, <1>16 DEF WnStudioTyped
  <2>2. WnShown'
    BY <1>4, <1>7, <1>14, <1>16 DEF WnShown, WnProfileTrue
  <2> QED  BY <2>1, <2>2 DEF WnStudio
<1>18. /\ WnPane' /\ wnWin'.refreshing = b /\ wnWin'.inviting = wnWin.inviting
       /\ wnWin'.importing = wnWin.importing /\ wnWin'.exporting = wnWin.exporting
  BY <1>14, <1>15, WnRefreshing
<1>19. PICK ev : ev = e.ev
  OBVIOUS
<1>20. wnStudio'.rendering => (wnStudio.rendering /\ ev \notin {"preview", "error"}) \/ ask = Wn!Preview
  BY <1>2, <1>11, <1>16, <1>19
<1>21. /\ ev = Head(wnEvents).ev /\ ev \in {"loaded", "saved", "default", "stored", "preview", "error"}
       /\ wnEvents # <<>> /\ wnEvents' = Tail(wnEvents) /\ UNCHANGED <<wnCtl, wnWork>>
  BY <1>1, <1>2, <1>14, <1>19
<1>22. /\ wnWin'.inviting => wnWin.inviting /\ ev # "error"
       /\ wnWin'.importing => wnWin.importing /\ ev # "error"
       /\ wnWin'.exporting => wnWin.exporting /\ ev # "error"
       /\ wnWin'.refreshing => more = Wn!Refresh
  BY <1>2, <1>15, <1>18, <1>19
<1>23. /\ wnStudio'.catalog = wnStudio.catalog
       /\ wnStudio'.busy => wnStudio.busy /\ ev \notin {"saved", "default", "error"}
       /\ wnStudio'.loading => wnStudio.loading /\ ev \notin {"loaded", "error"}
  BY <1>16
<1> QED  BY <1>15, <1>17, <1>18, <1>20, <1>21, <1>22, <1>23, WnStudioEvent, ZenonT(60)

\* The default outfit was changed.
LEMMA WnOnDefault == ASSUME WnBase, Wn!OnDefault PROVE WnBase'
<1>1. /\ wnEvents # <<>> /\ Head(wnEvents).ev = "default" /\ wnEvents' = Tail(wnEvents)
      /\ wnWin' = [wnWin EXCEPT !.refreshing = TRUE] /\ wnStudio' = [wnStudio EXCEPT !.busy = FALSE]
      /\ wnQueue' = wnQueue \o (<<>> \o Wn!Refresh) /\ UNCHANGED <<wnCtl, wnWork>>
  BY WnNoMore DEF Wn!OnDefault, Wn!Takes, Wn!Asked, Wn!AcceptDefault
<1>2. WnStudioTyped
  BY DEF WnBase, WnTyped
<1>3. /\ DOMAIN wnStudio' = DOMAIN wnStudio /\ wnStudio'.catalog = wnStudio.catalog
      /\ wnStudio'.default = wnStudio.default /\ wnStudio'.recent = wnStudio.recent
      /\ wnStudio'.sel = wnStudio.sel /\ wnStudio'.profile = wnStudio.profile
      /\ wnStudio'.draft = wnStudio.draft /\ wnStudio'.image = wnStudio.image
      /\ wnStudio'.texture = wnStudio.texture /\ wnStudio'.rendering = wnStudio.rendering
      /\ wnStudio'.loading = wnStudio.loading /\ wnStudio'.busy = FALSE
  BY <1>1, <1>2 DEF WnStudioTyped
<1>4. WnStudio'
  BY <1>1, <1>2, <1>3, WnStudioFlags DEF WnStudioTyped
<1>5. /\ WnPane' /\ wnWin'.refreshing = TRUE /\ wnWin'.inviting = wnWin.inviting
      /\ wnWin'.importing = wnWin.importing /\ wnWin'.exporting = wnWin.exporting
  BY <1>1, WnRefreshing
<1>6. PICK ev : ev = Head(wnEvents).ev
  OBVIOUS
<1> QED  BY <1>1, <1>3, <1>4, <1>5, <1>6, WnStudioEvent

\* An image was imported or drawn.
LEMMA WnOnImage == ASSUME WnBase, Wn!OnImage PROVE WnBase'
<1>1. WnStudioTyped
  BY DEF WnBase, WnTyped
<1>2. PICK ev : ev = Head(wnEvents).ev
  OBVIOUS
<1>3. CASE Wn!Takes({"preview"}, Wn!Settled, Wn!AcceptPreview(wnStudio), <<>>)
  <2>1. /\ wnEvents # <<>> /\ ev = "preview" /\ wnEvents' = Tail(wnEvents)
        /\ wnWin' = [wnWin EXCEPT !.refreshing = FALSE]
        /\ wnStudio' = [wnStudio EXCEPT !.rendering = FALSE, !.texture = TRUE]
        /\ wnQueue' = wnQueue \o (<<>> \o <<>>) /\ UNCHANGED <<wnCtl, wnWork>>
    BY <1>2, <1>3, WnNoMore DEF Wn!Takes, Wn!Settled, Wn!AcceptPreview
  <2>2. /\ DOMAIN wnStudio' = DOMAIN wnStudio /\ wnStudio'.catalog = wnStudio.catalog
        /\ wnStudio'.default = wnStudio.default /\ wnStudio'.recent = wnStudio.recent
        /\ wnStudio'.sel = wnStudio.sel /\ wnStudio'.profile = wnStudio.profile
        /\ wnStudio'.draft = wnStudio.draft /\ wnStudio'.image = wnStudio.image
        /\ wnStudio'.texture = TRUE /\ wnStudio'.rendering = FALSE
        /\ wnStudio'.loading = wnStudio.loading /\ wnStudio'.busy = wnStudio.busy
    BY <1>1, <2>1 DEF WnStudioTyped
  <2>3. WnStudio'
    BY <1>1, <2>1, <2>2, WnStudioFlags DEF WnStudioTyped
  <2>4. /\ WnPane' /\ wnWin'.refreshing = FALSE /\ wnWin'.inviting = wnWin.inviting
        /\ wnWin'.importing = wnWin.importing /\ wnWin'.exporting = wnWin.exporting
    BY <2>1, WnRefreshing
  <2> QED  BY SMTT(30), <1>2, <2>1, <2>2, <2>3, <2>4, WnStudioEvent
<1>4. CASE Wn!Takes({"stored"}, Wn!Asked, Wn!AcceptImage(wnStudio).studio,
                    Wn!AcceptImage(wnStudio).ask \o Wn!Refresh)
  <2>1. PICK new : new = [wnStudio EXCEPT !.busy = FALSE, !.image = TRUE, !.images = {1}]
    OBVIOUS
  <2>2. /\ DOMAIN new = DOMAIN wnStudio /\ new.catalog = wnStudio.catalog
        /\ new.default = wnStudio.default /\ new.recent = wnStudio.recent
        /\ new.sel = wnStudio.sel /\ new.profile = wnStudio.profile
        /\ new.draft = wnStudio.draft /\ new.image = TRUE
        /\ new.texture = wnStudio.texture /\ new.rendering = wnStudio.rendering
        /\ new.loading = wnStudio.loading /\ new.busy = FALSE
    BY <1>1, <2>1 DEF WnStudioTyped
  <2>3. PICK want \in BOOLEAN : want = Wn!WantsPreview(new)
    BY DEF Wn!WantsPreview
  <2>4. PICK ask \in {<<>>, Wn!Preview} : ask = (IF want THEN Wn!Preview ELSE <<>>)
    OBVIOUS
  <2>5. /\ wnEvents # <<>> /\ ev = "stored" /\ wnEvents' = Tail(wnEvents)
        /\ wnWin' = [wnWin EXCEPT !.refreshing = TRUE]
        /\ wnStudio' = [new EXCEPT !.rendering = @ \/ want]
        /\ wnQueue' = wnQueue \o (ask \o Wn!Refresh) /\ UNCHANGED <<wnCtl, wnWork>>
    <3>1. Wn!AcceptImage(wnStudio).studio = [new EXCEPT !.rendering = @ \/ want]
      BY <2>1, <2>3 DEF Wn!AcceptImage
    <3>2. Wn!AcceptImage(wnStudio).ask = ask
      BY <2>1, <2>3, <2>4 DEF Wn!AcceptImage
    <3> QED  BY <1>2, <1>4, <3>1, <3>2 DEF Wn!Takes, Wn!Asked
  <2>6. /\ DOMAIN wnStudio' = DOMAIN wnStudio /\ wnStudio'.catalog = wnStudio.catalog
        /\ wnStudio'.default = wnStudio.default /\ wnStudio'.recent = wnStudio.recent
        /\ wnStudio'.sel = wnStudio.sel /\ wnStudio'.profile = wnStudio.profile
        /\ wnStudio'.draft = wnStudio.draft /\ wnStudio'.image = TRUE
        /\ wnStudio'.texture = wnStudio.texture
        /\ wnStudio'.rendering = (wnStudio.rendering \/ want)
        /\ wnStudio'.loading = wnStudio.loading /\ wnStudio'.busy = FALSE
    BY <1>1, <2>2, <2>5 DEF WnStudioTyped
  <2>7. WnStudio'
    BY <1>1, <2>5, <2>6, WnStudioFlags DEF WnStudioTyped
  <2>8. /\ WnPane' /\ wnWin'.refreshing = TRUE /\ wnWin'.inviting = wnWin.inviting
        /\ wnWin'.importing = wnWin.importing /\ wnWin'.exporting = wnWin.exporting
    BY <2>5, WnRefreshing
  <2>9. wnStudio'.rendering => (wnStudio.rendering /\ ev \notin {"preview", "error"}) \/ ask = Wn!Preview
    BY <2>4, <2>5, <2>6
  <2> QED  BY <1>2, <2>5, <2>6, <2>7, <2>8, <2>9, WnStudioEvent
<1> QED  BY <1>3, <1>4 DEF Wn!OnImage

\* Something failed.
LEMMA WnOnError == ASSUME WnBase, Wn!OnError PROVE WnBase'
<1>1. /\ wnEvents # <<>> /\ Head(wnEvents).ev = "error" /\ wnEvents' = Tail(wnEvents)
      /\ wnWin' = [[wnWin EXCEPT !.refreshing = FALSE] EXCEPT
                     !.inviting = FALSE, !.importing = FALSE, !.exporting = FALSE]
      /\ wnStudio' = [wnStudio EXCEPT !.busy = FALSE, !.loading = FALSE, !.rendering = FALSE]
      /\ wnQueue' = wnQueue \o (<<>> \o <<>>) /\ UNCHANGED <<wnCtl, wnWork>>
  BY WnNoMore DEF Wn!OnError, Wn!Takes, Wn!Settled, Wn!AcceptError
<1>2. WnStudioTyped
  BY DEF WnBase, WnTyped
<1>3. /\ DOMAIN wnStudio' = DOMAIN wnStudio /\ wnStudio'.catalog = wnStudio.catalog
      /\ wnStudio'.default = wnStudio.default /\ wnStudio'.recent = wnStudio.recent
      /\ wnStudio'.sel = wnStudio.sel /\ wnStudio'.profile = wnStudio.profile
      /\ wnStudio'.draft = wnStudio.draft /\ wnStudio'.image = wnStudio.image
      /\ wnStudio'.texture = wnStudio.texture /\ wnStudio'.rendering = FALSE
      /\ wnStudio'.loading = FALSE /\ wnStudio'.busy = FALSE
  BY <1>1, <1>2 DEF WnStudioTyped
<1>4. WnStudio'
  BY <1>1, <1>2, <1>3, WnStudioFlags DEF WnStudioTyped
<1>5. /\ DOMAIN wnWin' = DOMAIN wnWin /\ wnWin'.refreshing = FALSE /\ wnWin'.inviting = FALSE
      /\ wnWin'.importing = FALSE /\ wnWin'.exporting = FALSE
      /\ wnWin'.exit = wnWin.exit /\ wnWin'.creds = wnWin.creds /\ wnWin'.mcp = wnWin.mcp
      /\ wnWin'.confirm = wnWin.confirm
  BY <1>1 DEF WnBase, WnTyped, WnWinTyped
<1>6. WnPane'
  BY <1>1, <1>5, WnSamePane DEF WnBase, WnTyped, WnWinTyped
<1>7. PICK ev : ev = Head(wnEvents).ev
  OBVIOUS
<1> QED  BY <1>1, <1>3, <1>4, <1>5, <1>6, <1>7, WnStudioEvent

\* A click that leaves the studio alone.
LEMMA WnPaneClick ==
    ASSUME WnBase, NEW win, NEW cmds, WnMaySend(cmds), Wn!Click(win, wnStudio, cmds),
           DOMAIN win = DOMAIN wnWin, win.refreshing = wnWin.refreshing,
           win.inviting \in BOOLEAN, win.importing \in BOOLEAN, win.exporting \in BOOLEAN,
           win.inviting => wnWin.inviting \/ WnHasOp(cmds, {"invite", "kit"}),
           win.importing => wnWin.importing \/ WnHasOp(cmds, {"import"}),
           win.exporting => wnWin.exporting \/ WnHasOp(cmds, {"backup"}),
           win.exit = wnWin.exit, win.creds = wnWin.creds,
           \A i : win.confirm = <<"delete", i>> => WnShut(i)
    PROVE  WnBase'
<1>1. /\ ~wnWin.exit /\ wnWin' = win /\ UNCHANGED <<wnStudio, wnCtl, wnWork, wnEvents>>
      /\ wnQueue' = IF wnWork = Wn!Ended THEN wnQueue ELSE wnQueue \o cmds
  BY DEF Wn!Click, Wn!Sends
<1>2. WnWinTyped'
  BY <1>1 DEF WnBase, WnTyped, WnWinTyped
<1>3. WnListTrue(wnWin.creds)' /\ (\A i : wnWin.confirm = <<"delete", i>> => WnShut(i))'
  BY <1>1 DEF WnBase, WnTrue, WnListTrue, WnShut
<1>4. WnPane'
  BY <1>1, <1>2, <1>3 DEF WnPane
<1>5. WnStudio'
  BY <1>1, WnSameStudio
<1>6. WnFlags(cmds, "none")
  BY <1>1 DEF WnFlags
<1> QED  BY <1>1, <1>4, <1>5, <1>6, WnClickStep

\* A refresh is due.
LEMMA WnRefreshIsDue == ASSUME WnBase, Wn!RefreshIsDue PROVE WnBase'
<1>1. PICK cmds : cmds = Wn!Refresh
  OBVIOUS
<1>2. /\ wnWin' = [wnWin EXCEPT !.refreshing = TRUE] /\ UNCHANGED <<wnCtl, wnWork, wnEvents, wnStudio>>
      /\ wnQueue' = IF wnWork = Wn!Ended THEN wnQueue ELSE wnQueue \o cmds
  BY <1>1 DEF Wn!RefreshIsDue, Wn!Sends, Wn!Asked
<1>3. WnMaySend(cmds) /\ WnHasOp(cmds, {"refresh"})
  BY <1>1, WnCommandKinds DEF Wn!Refresh
<1>4. /\ WnPane' /\ wnWin'.refreshing = TRUE /\ wnWin'.inviting = wnWin.inviting
      /\ wnWin'.importing = wnWin.importing /\ wnWin'.exporting = wnWin.exporting
  BY <1>2, WnRefreshing
<1>5. WnStudio'
  BY <1>2, WnSameStudio
<1>6. WnFlags(cmds, "none")
  BY <1>2, <1>3, <1>4 DEF WnFlags
<1> QED  BY <1>2, <1>3, <1>4, <1>5, <1>6, WnClickStep

\* The runtime the Controller runs on is imported when none fits.
LEMMA WnImportCurrent ==
    ASSUME WnBase, NEW win, Wn!ImportCurrent(win),
           DOMAIN win = DOMAIN wnWin, win.refreshing = wnWin.refreshing, win.inviting = wnWin.inviting,
           win.importing = wnWin.importing, win.exporting = wnWin.exporting,
           win.exit = wnWin.exit, win.creds = wnWin.creds, win.confirm = wnWin.confirm
    PROVE  WnBase'
<1>1. WnWinTyped /\ \A i : wnWin.confirm = <<"delete", i>> => WnShut(i)
  BY DEF WnBase, WnTyped, WnTrue
<1>2. CASE Wn!ImportsCurrent
  <2>1. PICK w : w = [win EXCEPT !.tried = TRUE, !.importing = TRUE, !.importError = FALSE]
    OBVIOUS
  <2>2. PICK cmds : cmds = <<[op |-> "import"]>>
    OBVIOUS
  <2>3. Wn!Click(w, wnStudio, cmds)
    BY <1>2, <2>1, <2>2 DEF Wn!ImportCurrent
  <2>4. WnMaySend(cmds) /\ WnHasOp(cmds, {"import"})
    BY <2>2, WnCommandKinds
  <2>5. /\ DOMAIN w = DOMAIN wnWin /\ w.refreshing = wnWin.refreshing /\ w.inviting = wnWin.inviting
        /\ w.importing = TRUE /\ w.exporting = wnWin.exporting
        /\ w.exit = wnWin.exit /\ w.creds = wnWin.creds /\ w.confirm = wnWin.confirm
    BY <1>1, <2>1 DEF WnWinTyped
  <2> QED  BY <1>1, <2>3, <2>4, <2>5, WnPaneClick DEF WnWinTyped
<1>3. CASE ~Wn!ImportsCurrent
  <2>1. PICK cmds : cmds = <<>>
    OBVIOUS
  <2>2. Wn!Click(win, wnStudio, cmds)
    BY <1>3, <2>1 DEF Wn!ImportCurrent
  <2>3. WnMaySend(cmds)
    BY <2>1, WnCommandKinds
  <2> QED  BY <1>1, <2>2, <2>3, WnPaneClick DEF WnWinTyped
<1> QED  BY <1>2, <1>3

\* The invite section.
LEMMA WnInviteClicks ==
    ASSUME WnBase, \/ Wn!OpenInvite \/ Wn!UseInstallation \/ Wn!ChooseRelease
                   \/ Wn!CreateKit \/ Wn!ExportSite \/ Wn!CancelInvite
    PROVE  WnBase'
<1>1. WnWinTyped /\ \A i : wnWin.confirm = <<"delete", i>> => WnShut(i)
  BY DEF WnBase, WnTyped, WnTrue
<1>2. CASE Wn!OpenInvite
  <2>1. PICK w : w = [wnWin EXCEPT !.open = TRUE]
    OBVIOUS
  <2>2. Wn!ImportCurrent(w)
    BY <1>2, <2>1 DEF Wn!OpenInvite
  <2>3. /\ DOMAIN w = DOMAIN wnWin /\ w.refreshing = wnWin.refreshing /\ w.inviting = wnWin.inviting
        /\ w.importing = wnWin.importing /\ w.exporting = wnWin.exporting
        /\ w.exit = wnWin.exit /\ w.creds = wnWin.creds /\ w.confirm = wnWin.confirm
    BY <1>1, <2>1 DEF WnWinTyped
  <2> QED  BY <2>2, <2>3, WnImportCurrent
<1>3. CASE Wn!UseInstallation
  <2>1. PICK w : w = wnWin
    OBVIOUS
  <2>2. Wn!ImportCurrent(w)
    BY <1>3, <2>1 DEF Wn!UseInstallation
  <2> QED  BY <2>1, <2>2, WnImportCurrent
<1>4. CASE Wn!ChooseRelease
  <2>1. PICK w, cmds : /\ w = [wnWin EXCEPT !.importing = TRUE, !.importError = FALSE]
                       /\ cmds = <<[op |-> "import"]>>
    OBVIOUS
  <2>2. Wn!Click(w, wnStudio, cmds)
    BY <1>4, <2>1 DEF Wn!ChooseRelease
  <2>3. WnMaySend(cmds) /\ WnHasOp(cmds, {"import"})
    BY <2>1, WnCommandKinds
  <2>4. /\ DOMAIN w = DOMAIN wnWin /\ w.refreshing = wnWin.refreshing /\ w.inviting = wnWin.inviting
        /\ w.importing = TRUE /\ w.exporting = wnWin.exporting
        /\ w.exit = wnWin.exit /\ w.creds = wnWin.creds /\ w.confirm = wnWin.confirm
    BY <1>1, <2>1 DEF WnWinTyped
  <2> QED  BY <1>1, <2>2, <2>3, <2>4, WnPaneClick DEF WnWinTyped
<1>5. CASE Wn!CreateKit \/ Wn!ExportSite
  <2>1. PICK op \in {"invite", "kit"} : Wn!Click([wnWin EXCEPT !.inviting = TRUE], wnStudio, <<[op |-> op]>>)
    BY <1>5 DEF Wn!CreateKit, Wn!ExportSite
  <2>2. PICK w, cmds : w = [wnWin EXCEPT !.inviting = TRUE] /\ cmds = <<[op |-> op]>>
    OBVIOUS
  <2>3. Wn!Click(w, wnStudio, cmds)
    BY <2>1, <2>2
  <2>4. WnMaySend(cmds) /\ WnHasOp(cmds, {"invite", "kit"})
    BY <2>2, WnCommandKinds
  <2>5. /\ DOMAIN w = DOMAIN wnWin /\ w.refreshing = wnWin.refreshing /\ w.inviting = TRUE
        /\ w.importing = wnWin.importing /\ w.exporting = wnWin.exporting
        /\ w.exit = wnWin.exit /\ w.creds = wnWin.creds /\ w.confirm = wnWin.confirm
    BY <1>1, <2>2 DEF WnWinTyped
  <2> QED  BY <1>1, <2>3, <2>4, <2>5, WnPaneClick DEF WnWinTyped
<1>6. CASE Wn!CancelInvite
  <2>1. PICK w, cmds : w = [wnWin EXCEPT !.open = FALSE] /\ cmds = <<>>
    OBVIOUS
  <2>2. Wn!Click(w, wnStudio, cmds)
    BY <1>6, <2>1 DEF Wn!CancelInvite
  <2>3. WnMaySend(cmds)
    BY <2>1, WnCommandKinds
  <2>4. /\ DOMAIN w = DOMAIN wnWin /\ w.refreshing = wnWin.refreshing /\ w.inviting = wnWin.inviting
        /\ w.importing = wnWin.importing /\ w.exporting = wnWin.exporting
        /\ w.exit = wnWin.exit /\ w.creds = wnWin.creds /\ w.confirm = wnWin.confirm
    BY <1>1, <2>1 DEF WnWinTyped
  <2> QED  BY <1>1, <2>2, <2>3, <2>4, WnPaneClick DEF WnWinTyped
<1> QED  BY <1>2, <1>3, <1>4, <1>5, <1>6

\* A click that leaves the lists and the spinners as they are.
WnKeeps(w) ==
  /\ DOMAIN w = DOMAIN wnWin /\ w.refreshing = wnWin.refreshing /\ w.inviting = wnWin.inviting
  /\ w.importing = wnWin.importing /\ w.exporting = wnWin.exporting
  /\ w.exit = wnWin.exit /\ w.creds = wnWin.creds

\* Such a click, if a deletion it asks about may be confirmed.
LEMMA WnChoiceClick ==
    ASSUME WnBase, NEW w, NEW cmds, WnMaySend(cmds), Wn!Click(w, wnStudio, cmds), WnKeeps(w),
           \A i : w.confirm = <<"delete", i>> => WnShut(i)
    PROVE  WnBase'
<1>1. WnWinTyped
  BY DEF WnBase, WnTyped
<1> QED  BY <1>1, WnPaneClick DEF WnKeeps, WnWinTyped

\* The list of credentials.
LEMMA WnCredentialClicks ==
    ASSUME WnBase, \/ Wn!SelectCredential \/ Wn!CloseCredential \/ Wn!ArmRevoke \/ Wn!ConfirmRevoke
                   \/ Wn!ArmDelete \/ Wn!ConfirmDelete \/ Wn!CancelConfirm
    PROVE  WnBase'
<1>1. WnWinTyped /\ WnListTrue(wnWin.creds) /\ \A i : wnWin.confirm = <<"delete", i>> => WnShut(i)
  BY DEF WnBase, WnTyped, WnTrue
<1>2. PICK s : s = wnWin.selected
  OBVIOUS
<1>3. Wn!ChosenCredential => s \in Nat /\ s \in DOMAIN wnWin.creds
  BY <1>1, <1>2 DEF Wn!ChosenCredential, Wn!Listed, WnWinTyped
<1>4. /\ \A i : <<"revoke", s>> # <<"delete", i>> /\ <<>> # <<"delete", i>>
      /\ \A i : <<"delete", s>> = <<"delete", i>> => i = s
  OBVIOUS
<1>5. PICK w, cmds :
        /\ Wn!Click(w, wnStudio, cmds)
        /\ \/ w = wnWin
           \/ \E i : w = [wnWin EXCEPT !.selected = i]
           \/ w = [wnWin EXCEPT !.confirm = <<"revoke", s>>]
           \/ w = [wnWin EXCEPT !.confirm = <<"delete", s>>] /\ s \in DOMAIN wnWin.creds /\ wnWin.creds[s] # "open"
           \/ w = [wnWin EXCEPT !.confirm = <<>>]
        /\ \/ cmds = <<>>
           \/ s \in Nat /\ cmds = <<[op |-> "close", id |-> s]>>
           \/ s \in Nat /\ cmds = <<[op |-> "revoke", id |-> s]>>
           \/ s \in Nat /\ cmds = <<[op |-> "delete", id |-> s]>> /\ wnWin.confirm = <<"delete", s>>
  <2>1. CASE Wn!SelectCredential
    <3>1. PICK i : Wn!Click([wnWin EXCEPT !.selected = i], wnStudio, <<>>)
      BY <2>1 DEF Wn!SelectCredential
    <3> QED  BY <3>1
  <2>2. CASE Wn!CloseCredential
    BY <1>2, <1>3, <2>2 DEF Wn!CloseCredential
  <2>3. CASE Wn!ArmRevoke
    BY <1>2, <2>3 DEF Wn!ArmRevoke
  <2>4. CASE Wn!ConfirmRevoke
    BY <1>2, <1>3, <2>4 DEF Wn!ConfirmRevoke
  <2>5. CASE Wn!ArmDelete
    BY <1>2, <1>3, <2>5 DEF Wn!ArmDelete, Wn!ShownState
  <2>6. CASE Wn!ConfirmDelete
    BY <1>2, <1>3, <2>6 DEF Wn!ConfirmDelete
  <2>7. CASE Wn!CancelConfirm
    BY <1>2, <2>7 DEF Wn!CancelConfirm
  <2> QED  BY <2>1, <2>2, <2>3, <2>4, <2>5, <2>6, <2>7
<1>6. WnMaySend(cmds)
  BY <1>1, <1>5, WnCommandKinds
<1>7. WnKeeps(w)
  BY <1>1, <1>5 DEF WnKeeps, WnWinTyped
<1>8. \/ w.confirm = wnWin.confirm
      \/ w.confirm = <<"revoke", s>>
      \/ w.confirm = <<"delete", s>> /\ WnShut(s)
      \/ w.confirm = <<>>
  <2>1. s \in DOMAIN wnWin.creds /\ wnWin.creds[s] # "open" => WnShut(s)
    BY <1>1 DEF WnListTrue
  <2> QED  BY <1>1, <1>5, <2>1 DEF WnWinTyped
<1>9. \A i : w.confirm = <<"delete", i>> => WnShut(i)
  BY <1>1, <1>4, <1>8
<1> QED  BY <1>5, <1>6, <1>7, <1>9, WnChoiceClick

\* The recovery review, the backup, the activity list, the MCP server and the
\* exit.
LEMMA WnCareClicks ==
    ASSUME WnBase, \/ Wn!ReviewRecovery \/ Wn!ExportBackup \/ Wn!ClearActivity \/ Wn!ToggleMcp \/ Wn!ExitClew
    PROVE  WnBase'
<1>1. WnWinTyped /\ \A i : wnWin.confirm = <<"delete", i>> => WnShut(i)
  BY DEF WnBase, WnTyped, WnTrue
<1>2. CASE Wn!ExportBackup
  <2>1. PICK w, cmds : w = [wnWin EXCEPT !.exporting = TRUE] /\ cmds = <<[op |-> "backup"]>>
    OBVIOUS
  <2>2. Wn!Click(w, wnStudio, cmds)
    BY <1>2, <2>1 DEF Wn!ExportBackup
  <2>3. WnMaySend(cmds) /\ WnHasOp(cmds, {"backup"})
    BY <2>1, WnCommandKinds
  <2>4. /\ DOMAIN w = DOMAIN wnWin /\ w.refreshing = wnWin.refreshing /\ w.inviting = wnWin.inviting
        /\ w.importing = wnWin.importing /\ w.exporting = TRUE
        /\ w.exit = wnWin.exit /\ w.creds = wnWin.creds /\ w.confirm = wnWin.confirm
    BY <1>1, <2>1 DEF WnWinTyped
  <2> QED  BY <1>1, <2>2, <2>3, <2>4, WnPaneClick DEF WnWinTyped
<1>3. CASE ~Wn!ExportBackup
  <2>1. PICK w, cmds :
          /\ Wn!Click(w, wnStudio, cmds)
          /\ \/ w = wnWin
             \/ \E b : w = [wnWin EXCEPT !.armed = b]
             \/ \E m : w = [wnWin EXCEPT !.mcp = m]
          /\ cmds = <<>> \/ \E op \in {"recovery", "activity", "shutdown"} : cmds = <<[op |-> op]>>
    <3>1. CASE Wn!ReviewRecovery
      <4>1. PICK c \in BOOLEAN :
              Wn!Click([wnWin EXCEPT !.armed = ~@], wnStudio, IF c THEN <<[op |-> "recovery"]>> ELSE <<>>)
        BY <3>1 DEF Wn!ReviewRecovery
      <4>2. PICK w, cmds : /\ w = [wnWin EXCEPT !.armed = ~wnWin.armed]
                           /\ cmds = IF c THEN <<[op |-> "recovery"]>> ELSE <<>>
        OBVIOUS
      <4> QED  BY <4>1, <4>2
    <3>2. CASE Wn!ClearActivity
      BY <3>2 DEF Wn!ClearActivity
    <3>3. CASE Wn!ToggleMcp
      <4>1. PICK m : m = (IF wnWin.mcp = "running" THEN "none" ELSE "running")
        OBVIOUS
      <4>2. Wn!Click([wnWin EXCEPT !.mcp = m], wnStudio, <<>>)
        BY <3>3, <4>1 DEF Wn!ToggleMcp
      <4> QED  BY <4>2
    <3>4. CASE Wn!ExitClew
      BY <3>4 DEF Wn!ExitClew
    <3> QED  BY <1>3, <3>1, <3>2, <3>3, <3>4
  <2>2. WnMaySend(cmds)
    BY <2>1, WnCommandKinds
  <2>3. WnKeeps(w) /\ w.confirm = wnWin.confirm
    BY <1>1, <2>1 DEF WnKeeps, WnWinTyped
  <2> QED  BY <1>1, <2>1, <2>2, <2>3, WnChoiceClick
<1> QED  BY <1>2, <1>3

\* The MCP server ends on its own.
LEMMA WnMcpEnds == ASSUME WnBase, Wn!McpEnds PROVE WnBase'
<1>1. PICK cmds : cmds = <<>>
  OBVIOUS
<1>2. wnWin' = [wnWin EXCEPT !.mcp = "none"] /\ UNCHANGED <<wnCtl, wnQueue, wnWork, wnEvents, wnStudio>>
  BY DEF Wn!McpEnds
<1>3. wnQueue' = wnQueue \o cmds
  BY <1>1, <1>2 DEF WnBase, WnTyped
<1>4. /\ DOMAIN wnWin' = DOMAIN wnWin /\ wnWin'.refreshing = wnWin.refreshing /\ wnWin'.inviting = wnWin.inviting
      /\ wnWin'.importing = wnWin.importing /\ wnWin'.exporting = wnWin.exporting
      /\ wnWin'.exit = wnWin.exit /\ wnWin'.creds = wnWin.creds /\ wnWin'.mcp = "none"
      /\ wnWin'.confirm = wnWin.confirm
  BY <1>2 DEF WnBase, WnTyped, WnWinTyped
<1>5. WnPane'
  <2>1. WnWinTyped'
    BY <1>4 DEF WnBase, WnTyped, WnWinTyped
  <2>2. WnListTrue(wnWin.creds)' /\ (\A i : wnWin.confirm = <<"delete", i>> => WnShut(i))'
    BY <1>2, <1>4 DEF WnBase, WnTrue, WnListTrue, WnShut
  <2>3. wnWin'.exit => ~wnCtl'.up
    BY <1>2, <1>4 DEF WnBase, WnTrue
  <2> QED  BY <1>4, <2>1, <2>2, <2>3 DEF WnPane
<1>6. WnStudio'
  BY <1>2, WnSameStudio
<1>7. WnMaySend(cmds)
  BY <1>1, WnCommandKinds
<1>8. WnFlags(cmds, "none")
  BY <1>2, <1>4 DEF WnFlags
<1>9. wnQueue' = IF wnWork = Wn!Ended THEN wnQueue ELSE wnQueue \o cmds
  BY <1>2, <1>3
<1> QED  BY <1>2, <1>5, <1>6, <1>7, <1>8, <1>9, WnClickStep

\* A click in the studio that leaves what is shown.
LEMMA WnStudioClick ==
    ASSUME WnBase, NEW st, NEW cmds, WnMaySend(cmds), Wn!Click(wnWin, st, cmds),
           DOMAIN st = DOMAIN wnStudio, st.catalog = wnStudio.catalog, st.default = wnStudio.default,
           st.recent = wnStudio.recent, st.sel = wnStudio.sel, st.profile = wnStudio.profile,
           st.draft.of = wnStudio.draft.of, st.draft \in [of : {Wn!None} \cup Wn!Outfits, dirty : BOOLEAN],
           st.image \in BOOLEAN, st.texture \in BOOLEAN, st.loading = wnStudio.loading,
           st.rendering \in BOOLEAN, st.rendering => wnStudio.rendering \/ WnHasOp(cmds, {"preview"}),
           st.busy \in BOOLEAN,
           st.busy => wnStudio.busy \/ WnHasOp(cmds, {"create", "update", "image", "default"})
    PROVE  WnBase'
<1>1. /\ ~wnWin.exit /\ wnStudio' = st /\ UNCHANGED <<wnWin, wnCtl, wnWork, wnEvents>>
      /\ wnQueue' = IF wnWork = Wn!Ended THEN wnQueue ELSE wnQueue \o cmds
  BY DEF Wn!Click, Wn!Sends
<1>2. WnStudio'
  BY <1>1, WnStudioFlags
<1>3. WnPane'
  BY <1>1, WnSamePane DEF WnBase, WnTyped, WnWinTyped
<1>4. WnFlags(cmds, "none")
  BY <1>1 DEF WnFlags
<1> QED  BY <1>1, <1>2, <1>3, <1>4, WnClickStep

\* Another outfit is chosen.
LEMMA WnSelects == ASSUME WnBase, Wn!SelectOutfit PROVE WnBase'
<1>1. PICK o \in Wn!Outfits : Wn!Click(wnWin, Wn!BeginSelect(wnStudio, o), <<Wn!Show(o)>>)
  BY DEF Wn!SelectOutfit
<1>2. PICK cmds : cmds = <<Wn!Show(o)>>
  OBVIOUS
<1>3. /\ ~wnWin.exit /\ UNCHANGED <<wnWin, wnCtl, wnWork, wnEvents>>
      /\ wnStudio' = [wnStudio EXCEPT !.sel = o, !.profile = Wn!NoProfile, !.draft = Wn!NoDraft, !.loading = TRUE,
                                      !.rendering = FALSE, !.texture = FALSE]
      /\ wnQueue' = IF wnWork = Wn!Ended THEN wnQueue ELSE wnQueue \o cmds
  BY <1>1, <1>2 DEF Wn!Click, Wn!Sends, Wn!BeginSelect
<1>4. WnStudioTyped
  BY DEF WnBase, WnTyped
<1>5. /\ DOMAIN wnStudio' = DOMAIN wnStudio /\ wnStudio'.catalog = wnStudio.catalog
      /\ wnStudio'.default = wnStudio.default /\ wnStudio'.recent = wnStudio.recent
      /\ wnStudio'.image = wnStudio.image /\ wnStudio'.texture = FALSE
      /\ wnStudio'.rendering = FALSE /\ wnStudio'.busy = wnStudio.busy /\ wnStudio'.sel = o
      /\ wnStudio'.profile = Wn!NoProfile /\ wnStudio'.draft = Wn!NoDraft /\ wnStudio'.loading = TRUE
  BY <1>3, <1>4 DEF WnStudioTyped
<1>6. Wn!NoDraft \in [of : {Wn!None} \cup Wn!Outfits, dirty : BOOLEAN]
  BY DEF Wn!NoDraft
<1>7. WnStudio'
  <2>1. WnStudioTyped'
    BY <1>4, <1>5, <1>6 DEF WnStudioTyped
  <2> QED  BY <1>5, <2>1 DEF WnStudio, WnShown
<1>8. WnMaySend(cmds) /\ WnHasOp(cmds, {"show"})
  BY <1>2, WnCommandKinds DEF Wn!Show
<1>9. WnPane'
  BY <1>3, WnSamePane DEF WnBase, WnTyped, WnWinTyped
<1>10. WnFlags(cmds, "none")
  BY <1>3, <1>5, <1>8 DEF WnFlags
<1> QED  BY <1>3, <1>5, <1>7, <1>8, <1>9, <1>10, WnClickStep

\* The other buttons of the studio.
LEMMA WnStudioClicks ==
    ASSUME WnBase, \/ Wn!CreateOutfit \/ Wn!EditDraft \/ Wn!ApplyDraft \/ Wn!SetDefault
                   \/ Wn!ImportImage \/ Wn!PickImage \/ Wn!SetImage
    PROVE  WnBase'
<1>1. WnStudioTyped /\ WnShown
  BY DEF WnBase, WnTyped
<1>2. PICK o : o = wnStudio.profile.id
  OBVIOUS
<1>3. wnStudio.profile # Wn!NoProfile => o \in Wn!Outfits /\ wnStudio.draft.of = o
  BY <1>1, <1>2, WnKinds DEF WnStudioTyped, WnShown
<1>4. CASE Wn!EditDraft
  <2>1. PICK st, cmds : st = [wnStudio EXCEPT !.draft.dirty = TRUE] /\ cmds = <<>>
    OBVIOUS
  <2>2. Wn!Click(wnWin, st, cmds)
    BY <1>4, <2>1 DEF Wn!EditDraft
  <2>3. WnMaySend(cmds)
    BY <2>1, WnCommandKinds
  <2>4. /\ DOMAIN st = DOMAIN wnStudio /\ st.catalog = wnStudio.catalog /\ st.default = wnStudio.default
        /\ st.recent = wnStudio.recent /\ st.sel = wnStudio.sel /\ st.profile = wnStudio.profile
        /\ st.draft = [wnStudio.draft EXCEPT !.dirty = TRUE]
        /\ st.image = wnStudio.image /\ st.texture = wnStudio.texture /\ st.loading = wnStudio.loading
        /\ st.rendering = wnStudio.rendering /\ st.busy = wnStudio.busy
    BY <1>1, <2>1 DEF WnStudioTyped
  <2>5. st.draft.of = wnStudio.draft.of /\ st.draft \in [of : {Wn!None} \cup Wn!Outfits, dirty : BOOLEAN]
    BY <1>1, <2>4 DEF WnStudioTyped
  <2> QED  BY <1>1, <2>2, <2>3, <2>4, <2>5, WnStudioClick DEF WnStudioTyped
<1>5. CASE Wn!CreateOutfit \/ Wn!ApplyDraft \/ Wn!SetDefault \/ Wn!SetImage
  <2>1. PICK st : st = [wnStudio EXCEPT !.busy = TRUE]
    OBVIOUS
  <2>2. PICK cmds : /\ Wn!Click(wnWin, st, cmds)
                    /\ \/ cmds = <<[op |-> "create", id |-> 3]>>
                       \/ o \in Wn!Outfits /\ cmds = <<[op |-> "update", id |-> o, of |-> o]>>
                       \/ o \in Wn!Outfits /\ cmds = <<[op |-> "default", id |-> o]>>
                       \/ o \in Wn!Outfits /\ cmds = <<[op |-> "image", id |-> o]>>
    <3>1. CASE Wn!CreateOutfit
      BY <2>1, <3>1 DEF Wn!CreateOutfit
    <3>2. CASE Wn!ApplyDraft
      BY <1>2, <1>3, <2>1, <3>2 DEF Wn!ApplyDraft, Wn!Editable
    <3>3. CASE Wn!SetDefault
      BY <1>2, <1>3, <2>1, <3>3 DEF Wn!SetDefault
    <3>4. CASE Wn!SetImage
      BY <1>2, <1>3, <2>1, <3>4 DEF Wn!SetImage, Wn!Editable
    <3> QED  BY <1>5, <3>1, <3>2, <3>3, <3>4
  <2>3. 3 \in Wn!Outfits
    BY DEF Wn!Outfits
  <2>4. WnMaySend(cmds) /\ WnHasOp(cmds, {"create", "update", "image", "default"})
    BY <2>2, <2>3, WnCommandKinds
  <2>5. /\ DOMAIN st = DOMAIN wnStudio /\ st.catalog = wnStudio.catalog /\ st.default = wnStudio.default
        /\ st.recent = wnStudio.recent /\ st.sel = wnStudio.sel /\ st.profile = wnStudio.profile
        /\ st.draft = wnStudio.draft
        /\ st.image = wnStudio.image /\ st.texture = wnStudio.texture /\ st.loading = wnStudio.loading
        /\ st.rendering = wnStudio.rendering /\ st.busy = TRUE
    BY <1>1, <2>1 DEF WnStudioTyped
  <2> QED  BY <1>1, <2>2, <2>4, <2>5, WnStudioClick DEF WnStudioTyped
<1>6. CASE Wn!ImportImage
  <2>1. PICK st, cmds : st = wnStudio /\ cmds = <<[op |-> "store"]>>
    OBVIOUS
  <2>2. Wn!Click(wnWin, st, cmds)
    BY <1>6, <2>1 DEF Wn!ImportImage
  <2>3. WnMaySend(cmds)
    BY <2>1, WnCommandKinds
  <2> QED  BY <1>1, <2>1, <2>2, <2>3, WnStudioClick DEF WnStudioTyped
<1>7. CASE Wn!PickImage
  <2>1. PICK want \in BOOLEAN : want = Wn!WantsPreview(wnStudio)
    BY DEF Wn!WantsPreview
  <2>2. PICK st, cmds : /\ st = [wnStudio EXCEPT !.image = TRUE, !.rendering = wnStudio.rendering \/ want]
                        /\ cmds = IF want THEN Wn!Preview ELSE <<>>
    OBVIOUS
  <2>3. Wn!Click(wnWin, st, cmds)
    BY <1>7, <2>1, <2>2 DEF Wn!PickImage
  <2>4. WnMaySend(cmds) /\ (want => WnHasOp(cmds, {"preview"}))
    BY <2>2, WnCommandKinds DEF Wn!Preview
  <2>5. /\ DOMAIN st = DOMAIN wnStudio /\ st.catalog = wnStudio.catalog /\ st.default = wnStudio.default
        /\ st.recent = wnStudio.recent /\ st.sel = wnStudio.sel /\ st.profile = wnStudio.profile
        /\ st.draft = wnStudio.draft
        /\ st.image = TRUE /\ st.texture = wnStudio.texture /\ st.loading = wnStudio.loading
        /\ st.rendering = (wnStudio.rendering \/ want) /\ st.busy = wnStudio.busy
    BY <1>1, <2>2 DEF WnStudioTyped
  <2> QED  BY <1>1, <2>3, <2>4, <2>5, WnStudioClick DEF WnStudioTyped
<1> QED  BY <1>4, <1>5, <1>6, <1>7

\* Another client changes the Controller.
LEMMA WnForeign == ASSUME WnBase, Wn!Foreign PROVE WnBase'
<1>1. UNCHANGED <<wnQueue, wnWork, wnEvents, wnWin, wnStudio>>
  BY DEF Wn!Foreign
<1>2. WnOver(wnCtl')
  <2>1. CASE \E o \in Wn!Outfits \ {Wn!BuiltIn} :
               wnCtl.lib[o].rev \in 1 .. (MaxRevision - 1) /\ wnCtl' = [wnCtl EXCEPT !.lib[o].rev = @ + 1, !.recent = o]
    <3>1. PICK o \in Wn!Outfits : wnCtl' = [wnCtl EXCEPT !.lib[o].rev = @ + 1, !.recent = o]
      BY <2>1
    <3>2. PICK was \in WnOutfits : was = wnCtl.lib[o] /\ was.from = o /\ was.rev \in Nat
      BY WnKinds DEF WnBase, WnTyped, WnCtlTyped, WnTrue
    <3>3. PICK l : l = [was EXCEPT !.rev = was.rev + 1]
      OBVIOUS
    <3>4. l \in WnOutfits /\ l.from = o /\ l.rev = was.rev + 1
      <4>1. /\ DOMAIN was = {"rev", "from", "look"} /\ was.look \in BOOLEAN
            /\ was = [rev |-> was.rev, from |-> was.from, look |-> was.look]
        BY <3>2 DEF WnOutfits
      <4>2. l = [rev |-> was.rev + 1, from |-> o, look |-> was.look]
        BY <3>2, <3>3, <4>1
      <4>3. was.rev + 1 \in Nat
        BY <3>2
      <4> QED  BY <4>1, <4>2, <4>3 DEF WnOutfits
    <3>5. WnOver([wnCtl EXCEPT !.lib[o] = l, !.recent = o])
      <4>1. l.rev >= wnCtl.lib[o].rev
        BY <3>2, <3>4
      <4> QED  BY <3>4, <4>1, WnOverLib
    <3>6. wnCtl' = [wnCtl EXCEPT !.lib[o] = l, !.recent = o]
      BY <3>1, <3>2, <3>3
    <3> QED  BY <3>5, <3>6
  <2>2. CASE wnCtl.creds[1] # "gone" /\ wnCtl' = [wnCtl EXCEPT !.creds[1] = "gone"]
    <3>1. PICK cs : cs = [wnCtl.creds EXCEPT ![1] = "gone"]
      OBVIOUS
    <3>2. /\ cs \in Seq(WnStates)
          /\ \A i \in DOMAIN wnCtl.creds : i \in DOMAIN cs /\ cs[i] \in {"gone", wnCtl.creds[i]}
      <4>1. wnCtl.creds \in Seq(WnStates) /\ "gone" \in WnStates
        BY DEF WnBase, WnTyped, WnCtlTyped, WnStates
      <4>2. /\ DOMAIN cs = 1 .. Len(wnCtl.creds) /\ Len(wnCtl.creds) \in Nat
            /\ \A i \in DOMAIN wnCtl.creds : cs[i] \in {"gone", wnCtl.creds[i]}
            /\ \A i \in 1 .. Len(wnCtl.creds) : cs[i] \in WnStates
        BY <3>1, <4>1
      <4>3. cs \in [1 .. Len(wnCtl.creds) -> WnStates]
        BY <3>1, <4>1, <4>2
      <4> QED  BY <4>1, <4>2, <4>3
    <3>3. WnOver([wnCtl EXCEPT !.creds = cs])
      BY <3>2, WnOverCreds DEF WnShut
    <3>4. wnCtl' = [wnCtl EXCEPT !.creds = cs]
      BY <2>2, <3>1
    <3> QED  BY <3>3, <3>4
  <2>3. CASE wnCtl' = [wnCtl EXCEPT !.paused = TRUE] \/ wnCtl' = [wnCtl EXCEPT !.up = FALSE]
    <3>1. PICK d : d = wnCtl'
      OBVIOUS
    <3>2. /\ DOMAIN d = DOMAIN wnCtl /\ d.creds = wnCtl.creds /\ d.lib = wnCtl.lib
          /\ d.up \in {wnCtl.up, FALSE} /\ d.paused \in BOOLEAN
          /\ d.runtime = wnCtl.runtime /\ d.images = wnCtl.images
          /\ d.default = wnCtl.default /\ d.recent = wnCtl.recent
      BY <2>3, <3>1 DEF WnBase, WnTyped, WnCtlTyped
    <3>3. WnOver(d)
      BY ZenonT(60), <3>2, WnSameOver DEF WnOver, WnBase, WnTyped, WnCtlTyped
    <3> QED  BY <3>1, <3>3
  <2> QED  BY <2>1, <2>2, <2>3 DEF Wn!Foreign
<1>3. WnTyped /\ WnTrue /\ WnSpins /\ WnOrdered
  BY DEF WnBase
<1>4. WnTyped'
  BY <1>1, <1>2, <1>3, WnWindowKept DEF WnTyped
<1>5. \A i \in DOMAIN wnQueue' : WnCommandTrue(wnQueue[i])'
  <2> SUFFICES ASSUME NEW i \in DOMAIN wnQueue' PROVE WnCommandTrue(wnQueue[i])'
    OBVIOUS
  <2>1. PICK c : c = wnQueue[i] /\ WnCommandTrue(c)
    BY <1>1, <1>3 DEF WnTrue
  <2>2. WnCommandTrue(c)'
    BY <1>2, <2>1, WnOlder
  <2> QED  BY <1>1, <2>1, <2>2 DEF WnCommandTrue, WnShut
<1>6. \A i \in DOMAIN wnEvents' : WnEventTrue(wnEvents[i])'
  <2> SUFFICES ASSUME NEW i \in DOMAIN wnEvents' PROVE WnEventTrue(wnEvents[i])'
    OBVIOUS
  <2>1. wnEvents[i] \in WnEvents
    BY <1>1, <1>3 DEF WnTyped
  <2>2. PICK e \in WnEvents : e = wnEvents[i] /\ WnEventTrue(e)
    BY <1>1, <1>3, <2>1 DEF WnTrue
  <2>3. WnEventTrue(e)'
    BY <1>2, <2>2, WnOlder
  <2> QED  BY <1>1, <2>2, <2>3 DEF WnEventTrue, WnProfileTrue, WnListTrue, WnShut
<1>7. wnWork'.at = "refresh" => WnListTrue(wnWork.creds)'
  <2>1. PICK l : l = wnWork.creds
    OBVIOUS
  <2>2. wnWork'.at = "refresh" => WnListTrue(l)'
    BY <1>1, <1>2, <1>3, <2>1, WnOlder DEF WnTrue
  <2> QED  BY <1>1, <2>1, <2>2 DEF WnListTrue, WnShut
<1>8. WnTrue'
  BY <1>1, <1>2, <1>5, <1>6, <1>7, WnWindowKept DEF WnTrue
<1>9. WnOrdered'
  BY <1>1, <1>3 DEF WnOrdered
<1>10. WnSpins'
  BY <1>1, <1>3 DEF WnSpins, WnWaits, WnHasOp, WnHasEv, Wn!Ended
<1>11. WnShown'
  BY <1>1, <1>2, WnWindowKept
<1> QED  BY <1>4, <1>8, <1>9, <1>10, <1>11 DEF WnBase

\* Every step of the window, its worker and the Controller keeps the invariant.
LEMMA WnBaseStep == WnBase /\ Wn!WnNext => WnBase'
<1> SUFFICES ASSUME WnBase, Wn!WnNext PROVE WnBase'
  OBVIOUS
<1>1. CASE Wn!Worker
  BY <1>1, WnRefreshBegins, WnRefreshFails, WnRefreshEnds, WnInvites, WnImports, WnChanges, WnShows,
     WnSaves, WnDefaults, WnServes, WnCares, WnShuts DEF Wn!Worker
<1>2. CASE Wn!Events
  BY <1>2, WnOnSnapshot, WnOnInvite, WnOnRest, WnOnProfile, WnOnDefault, WnOnImage, WnOnError,
     WnOnShutdown DEF Wn!Events
<1>3. CASE Wn!User
  BY <1>3, WnInviteClicks, WnCredentialClicks, WnSelects, WnStudioClicks, WnCareClicks DEF Wn!User
<1>4. CASE Wn!RefreshIsDue \/ Wn!McpEnds \/ Wn!Foreign
  BY <1>4, WnRefreshIsDue, WnMcpEnds, WnForeign
<1> QED  BY <1>1, <1>2, <1>3, <1>4 DEF Wn!WnNext

\* The invariant is about these variables alone.
LEMMA WnBaseBeside == WnBase /\ UNCHANGED wnVars => WnBase'
<1> SUFFICES ASSUME WnBase, UNCHANGED <<wnCtl, wnQueue, wnWork, wnEvents, wnWin, wnStudio>> PROVE WnBase'
  BY DEF wnVars
<1>1. WnTyped /\ WnTrue /\ WnOrdered /\ WnShown /\ WnSpins
  BY DEF WnBase
<1>2. WnTyped'
  BY <1>1 DEF WnTyped, WnCtlTyped, WnWinTyped, WnStudioTyped
<1>3. WnTrue'
  BY <1>1 DEF WnTrue, WnCommandTrue, WnEventTrue, WnProfileTrue, WnListTrue, WnShut
<1>4. WnOrdered' /\ WnShown'
  BY <1>1 DEF WnOrdered, WnShown, WnProfileTrue
<1>5. WnSpins'
  BY <1>1 DEF WnSpins, WnWaits, WnHasOp, WnHasEv
<1> QED  BY <1>2, <1>3, <1>4, <1>5 DEF WnBase

\* A window begins with its first refresh on its way and nothing shown.
LEMMA WnInvInit == Init => WnInv
<1> SUFFICES ASSUME Wn!WnInit PROVE WnBase
  BY DEF Init, WnInv
<1>1. PICK c : c = [op |-> "refresh"]
  OBVIOUS
<1>2. /\ wnCtl = [up |-> TRUE, creds |-> <<"open", "closed">>, images |-> {}, runtime |-> FALSE,
              paused |-> FALSE, default |-> 1, recent |-> 2,
              lib |-> [o \in Wn!Outfits |-> Wn!Outfit(IF o = 3 THEN 0 ELSE 1, o, FALSE)]]
      /\ wnQueue = <<c>> /\ wnWork = Wn!Idle /\ wnEvents = <<>>
      /\ wnStudio = [catalog |-> [o \in Wn!Outfits |-> 0], default |-> 1, recent |-> Wn!None,
                 images |-> {}, sel |-> Wn!None, profile |-> Wn!NoProfile, draft |-> Wn!NoDraft,
                 image |-> FALSE, texture |-> FALSE, rendering |-> FALSE,
                 loading |-> FALSE, busy |-> FALSE]
  BY <1>1 DEF Wn!WnInit, Wn!BuiltIn
<1>3. /\ DOMAIN wnWin = {"refreshing", "creds", "selected", "confirm", "open", "inviting", "importing",
                     "tried", "importError", "runtime", "default", "kit", "exporting", "paused",
                     "armed", "mcp", "exit", "acceptance", "page"}
      /\ wnWin.refreshing = TRUE /\ wnWin.inviting = FALSE /\ wnWin.importing = FALSE
      /\ wnWin.exporting = FALSE /\ wnWin.exit = FALSE /\ wnWin.creds = <<>> /\ wnWin.confirm = <<>>
  BY DEF Wn!WnInit
<1>4. 1 \in Wn!Outfits /\ 2 \in Wn!Outfits
  BY DEF Wn!Outfits
<1>5. \A o \in Wn!Outfits : /\ wnCtl.lib[o] \in WnOutfits /\ wnCtl.lib[o].from = o
                            /\ wnCtl.lib[o].rev \in Nat
  BY <1>2 DEF WnOutfits, Wn!Outfit
<1>6. WnCtlTyped
  <2>1. wnCtl.creds \in Seq(WnStates)
    BY <1>2 DEF WnStates
  <2>2. wnCtl.lib \in [Wn!Outfits -> WnOutfits]
    BY <1>2, <1>5
  <2>3. /\ DOMAIN wnCtl = {"up", "creds", "images", "runtime", "paused", "default", "recent", "lib"}
        /\ wnCtl.up \in BOOLEAN /\ wnCtl.runtime \in BOOLEAN /\ wnCtl.paused \in BOOLEAN
        /\ wnCtl.images \in SUBSET {1} /\ wnCtl.default \in Wn!Outfits /\ wnCtl.recent \in Wn!Outfits
    BY <1>2, <1>4
  <2> QED  BY <2>1, <2>2, <2>3 DEF WnCtlTyped
<1>7. WnWinTyped
  <2>1. <<>> \in Seq(WnStates)
    OBVIOUS
  <2>2. wnWin.creds \in Seq(WnStates)
    BY <1>3, <2>1
  <2> QED  BY <1>3, <2>2 DEF WnWinTyped
<1>8. WnStudioTyped
  BY <1>2, <1>4 DEF WnStudioTyped, Wn!NoDraft
<1>9. wnQueue \in Seq(WnCommands) /\ DOMAIN wnQueue = {1} /\ wnQueue[1] = c /\ WnCommandTrue(c)
  <2>1. c \in WnCommands /\ c.op = "refresh"
    BY <1>1 DEF WnCommands
  <2> QED  BY <1>2, <2>1 DEF WnCommandTrue
<1>10. wnEvents \in Seq(WnEvents) /\ DOMAIN wnEvents = {}
  BY <1>2
<1>11. WnTyped
  BY <1>2, <1>6, <1>7, <1>8, <1>9, <1>10 DEF WnTyped
<1>12. WnTrue
  <2>1. \A o \in Wn!Outfits : wnStudio.catalog[o] <= wnCtl.lib[o].rev
    <3>1. \A o \in Wn!Outfits : wnStudio.catalog[o] = 0
      BY <1>2
    <3> QED  BY <1>5, <3>1
  <2>2. WnListTrue(wnWin.creds)
    BY <1>3 DEF WnListTrue
  <2>3. \A i : wnWin.confirm # <<"delete", i>>
    BY <1>3
  <2>4. wnWork.at # "refresh"
    BY <1>2, WnKinds
  <2> QED  BY <1>3, <1>5, <1>9, <1>10, <2>1, <2>2, <2>3, <2>4 DEF WnTrue
<1>13. WnOrdered
  BY <1>10 DEF WnOrdered
<1>14. WnShown
  BY <1>2 DEF WnShown
<1>15. WnSpins
  <2>1. wnQueue # <<>>
    <3>1. DOMAIN <<>> = {}
      OBVIOUS
    <3> QED  BY <1>9, <3>1
  <2>2. ~wnStudio.busy /\ ~wnStudio.loading /\ ~wnStudio.rendering
    BY <1>2
  <2> QED  BY <1>3, <2>1, <2>2 DEF WnSpins
<1> QED  BY <1>11, <1>12, <1>13, <1>14, <1>15 DEF WnBase

\* Every step keeps the invariant.
LEMMA WnInvStep == WnInv /\ [Next]_vars => WnInv'
<1> SUFFICES ASSUME WnInv, [Next]_vars, focus' = "window" PROVE WnBase'
  BY DEF WnInv
<1>1. focus = "window" /\ (Wn!WnNext \/ UNCHANGED wnVars)
  BY DEF Next, vars, ManagedFsStep, TcpForwardStep, SitePathStep, MachineServiceStep,
     SingleInstanceStep, SiteKitStep, FsQueryStep, InnerSessionStep, ControllerWindowStep,
     LocalCallsStep
<1>2. WnBase
  BY <1>1 DEF WnInv
<1> QED  BY <1>1, <1>2, WnBaseStep, WnBaseBeside

\* Nothing turns when nothing is on its way.
LEMMA WnBaseEnds == WnBase => Wn!SpinnersEnd
<1> SUFFICES ASSUME WnBase, wnQueue = <<>>, wnEvents = <<>>, wnWork = Wn!Idle
             PROVE  /\ ~(wnWin.refreshing \/ wnWin.inviting \/ wnWin.importing \/ wnWin.exporting)
                    /\ ~(wnStudio.busy \/ wnStudio.loading \/ wnStudio.rendering)
  BY DEF Wn!SpinnersEnd, Wn!Quiet
<1>1. wnWork # Wn!Ended /\ wnWork.at # "refresh"
  BY WnKinds
<1>2. \A ops, evs : ~WnWaits(ops, evs)
  BY <1>1 DEF WnWaits, WnHasOp, WnHasEv
<1> QED  BY <1>1, <1>2 DEF WnBase, WnSpins

\* When all is quiet, a catalog that is the Controller's makes the profile the
\* Controller's.
LEMMA WnBaseFollows == WnBase => Wn!StudioFollowsLibrary
<1> SUFFICES ASSUME WnBase PROVE Wn!StudioFollowsLibrary
  OBVIOUS
<1>1. \A i \in DOMAIN wnQueue : wnQueue[i].op = "update" => wnQueue[i].of = wnQueue[i].id
  BY DEF WnBase, WnTrue, WnCommandTrue
<1>2. ASSUME wnStudio.profile # Wn!NoProfile, \A o \in Wn!Outfits : wnStudio.catalog[o] = wnCtl.lib[o].rev
      PROVE  wnStudio.profile.rev = wnCtl.lib[wnStudio.profile.id].rev
  <2>1. PICK p \in WnProfiles : p = wnStudio.profile
    BY <1>2 DEF WnBase, WnTyped, WnStudioTyped
  <2>2. p.id \in Wn!Outfits /\ p.rev \in Nat /\ wnCtl.lib[p.id].rev \in Nat
    BY <2>1, WnKinds DEF WnBase, WnTyped, WnCtlTyped
  <2>3. wnCtl.lib[p.id].rev <= p.rev /\ p.rev <= wnCtl.lib[p.id].rev
    BY <1>2, <2>1, <2>2 DEF WnBase, WnShown, WnProfileTrue
  <2> QED  BY <2>1, <2>2, <2>3
<1> QED  BY <1>1, <1>2 DEF Wn!StudioFollowsLibrary, WnBase, WnTrue

\* For any number of clicks, commands, events, failures and changes by other
\* clients: no spinner outlasts what it waits for, an edit goes into the outfit it
\* was drafted on and what is shown is the Controller's, no open credential is
\* about to be deleted, and a window that closed left nothing running.
THEOREM WindowIsTrueThm == Spec => []WindowIsTrue
<1>1. WnInv => WindowIsTrue
  <2> SUFFICES ASSUME WnBase
               PROVE  /\ Wn!SpinnersEnd /\ Wn!StudioFollowsLibrary
                      /\ Wn!DeletesOnlyTheClosed /\ Wn!ExitIsClean
    BY DEF WnInv, WindowIsTrue
  <2>1. Wn!DeletesOnlyTheClosed
    BY DEF WnBase, WnTrue, WnCommandTrue, WnShut, Wn!DeletesOnlyTheClosed
  <2>2. Wn!ExitIsClean
    BY DEF WnBase, WnTrue, Wn!ExitIsClean
  <2> QED  BY <2>1, <2>2, WnBaseEnds, WnBaseFollows
<1> QED  BY <1>1, WnInvInit, WnInvStep, PTL DEF Spec
=============================================================================
