------------------------------ MODULE FsQuery ------------------------------
(***************************************************************************)
(* Reading a Host's file system in pages: an application asks the          *)
(* Controller's local API for the next page of a glob, a grep or a file,   *)
(* the Controller authorizes the call and forwards it to the device's      *)
(* session, and the Host walks its tree step by step while others change   *)
(* it.  The only thing that ties two pages together is a cursor: the       *)
(* number of matches already consumed.                                     *)
(*                                                                         *)
(* A path is the sequence of its names.  The name 3 stands for a name that *)
(* is not valid UTF-8.  The length of an encoded reply is that of its      *)
(* paths and lines, of its envelope and of the digits of scanned_bytes.    *)
(***************************************************************************)
EXTENDS Naturals, Sequences, SequencesExt

CONSTANTS MaxEntries,   \* HARD_MAX_FS_SCAN_ENTRIES
          MaxLine,      \* HARD_MAX_GREP_LINE_BYTES
          HardBytes,    \* HARD_MAX_READ_RESULT_BYTES
          PolicyBytes,  \* max_result_bytes of the Site's policy
          MaxFaults     \* lost sessions, timeouts and changes of the tree

VARIABLES fqTree,    \* [Paths -> kinds]
          fqAsk,     \* what the application pages through
          fqCursor,  \* its cursor
          fqDone,    \* "no", or why it stops: "last" page or "refused"
          fqGiven,   \* all it was given, in the order of the pages
          fqCall,    \* its call: "idle", "waiting" for a session, or "sent"
          fqWork,    \* the command that the session executes
          fqScan,    \* the Host's walk
          fqAllowed, \* the device is not revoked
          fqQuiet,   \* the tree never changed
          fqFaults

fqVars == <<fqTree, fqAsk, fqCursor, fqDone, fqGiven, fqCall, fqWork, fqScan,
            fqAllowed, fqQuiet, fqFaults>>

AnyDepth == 0   \* "**"
AnyName == 9    \* "*"

Root == <<>>
Paths == {Root, <<1>>, <<2>>, <<3>>, <<1, 1>>, <<1, 2>>}

\* The lines of a regular file: their lengths, and whether the expression
\* matches.  "raw" holds a match that is not UTF-8, "wide" a line that is
\* longer than the line bound.
Lines(kind) ==
  CASE kind = "text" -> <<[size |-> 1, hit |-> TRUE, utf8 |-> TRUE],
                          [size |-> 2, hit |-> FALSE, utf8 |-> TRUE],
                          [size |-> 1, hit |-> TRUE, utf8 |-> TRUE]>>
    [] kind = "raw" -> <<[size |-> 1, hit |-> TRUE, utf8 |-> FALSE]>>
    [] kind = "wide" -> <<[size |-> MaxLine + 1, hit |-> TRUE, utf8 |-> TRUE]>>

Files == {"text", "raw", "wide"}

Shapes ==
  {t \in [Paths -> {"none", "dir", "link"} \cup Files] :
     /\ t[Root] = "dir"
     /\ t[<<1>>] \in {"dir", "text", "link"}
     /\ t[<<2>>] \in {"none", "text", "dir"}
     /\ t[<<3>>] \in {"none", "text"}
     /\ t[<<1, 1>>] \in {"none", "text", "raw"}
     /\ t[<<1, 2>>] \in {"none", "wide", "text"}
     /\ t[<<1>>] # "dir" => t[<<1, 1>>] = "none" /\ t[<<1, 2>>] = "none"
     /\ t[<<3>>] = "text" => t[<<2>>] = "none"}

\* limit and bytes bound a page, scan what a grep may read for it.
Glob(root, pattern, limit, bytes) ==
  [kind |-> "glob", root |-> root, pattern |-> pattern, limit |-> limit,
   bytes |-> bytes, scan |-> 1]

Grep(root, include, limit, bytes, scan) ==
  [kind |-> "grep", root |-> root, pattern |-> include, limit |-> limit,
   bytes |-> bytes, scan |-> scan]

ReadFile(path, limit) ==
  [kind |-> "read", root |-> path, pattern |-> <<>>, limit |-> limit,
   bytes |-> limit, scan |-> 1]

PathInfo(path) ==
  [kind |-> "path_info", root |-> path, pattern |-> <<>>, limit |-> 1,
   bytes |-> 1, scan |-> 1]

Asks ==
  {Glob(Root, p, l, b) : p \in {<<AnyDepth>>, <<AnyName>>, <<AnyDepth, 2>>},
                         l \in 1..2, b \in {3, HardBytes}}
  \cup {Grep(r, p, l, b, s) : r \in {Root, <<1>>}, l \in 1..2,
          b \in {3, HardBytes}, s \in {4, 9},
          p \in {<<AnyDepth>>, <<AnyName, 2>>}}
  \cup {Glob(<<1>>, <<AnyName>>, 1, PolicyBytes + 1)}
  \cup {ReadFile(<<1>>, l) : l \in {2, HardBytes + 1}}
  \cup {PathInfo(<<p>>) : p \in 1..2}

NoScan == [root |-> Root, queue |-> <<>>, kids |-> <<>>, visited |-> {},
           scanned |-> 0, bytes |-> 0, matched |-> 0, found |-> <<>>,
           file |-> Root, text |-> "none", line |-> 0]

NoWork == [stage |-> "none", mine |-> FALSE, cursor |-> 0, reply |-> <<>>]

FqInit ==
  /\ fqTree \in Shapes
  /\ fqAsk \in Asks
  /\ fqCursor = 0
  /\ fqDone = "no"
  /\ fqGiven = <<>>
  /\ fqCall = "idle"
  /\ fqWork = NoWork
  /\ fqScan = NoScan
  /\ fqAllowed = TRUE
  /\ fqQuiet = TRUE
  /\ fqFaults = 0

-----------------------------------------------------------------------------
(* Matching a relative path                                                *)

WildcardSegmentMatches(pattern, name) == pattern \in {AnyName, name}

\* The table of the code: matched[<<i, j>>] says that the first i segments of
\* the pattern match the first j names of the path.
GlobMatches(pattern, path) ==
  LET matched[c \in (0..Len(pattern)) \X (0..Len(path))] ==
        LET i == c[1] j == c[2] IN
        \/ i = 0 /\ j = 0
        \/ i > 0 /\ pattern[i] = AnyDepth /\ matched[<<i - 1, j>>]
        \/ /\ j > 0 /\ i < Len(pattern) /\ pattern[i + 1] = AnyDepth
           /\ matched[<<i, j - 1>>]
        \/ /\ i > 0 /\ j > 0 /\ pattern[i] # AnyDepth
           /\ WildcardSegmentMatches(pattern[i], path[j])
           /\ matched[<<i - 1, j - 1>>]
  IN matched[<<Len(pattern), Len(path)>>]

\* What a pattern means: the path can be cut into consecutive pieces, one per
\* segment, any piece for "**" and one matching name for any other.
Denotes(pattern, path) ==
  \E cut \in [0..Len(pattern) -> 0..Len(path)] :
    /\ cut[0] = 0 /\ cut[Len(pattern)] = Len(path)
    /\ \A i \in 1..Len(pattern) :
         /\ cut[i - 1] <= cut[i]
         /\ pattern[i] # AnyDepth =>
              /\ cut[i] = cut[i - 1] + 1
              /\ WildcardSegmentMatches(pattern[i], path[cut[i]])

Relative(root, path) == SubSeq(path, Len(root) + 1, Len(path))

-----------------------------------------------------------------------------
(* Replies                                                                 *)

Width(n) == IF n < 4 THEN 1 ELSE 2
Envelope == 1

SizeOf(items, scanned) ==
  FoldSeq(LAMBDA item, n : n + Len(item.path), 0, items) + Width(scanned)

FsError(code) ==
  [kind |-> "error", code |-> code, items |-> <<>>, truncated |-> FALSE,
   scanned |-> 0]

Data(items, truncated) ==
  [kind |-> fqAsk.kind, code |-> "ok", items |-> items,
   truncated |-> truncated, scanned |-> 0]

Page(scan, truncated) ==
  [Data(scan.found, truncated) EXCEPT !.scanned = scan.bytes]

NextCursor(cursor, page) == cursor + Len(page.items)

PayloadSize(reply) == Envelope + SizeOf(reply.items, reply.scanned)

\* The Host's answer is ready; a page that outgrew the wire's bound while the
\* rest of it was scanned ends the session instead.
Answer(reply) ==
  /\ fqScan' = NoScan
  /\ fqWork' = IF fqAsk.kind # "read" /\ PayloadSize(reply) > HardBytes
               THEN NoWork
               ELSE [fqWork EXCEPT !.stage = "reply", !.reply = reply]
  /\ fqCall' = IF fqWork'.stage = "none" /\ fqWork.mine
               THEN "waiting" ELSE fqCall

-----------------------------------------------------------------------------
(* The local API and the hub                                               *)

\* The application's bounds are checked before anything else.
ValidQuery(ask) ==
  ask.kind = "path_info" \/ (ask.limit > 0 /\ ask.bytes \in 1..HardBytes)

ValidRead(ask) == ask.limit \in 1..HardBytes

\* Then the device's record, its grant and the Site's policy.
QueryPermitted(ask) ==
  fqAllowed /\ (ask.kind = "path_info" \/ ask.bytes <= PolicyBytes)

ReadPermitted(ask) == fqAllowed /\ ask.limit <= PolicyBytes

Forwarded(ask) ==
  IF ask.kind = "read" THEN ValidRead(ask) /\ ReadPermitted(ask)
                       ELSE ValidQuery(ask) /\ QueryPermitted(ask)

\* fs_query_response and read_response authorize under the store's lock and
\* forward after it is released: later revocations do not reach this call.
AskPage ==
  /\ fqCall = "idle" /\ fqDone = "no" /\ Forwarded(fqAsk)
  /\ fqCall' = "waiting"
  /\ UNCHANGED <<fqTree, fqAsk, fqCursor, fqDone, fqGiven, fqWork, fqScan, fqAllowed,
                 fqQuiet, fqFaults>>

\* A refused call is told so at once and changes nothing.
RefuseAsk ==
  /\ fqCall = "idle" /\ fqDone = "no" /\ ~Forwarded(fqAsk)
  /\ fqDone' = "refused"
  /\ UNCHANGED <<fqTree, fqAsk, fqCursor, fqGiven, fqCall, fqWork, fqScan, fqAllowed,
                 fqQuiet, fqFaults>>

\* canonical_allowed: the policy's roots do not cover the path 2.
PathAccess(path) ==
  IF fqTree[path] = "none" THEN "NotFound"
  ELSE IF path = <<2>> THEN "Denied" ELSE "ok"

\* The link leads back to the root of the tree.
Canonical(path) == IF fqTree[path] = "link" THEN Root ELSE path

\* A read may return less than it was asked for, and nothing only at the end.
ReadOnce(path, cursor) ==
  LET size == IF fqTree[path] \in Files THEN Len(Lines(fqTree[path])) ELSE 0
  IN IF fqTree[path] \notin Files THEN {FsError("NotFile")}
     ELSE IF cursor >= size THEN {Data(<<>>, FALSE)}
     ELSE {Data([i \in 1..n |-> [path |-> path, line |-> cursor + i]], TRUE) :
             n \in {k \in 1..fqAsk.limit : cursor + k <= size}}

PathInfoOnce(path) ==
  {Data(<<[path |-> path, line |-> fqTree[path]]>>, FALSE)}

\* The Host holds the same policy, and checks it again.
HostPermitsQuery(ask) ==
  ValidQuery(ask) /\ (ask.kind = "path_info" \/ ask.bytes <= PolicyBytes)

HostPermitsRead(ask) == ValidRead(ask) /\ ask.limit <= PolicyBytes

\* What is answered without a walk.
Immediate(cursor) ==
  LET path == Canonical(fqAsk.root) IN
  CASE ~(IF fqAsk.kind = "read" THEN HostPermitsRead(fqAsk)
                                ELSE HostPermitsQuery(fqAsk)) ->
         {FsError("InvalidRequest")}
    [] PathAccess(fqAsk.root) # "ok" -> {FsError(PathAccess(fqAsk.root))}
    [] fqAsk.kind = "path_info" -> PathInfoOnce(path)
    [] fqAsk.kind = "read" -> ReadOnce(path, cursor)
    [] fqAsk.kind = "glob" /\ fqTree[path] # "dir" ->
         {FsError("NotDirectory")}
    [] OTHER -> {}

\* A walk begins at a directory, a grep also at a single file.
Begun(path) ==
  [NoScan EXCEPT
     !.root = path, !.text = fqTree[path], !.visited = {path},
     !.queue = IF fqTree[path] = "dir" THEN <<path>> ELSE <<>>,
     !.file = IF /\ fqTree[path] # "dir"
                 /\ GlobMatches(fqAsk.pattern, <<Last(path)>>)
              THEN path ELSE Root]

\* The session takes the next command and the Host starts to execute it.
\* The Host answers one command at a time, so a call whose predecessor was
\* given up waits for the predecessor's answer.
Execute ==
  LET work == [stage |-> "running", mine |-> TRUE, cursor |-> fqCursor,
               reply |-> <<>>]
  IN
  /\ fqCall = "waiting" /\ fqWork.stage = "none"
  /\ fqCall' = "sent"
  /\ \/ \E reply \in Immediate(fqCursor) :
          /\ fqWork' = [work EXCEPT !.stage = "reply", !.reply = reply]
          /\ UNCHANGED fqScan
     \/ /\ Immediate(fqCursor) = {}
        /\ fqWork' = work
        /\ fqScan' = Begun(Canonical(fqAsk.root))
  /\ UNCHANGED <<fqTree, fqAsk, fqCursor, fqDone, fqGiven, fqAllowed, fqQuiet,
                 fqFaults>>

\* The Controller's own checks: a page that is larger than the application
\* allowed is not passed on.
QueryAccepted(reply) ==
  reply.kind = "path_info" \/ SizeOf(reply.items, reply.scanned) <= fqAsk.bytes

ReadAccepted(reply) == Len(reply.items) <= HardBytes

Accepts(reply) ==
  /\ reply.kind = fqAsk.kind
  /\ IF reply.kind = "read" THEN ReadAccepted(reply) ELSE QueryAccepted(reply)

\* The reply goes to the call that waits for it, one activity record is
\* written as well as it can be, and the application moves its cursor.  The
\* reply to a call that timed out goes nowhere.
Deliver ==
  LET reply == fqWork.reply
      given == fqWork.mine /\ Accepts(reply)
      more  == reply.truncated
  IN
  /\ fqWork.stage = "reply"
  /\ fqWork' = NoWork
  /\ fqCall' = IF fqWork.mine THEN "idle" ELSE fqCall
  /\ fqGiven' = IF given THEN fqGiven \o reply.items ELSE fqGiven
  /\ fqCursor' = IF given /\ more THEN NextCursor(fqWork.cursor, reply)
                                   ELSE fqCursor
  /\ fqDone' = IF given /\ ~more THEN "last" ELSE fqDone
  /\ UNCHANGED <<fqTree, fqAsk, fqScan, fqAllowed, fqQuiet, fqFaults>>

-----------------------------------------------------------------------------
(* The Host's walk                                                         *)

Walks(kind) ==
  /\ fqWork.stage = "running" /\ fqAsk.kind = kind
  /\ UNCHANGED <<fqTree, fqAsk, fqCursor, fqDone, fqGiven, fqAllowed, fqQuiet,
                 fqFaults>>

Goes(scan) == fqScan' = scan /\ UNCHANGED <<fqWork, fqCall>>

Children(dir) ==
  {p \in Paths : Len(p) = Len(dir) + 1 /\ IsPrefix(dir, p)
                 /\ fqTree[p] # "none"}

\* One directory is listed as a whole, in the order of its names, with what
\* each entry is.
ReadDir(kind) ==
  LET dir == Head(fqScan.queue)
      sorted == SetToSortSeq(Children(dir), LAMBDA p, q : Last(p) < Last(q))
  IN
  /\ Walks(kind)
  /\ fqScan.kids = <<>> /\ fqScan.file = Root /\ fqScan.queue # <<>>
  /\ IF fqTree[dir] = "none" THEN Answer(FsError("Io"))
     ELSE Goes([fqScan EXCEPT !.queue = Tail(@),
                  !.kids = [i \in 1..Len(sorted) |->
                              [path |-> sorted[i],
                               kind |-> fqTree[sorted[i]]]]])

GlobDir == ReadDir("glob")
GrepDir == ReadDir("grep")

Counted == [fqScan EXCEPT !.kids = Tail(@), !.scanned = @ + 1]

Descends(e) ==
  e.kind = "dir" /\ fqTree[e.path] # "none" /\ e.path \notin fqScan.visited

Queued(scan, e) ==
  IF Descends(e)
  THEN [scan EXCEPT !.queue = Append(@, e.path), !.visited = @ \cup {e.path}]
  ELSE scan

BadName(e) == Last(e.path) = 3

\* What is done with a match that the cursor does not skip: the page may be
\* full by its items or by its bytes, and otherwise grows by the match.
Take(scan, item) ==
  LET bigger == Append(scan.found, item) IN
  IF Len(scan.found) >= fqAsk.limit THEN Answer(Page(scan, TRUE))
  ELSE IF Envelope + SizeOf(bigger, scan.bytes) > fqAsk.bytes
  THEN IF scan.found = <<>> THEN Answer(FsError("InvalidRequest"))
       ELSE Answer(Page(scan, TRUE))
  ELSE Goes([scan EXCEPT !.found = bigger])

SkipsOneLess(matched, cursor) == matched < cursor

Skips(matched, cursor) == matched <= cursor

\* One entry of the listed directory.  Its metadata is looked up only when it
\* is going to be part of the page.
GlobEntry ==
  LET e == Head(fqScan.kids)
      scan == Queued(Counted, e)
      hit == [scan EXCEPT !.matched = @ + 1]
  IN
  /\ Walks("glob") /\ fqScan.kids # <<>>
  /\ IF Counted.scanned > MaxEntries THEN Answer(FsError("ScanLimit"))
     ELSE IF BadName(e) THEN Goes(Counted)
     ELSE IF ~GlobMatches(fqAsk.pattern, Relative(fqScan.root, e.path))
     THEN Goes(scan)
     ELSE IF Skips(hit.matched, fqWork.cursor) THEN Goes(hit)
     ELSE IF Len(hit.found) < fqAsk.limit /\ fqTree[e.path] = "none"
     THEN Answer(FsError("Io"))
     ELSE Take(hit, [path |-> e.path, line |-> e.kind])

GrepEntry ==
  LET e == Head(fqScan.kids)
      scan == Queued(Counted, e)
  IN
  /\ Walks("grep") /\ fqScan.kids # <<>> /\ fqScan.file = Root
  /\ IF Counted.scanned > MaxEntries THEN Answer(FsError("ScanLimit"))
     ELSE IF BadName(e) THEN Goes(Counted)
     ELSE IF e.kind \notin Files
             \/ ~GlobMatches(fqAsk.pattern, Relative(fqScan.root, e.path))
     THEN Goes(scan)
     ELSE IF fqTree[e.path] \notin Files THEN Answer(FsError("Io"))
     ELSE Goes([scan EXCEPT !.file = e.path, !.text = fqTree[e.path]])

\* read_bounded_line: a line that does not fit the rest of the budget stops
\* the call, and what was found for its page is lost.
LineRead(size) ==
  LET remaining == fqAsk.scan - fqScan.bytes IN
  IF size > MaxLine /\ remaining > MaxLine THEN "ContentLimit"
  ELSE IF size > remaining THEN "ScanLimit" ELSE "ok"

\* An open file is read to its end even when it is deleted meanwhile.
GrepLine ==
  LET lines == Lines(fqScan.text)
      line == lines[fqScan.line + 1]
      read == [fqScan EXCEPT !.line = @ + 1, !.bytes = @ + line.size]
      hit  == [read EXCEPT !.matched = @ + 1]
  IN
  /\ Walks("grep") /\ fqScan.file # Root
  /\ IF fqScan.line = Len(lines)
     THEN Goes([fqScan EXCEPT !.file = Root, !.text = "none", !.line = 0])
     ELSE IF LineRead(line.size) # "ok"
     THEN Answer(FsError(LineRead(line.size)))
     ELSE IF ~line.hit THEN Goes(read)
     ELSE IF Skips(hit.matched, fqWork.cursor) THEN Goes(hit)
     ELSE IF Len(hit.found) < fqAsk.limit /\ ~line.utf8
     THEN Answer(FsError("ContentLimit"))
     ELSE Take(hit, [path |-> fqScan.file, line |-> hit.line])

\* Nothing is left to walk: the page is the last one.
LastPage ==
  /\ fqWork.stage = "running"
  /\ fqScan.queue = <<>> /\ fqScan.kids = <<>> /\ fqScan.file = Root
  /\ Answer(Page(fqScan, FALSE))
  /\ UNCHANGED <<fqTree, fqAsk, fqCursor, fqDone, fqGiven, fqAllowed, fqQuiet,
                 fqFaults>>

-----------------------------------------------------------------------------
(* What goes wrong                                                         *)

Fault == fqFaults < MaxFaults /\ fqFaults' = fqFaults + 1

\* execute and execute_fs_query give up after the policy's timeout.
HostTimeout ==
  /\ Fault /\ fqWork.stage = "running"
  /\ Answer(FsError("Timeout"))
  /\ UNCHANGED <<fqTree, fqAsk, fqCursor, fqDone, fqGiven, fqAllowed, fqQuiet>>

\* The Controller gives up two seconds later.  The command stays with the
\* session, which waits for its answer.
CallTimeout ==
  /\ Fault /\ fqCall \in {"waiting", "sent"}
  /\ fqCall' = "idle"
  /\ fqWork' = [fqWork EXCEPT !.mine = FALSE]
  /\ UNCHANGED <<fqTree, fqAsk, fqCursor, fqDone, fqGiven, fqScan, fqAllowed,
                 fqQuiet>>

\* The session ends: RemoteHub::fs_query sends the same request to the next.
SessionLost ==
  /\ Fault /\ fqWork.stage # "none"
  /\ fqCall' = IF fqWork.mine THEN "waiting" ELSE fqCall
  /\ fqWork' = NoWork
  /\ fqScan' = NoScan
  /\ UNCHANGED <<fqTree, fqAsk, fqCursor, fqDone, fqGiven, fqAllowed, fqQuiet>>

Revoke ==
  /\ Fault /\ fqAllowed
  /\ fqAllowed' = FALSE
  /\ UNCHANGED <<fqTree, fqAsk, fqCursor, fqDone, fqGiven, fqCall, fqWork, fqScan,
                 fqQuiet>>

\* Somebody else deletes an entry that has nothing below it.
Change ==
  /\ Fault
  /\ \E p \in Paths \ {Root} :
       /\ fqTree[p] # "none" /\ Children(p) = {}
       /\ fqTree' = [fqTree EXCEPT ![p] = "none"]
  /\ fqQuiet' = FALSE
  /\ UNCHANGED <<fqAsk, fqCursor, fqDone, fqGiven, fqCall, fqWork, fqScan, fqAllowed>>

FqNext ==
  \/ AskPage
  \/ RefuseAsk
  \/ Execute
  \/ Deliver
  \/ GlobDir
  \/ GrepDir
  \/ GlobEntry
  \/ GrepEntry
  \/ GrepLine
  \/ LastPage
  \/ HostTimeout
  \/ CallTimeout
  \/ SessionLost
  \/ Revoke
  \/ Change

FqSpec == FqInit /\ [][FqNext]_fqVars

-----------------------------------------------------------------------------
(* Properties                                                              *)

\* Breadth first, and by name in a directory.
Before(p, q) ==
  \/ Len(p) < Len(q)
  \/ /\ Len(p) = Len(q)
     /\ \E i \in 1..Len(p) : p[i] < q[i] /\ \A j \in 1..(i - 1) : p[j] = q[j]

\* All that a walk can reach: no walk leaves the tree through a link or
\* enters a directory whose name it cannot write down.
Reached(root) ==
  {p \in Paths : /\ Len(p) > Len(root) /\ IsPrefix(root, p)
                 /\ fqTree[p] # "none" /\ Last(p) # 3
                 /\ \A i \in (Len(root) + 1)..(Len(p) - 1) :
                      fqTree[SubSeq(p, 1, i)] = "dir"}

Hits(path) ==
  LET numbered == [i \in 1..Len(Lines(fqTree[path])) |->
                     [path |-> path, line |-> i]]
  IN SelectSeq(numbered, LAMBDA it : Lines(fqTree[path])[it.line].hit)

\* What the application asked for, said without a walk.
Wanted ==
  LET root == Canonical(fqAsk.root)
      found == SetToSortSeq({p \in Reached(root) :
                               Denotes(fqAsk.pattern, Relative(root, p))},
                            Before)
      files == SelectSeq(found, LAMBDA p : fqTree[p] \in Files)
  IN CASE fqAsk.kind = "glob" ->
            [i \in 1..Len(found) |->
               [path |-> found[i], line |-> fqTree[found[i]]]]
       [] fqAsk.kind = "grep" /\ fqTree[root] = "dir" ->
            FlattenSeq([i \in 1..Len(files) |-> Hits(files[i])])
       [] fqAsk.kind = "grep" ->
            IF Denotes(fqAsk.pattern, <<Last(root)>>) THEN Hits(root)
                                                      ELSE <<>>
       [] fqAsk.kind = "read" /\ fqTree[root] \in Files ->
            [i \in 1..Len(Lines(fqTree[root])) |->
               [path |-> root, line |-> i]]
       [] fqAsk.kind = "path_info" ->
            <<[path |-> root, line |-> fqTree[root]]>>
       [] OTHER -> <<>>

\* Pages put together are what was asked for: while the tree does not change
\* they are a prefix of the matches in walk order, without a gap or a
\* repetition whatever bound cut the pages and whichever call was repeated,
\* and the page that says it is the last completes them.  Even while the tree
\* changes one page is in walk order, and a page that promises another one is
\* not empty, so that paging moves on.
PagesAreExact ==
  /\ fqQuiet => /\ IsPrefix(fqGiven, Wanted)
                /\ fqDone = "last" => fqGiven = Wanted
  /\ \A i \in 1..Len(fqScan.found), j \in 1..Len(fqScan.found) :
       i < j => LET p == fqScan.found[i] q == fqScan.found[j] IN
                \/ Before(p.path, q.path)
                \/ p.path = q.path /\ fqAsk.kind = "grep" /\ p.line < q.line
  /\ fqWork.stage = "reply" /\ fqWork.reply.kind # "error"
       /\ fqWork.reply.truncated => fqWork.reply.items # <<>>

\* A reply is never longer than the caller's byte bound, since every item is
\* checked against it before it becomes part of the page.
PayloadWithinBudget ==
  fqWork.stage = "reply" /\ fqWork.reply.kind \in {"glob", "grep"}
    => PayloadSize(fqWork.reply) <= fqAsk.bytes
=============================================================================
