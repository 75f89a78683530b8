-------------------------- MODULE BuildOrderProofs --------------------------
(***************************************************************************)
(* The order of a build whose graph is not rewritten: every node is asked  *)
(* for once, after all it depends on, and is known until it has its        *)
(* result.  The requests and results are followed through the lines in     *)
(* which they wait (Line); a step of the scheduler or of a worker moves    *)
(* them (Moved), takes one away, or, in ConvertNodesToRequests, adds some. *)
(* From the order follows which RPMs exist: what a build installs, and     *)
(* what a build that returns no error leaves; and from the order of the    *)
(* channel, which tests are skipped.  That the scheduler does not give up  *)
(* too early is WakeInv: no wakeup is lost; that copies of an RPM do not   *)
(* mix, CopyInv.                                                           *)
(***************************************************************************)
EXTENDS SchedulerProofs

-----------------------------------------------------------------------------
\* The same request, whatever came of it so far.
Alike(j, k) ==
    /\ j.node = k.node /\ j.ancillary = k.ancillary
    /\ "UseCache" \in j.flags <=> "UseCache" \in k.flags

\* M has what L has, each request in a place of its own, without those of `gone'.
Moved(L, M, gone) ==
    \E f \in [Places(M) -> Places(L) \ gone] :
        /\ \A p, q \in Places(M) : f[p] = f[q] => p = q
        /\ \A p \in Places(M) : Alike(At(M, p), At(L, f[p]))

\* M is L without the first of line c.
Dropped(L, M, c) ==
    /\ L[c] # <<>>
    /\ \A e \in LineNames : M[e] = IF e = c THEN Tail(L[c]) ELSE L[e]

\* M is L with the first of line c at the end of line d.
Passed(L, M, c, d) ==
    /\ L[c] # <<>>
    /\ \A e \in LineNames :
          M[e] = IF e = c THEN Tail(L[c])
                 ELSE IF e = d THEN Append(L[d], Head(L[c])) ELSE L[e]

\* What is in each of the lines.
LEMMA LineValues ==
  ASSUME NEW new, NEW req, NEW prio, NEW res, NEW busy, NEW jobs, NEW L,
         L = LineOf(new, req, prio, res, busy, jobs)
  PROVE  /\ L[Queue("new")] = new /\ L[Queue("requests")] = req
         /\ L[Queue("priority")] = prio /\ L[Queue("results")] = res
         /\ \A w \in Worker : L[Desk(w)] = IF w \in busy THEN <<jobs[w]>> ELSE <<>>
<1> QED BY DEF LineOf, LineNames, Queue, Desk

\* The lines have different names.
LEMMA LineName ==
  /\ \A name \in {"new", "requests", "priority", "results"} : Queue(name) \in LineNames
  /\ \A w \in Worker : Desk(w) \in LineNames
  /\ \A c \in LineNames : \/ \E name \in {"new", "requests", "priority", "results"} : c = Queue(name)
                          \/ \E w \in Worker : c = Desk(w)
  /\ \A a, b : Queue(a) = Queue(b) => a = b
  /\ \A a, b : Desk(a) = Desk(b) => a = b
  /\ \A a, b : Queue(a) # Desk(b)
<1> QED BY DEF LineNames, Queue, Desk

\* Lines of requests, if the queues and the jobs of workers are requests.
LEMMA LineTypes ==
  ASSUME NEW S, NEW new \in Seq(S), NEW req \in Seq(S), NEW prio \in Seq(S), NEW res \in Seq(S),
         NEW busy, NEW jobs \in [Worker -> S]
  PROVE  LineOf(new, req, prio, res, busy, jobs) \in [LineNames -> Seq(S)]
<1>1. \A w \in Worker : <<jobs[w]>> \in Seq(S) /\ <<>> \in Seq(S)
  OBVIOUS
<1>2. ASSUME NEW c \in LineNames
      PROVE  (IF c[1] = "worker" THEN (IF c[2] \in busy THEN <<jobs[c[2]]>> ELSE <<>>)
        ELSE IF c[2] = "new" THEN new
        ELSE IF c[2] = "requests" THEN req
        ELSE IF c[2] = "priority" THEN prio ELSE res) \in Seq(S)
  <2>1. CASE c[1] = "worker"
    <3>1. c[2] \in Worker
      BY <2>1 DEF LineNames
    <3> QED BY <2>1, <3>1, <1>1
  <2>2. CASE c[1] # "worker"
    BY <2>2
  <2> QED BY <2>1, <2>2
<1> QED BY <1>2 DEF LineOf

\* A step that changes no place leaves every request where it is.
LEMMA MovedStays ==
  ASSUME NEW L, NEW M, \A c \in LineNames : DOMAIN M[c] = DOMAIN L[c],
         \A c \in LineNames : \A i \in DOMAIN L[c] : Alike(M[c][i], L[c][i])
  PROVE  Moved(L, M, {})
<1> DEFINE f == [p \in Places(M) |-> p]
<1>1. Places(M) = Places(L)
  BY DEF Places
<1>2. \A p \in Places(M) : Alike(At(M, p), At(L, p))
  BY DEF Places, At
<1>3. f \in [Places(M) -> Places(L) \ {}]
  BY <1>1
<1> QED BY <1>2, <1>3 DEF Moved

\* Taking the first of a line (ReceiveResult, drainChannels) leaves the others.
LEMMA MovedDropped ==
  ASSUME NEW S, NEW L \in [LineNames -> Seq(S)], NEW M, NEW c \in LineNames, Dropped(L, M, c)
  PROVE  Moved(L, M, {<<c, 1>>})
<1> DEFINE f == [p \in Places(M) |-> IF p[1] = c THEN <<c, p[2] + 1>> ELSE p]
<1>1. L[c] \in Seq(S) /\ L[c] # <<>> /\ M[c] = Tail(L[c])
  BY DEF Dropped
<1>2. /\ Len(L[c]) \in Nat /\ DOMAIN L[c] = 1 .. Len(L[c]) /\ DOMAIN M[c] = 1 .. (Len(L[c]) - 1)
      /\ Len(L[c]) # 0 /\ \A i \in DOMAIN M[c] : M[c][i] = L[c][i + 1]
  BY <1>1
<1>9. \A e \in LineNames : DOMAIN M[e] \subseteq Nat
  <2>1. \A e \in LineNames : L[e] \in Seq(S) /\ DOMAIN L[e] \subseteq Nat
    OBVIOUS
  <2> QED BY <1>2, <2>1 DEF Dropped
<1>3. ASSUME NEW p \in Places(M)
      PROVE  f[p] \in Places(L) \ {<<c, 1>>} /\ Alike(At(M, p), At(L, f[p]))
  <2>0. p \in LineNames \X Nat /\ p[2] \in DOMAIN M[p[1]] /\ p = <<p[1], p[2]>>
    BY <1>9 DEF Places
  <2>1. CASE p[1] = c
    <3>1. p[2] \in 1 .. (Len(L[c]) - 1) /\ f[p] = <<c, p[2] + 1>> /\ p[2] \in Nat
      BY <1>2, <2>0, <2>1
    <3>2. f[p] \in Places(L) /\ f[p] # <<c, 1>>
      BY <1>2, <3>1 DEF Places
    <3>3. At(M, p) = At(L, f[p])
      BY <1>2, <2>0, <2>1, <3>1 DEF At
    <3> QED BY <3>2, <3>3 DEF Alike
  <2>2. CASE p[1] # c
    <3>1. M[p[1]] = L[p[1]] /\ f[p] = p /\ p[1] \in LineNames
      BY <2>0, <2>2 DEF Dropped
    <3>2. p \in Places(L) /\ p # <<c, 1>>
      BY <2>0, <2>2, <3>1 DEF Places
    <3>3. At(M, p) = At(L, p)
      BY <3>1 DEF At
    <3> QED BY <3>1, <3>2, <3>3 DEF Alike
  <2> QED BY <2>1, <2>2
<1>4. ASSUME NEW p \in Places(M), NEW q \in Places(M), f[p] = f[q] PROVE p = q
  <2>1. /\ p \in LineNames \X Nat /\ p = <<p[1], p[2]>>
        /\ q \in LineNames \X Nat /\ q = <<q[1], q[2]>>
    BY <1>9 DEF Places
  <2>2. /\ f[p] = IF p[1] = c THEN <<c, p[2] + 1>> ELSE p
        /\ f[q] = IF q[1] = c THEN <<c, q[2] + 1>> ELSE q
    OBVIOUS
  <2> HIDE DEF f
  <2>3. f[p][1] = p[1] /\ f[q][1] = q[1]
    BY <2>1, <2>2
  <2>4. /\ f[p][2] = IF p[1] = c THEN p[2] + 1 ELSE p[2]
        /\ f[q][2] = IF q[1] = c THEN q[2] + 1 ELSE q[2]
    BY <2>2
  <2>5. p[1] = q[1] /\ p[2] \in Nat /\ q[2] \in Nat
    BY <1>4, <2>1, <2>3
  <2>6. p[2] = q[2]
    BY <1>4, <2>4, <2>5
  <2> QED BY <2>1, <2>5, <2>6
<1>5. f \in [Places(M) -> Places(L) \ {<<c, 1>>}]
  BY <1>3
<1> HIDE DEF f
<1> QED BY <1>3, <1>4, <1>5 DEF Moved

\* Taking the first of a line and putting it at the end of another (the send
\* and the receive of a channel) loses nothing and repeats nothing.
LEMMA MovedPassed ==
  ASSUME NEW S, NEW L \in [LineNames -> Seq(S)], NEW M, NEW c \in LineNames, NEW d \in LineNames,
         c # d, Passed(L, M, c, d)
  PROVE  Moved(L, M, {})
<1> DEFINE last == <<d, Len(L[d]) + 1>>
           f == [p \in Places(M) |-> IF p[1] = c THEN <<c, p[2] + 1>>
                                     ELSE IF p = last THEN <<c, 1>> ELSE p]
<1>1. L[c] \in Seq(S) /\ L[c] # <<>> /\ M[c] = Tail(L[c])
  BY DEF Passed
<1>2. /\ Len(L[c]) \in Nat /\ DOMAIN L[c] = 1 .. Len(L[c]) /\ DOMAIN M[c] = 1 .. (Len(L[c]) - 1)
      /\ Len(L[c]) # 0 /\ \A i \in DOMAIN M[c] : M[c][i] = L[c][i + 1]
      /\ Head(L[c]) = L[c][1] /\ Head(L[c]) \in S
  BY <1>1
<1>3. L[d] \in Seq(S) /\ M[d] = Append(L[d], Head(L[c]))
  BY DEF Passed
<1>4. /\ Len(L[d]) \in Nat /\ DOMAIN L[d] = 1 .. Len(L[d]) /\ DOMAIN M[d] = 1 .. (Len(L[d]) + 1)
      /\ \A i \in DOMAIN L[d] : M[d][i] = L[d][i]
      /\ M[d][Len(L[d]) + 1] = L[c][1]
  BY <1>2, <1>3
<1>9. \A e \in LineNames : DOMAIN M[e] \subseteq Nat
  <2>1. \A e \in LineNames : L[e] \in Seq(S) /\ DOMAIN L[e] \subseteq Nat
    OBVIOUS
  <2> QED BY <1>2, <1>4, <2>1 DEF Passed
<1>5. ASSUME NEW p \in Places(M)
      PROVE  f[p] \in Places(L) /\ Alike(At(M, p), At(L, f[p]))
  <2>0. p \in LineNames \X Nat /\ p[2] \in DOMAIN M[p[1]] /\ p = <<p[1], p[2]>>
    BY <1>9 DEF Places
  <2>1. CASE p[1] = c
    <3>1. p[2] \in 1 .. (Len(L[c]) - 1) /\ f[p] = <<c, p[2] + 1>> /\ p[2] \in Nat
      BY <1>2, <2>0, <2>1
    <3>2. f[p] \in Places(L)
      BY <1>2, <3>1 DEF Places
    <3>3. At(M, p) = At(L, f[p])
      BY <1>2, <2>0, <2>1, <3>1 DEF At
    <3> QED BY <3>2, <3>3 DEF Alike
  <2>2. CASE p = last
    <3>1. f[p] = <<c, 1>> /\ p[1] = d /\ p[2] = Len(L[d]) + 1
      BY <2>2
    <3>2. f[p] \in Places(L)
      BY <1>2, <3>1 DEF Places
    <3>3. At(M, p) = At(L, f[p])
      BY <1>4, <3>1 DEF At
    <3> QED BY <3>2, <3>3 DEF Alike
  <2>3. CASE p[1] # c /\ p # last
    <3>1. f[p] = p
      BY <2>3
    <3>2. p[2] \in DOMAIN L[p[1]] /\ M[p[1]][p[2]] = L[p[1]][p[2]]
      <4>1. CASE p[1] = d
        <5>1. p[2] # Len(L[d]) + 1
          BY <2>0, <2>3, <4>1
        <5> QED BY <1>4, <2>0, <4>1, <5>1
      <4>2. CASE p[1] # d
        BY <2>0, <2>3, <4>2 DEF Passed
      <4> QED BY <4>1, <4>2
    <3>3. p \in Places(L)
      BY <2>0, <3>2 DEF Places
    <3>4. At(M, p) = At(L, p)
      BY <3>2 DEF At
    <3> QED BY <3>1, <3>3, <3>4 DEF Alike
  <2> QED BY <2>1, <2>2, <2>3
<1>6. ASSUME NEW p \in Places(M), NEW q \in Places(M), f[p] = f[q] PROVE p = q
  <2>1. /\ p \in LineNames \X Nat /\ p = <<p[1], p[2]>>
        /\ q \in LineNames \X Nat /\ q = <<q[1], q[2]>>
    BY <1>9 DEF Places
  <2>2. /\ f[p] = IF p[1] = c THEN <<c, p[2] + 1>> ELSE IF p = last THEN <<c, 1>> ELSE p
        /\ f[q] = IF q[1] = c THEN <<c, q[2] + 1>> ELSE IF q = last THEN <<c, 1>> ELSE q
    OBVIOUS
  <2>3. p[2] \in DOMAIN M[p[1]] /\ q[2] \in DOMAIN M[q[1]]
    BY DEF Places
  <2>4. p[2] \in Nat /\ q[2] \in Nat /\ (p[1] = c => p[2] # 0) /\ (q[1] = c => q[2] # 0)
    BY <1>2, <2>1, <2>3
  <2>5. last[1] # c
    OBVIOUS
  <2> HIDE DEF f, last
  <2>6. CASE p[1] = c /\ q[1] = c
    <3>1. f[p] = <<c, p[2] + 1>> /\ f[q] = <<c, q[2] + 1>>
      BY <2>2, <2>6
    <3>2. f[p][2] = p[2] + 1 /\ f[q][2] = q[2] + 1
      BY <3>1
    <3>3. p[2] + 1 = q[2] + 1
      BY <1>6, <3>2
    <3> QED BY <2>1, <2>4, <2>6, <3>3
  <2>7. CASE p[1] = c /\ q[1] # c
    <3>1. CASE q = last
      <4>1. f[p] = <<c, p[2] + 1>> /\ f[q] = <<c, 1>>
        BY <2>2, <2>7, <3>1
      <4>2. f[p][2] = p[2] + 1 /\ f[q][2] = 1
        BY <4>1
      <4> QED BY <1>6, <2>4, <2>7, <4>2
    <3>2. CASE q # last
      <4>1. q = <<c, p[2] + 1>>
        BY <1>6, <2>2, <2>7, <3>2
      <4> QED BY <2>7, <4>1
    <3> QED BY <3>1, <3>2
  <2>8. CASE p[1] # c /\ q[1] = c
    <3>1. CASE p = last
      <4>1. f[q] = <<c, q[2] + 1>> /\ f[p] = <<c, 1>>
        BY <2>2, <2>8, <3>1
      <4>2. f[q][2] = q[2] + 1 /\ f[p][2] = 1
        BY <4>1
      <4> QED BY <1>6, <2>4, <2>8, <4>2
    <3>2. CASE p # last
      <4>1. p = <<c, q[2] + 1>>
        BY <1>6, <2>2, <2>8, <3>2
      <4> QED BY <2>8, <4>1
    <3> QED BY <3>1, <3>2
  <2>9. CASE p[1] # c /\ q[1] # c
    <3>1. /\ f[p] = IF p = last THEN <<c, 1>> ELSE p
          /\ f[q] = IF q = last THEN <<c, 1>> ELSE q
      BY <2>2, <2>9
    <3>2. p # <<c, 1>> /\ q # <<c, 1>>
      BY <2>9
    <3> QED BY <1>6, <3>1, <3>2
  <2> QED BY <2>6, <2>7, <2>8, <2>9
<1>7. f \in [Places(M) -> Places(L) \ {}]
  BY <1>5
<1> HIDE DEF f
<1> QED BY <1>5, <1>6, <1>7 DEF Moved

-----------------------------------------------------------------------------
\* If requests only move, none of them is held twice, and none that has gone.
LEMMA MovedKeeps ==
  ASSUME NEW L, NEW M, NEW gone, gone \subseteq Places(L), Moved(L, M, gone), NEW S,
         Separate(L), ForNodes(L, S)
  PROVE  /\ Separate(M) /\ ForNodes(M, S) /\ HeldIn(M) \subseteq HeldIn(L)
         /\ \A p \in gone : At(L, p).ancillary \cap HeldIn(M) = {}
<1>1. PICK f \in [Places(M) -> Places(L) \ gone] :
        /\ \A p, q \in Places(M) : f[p] = f[q] => p = q
        /\ \A p \in Places(M) : Alike(At(M, p), At(L, f[p]))
  BY DEF Moved
<1>2. \A p \in Places(M) : /\ f[p] \in Places(L) /\ f[p] \notin gone
                           /\ At(M, p).node = At(L, f[p]).node
                           /\ At(M, p).ancillary = At(L, f[p]).ancillary
  BY <1>1 DEF Alike
<1>3. Separate(M)
  BY <1>1, <1>2 DEF Separate
<1>4. ForNodes(M, S)
  BY <1>2 DEF ForNodes
<1>5. HeldIn(M) \subseteq HeldIn(L)
  BY <1>2 DEF HeldIn
<1>6. ASSUME NEW p \in gone PROVE At(L, p).ancillary \cap HeldIn(M) = {}
  <2>1. \A q \in Places(M) : At(L, p).ancillary \cap At(M, q).ancillary = {}
    BY <1>2 DEF Separate
  <2> QED BY <2>1 DEF HeldIn
<1> QED BY <1>3, <1>4, <1>5, <1>6

\* The lines hold requests that RecordBuildResult accepts.
LEMMA LineTyped ==
  ASSUME TypeInv
  PROVE  Line \in [LineNames -> Seq(AcceptedJob)]
<1> QED BY LineTypes DEF Line, TypeInv, LoopOK, ChannelsOK, WorkersOK

\* The lines, by the variables.
LEMMA LineNow ==
  /\ Line[Queue("new")] = newRequests /\ Line[Queue("requests")] = requests
  /\ Line[Queue("priority")] = priorityRequests /\ Line[Queue("results")] = results
  /\ \A w \in Worker : Line[Desk(w)] = IF w \in Busy THEN <<job[w]>> ELSE <<>>
<1> QED BY LineValues DEF Line

\* The lines after a step, by the variables.
LEMMA LineNext ==
  /\ Line'[Queue("new")] = newRequests' /\ Line'[Queue("requests")] = requests'
  /\ Line'[Queue("priority")] = priorityRequests' /\ Line'[Queue("results")] = results'
  /\ \A w \in Worker : Line'[Desk(w)] = IF w \in Busy' THEN <<job'[w]>> ELSE <<>>
<1>1. Line' = LineOf(newRequests', requests', priorityRequests', results', Busy', job')
  BY DEF Line, LineOf, LineNames
<1> QED BY <1>1, LineValues

\* A step at which no channel changes and workers only add to their results.
LEMMA LineSame ==
  ASSUME UNCHANGED <<newRequests, requests, priorityRequests, results>>, Busy' = Busy,
         \A w \in Busy : Alike(job'[w], job[w])
  PROVE  Moved(Line, Line', {})
<1>1. ASSUME NEW c \in LineNames
      PROVE  DOMAIN Line'[c] = DOMAIN Line[c] /\ \A i \in DOMAIN Line[c] : Alike(Line'[c][i], Line[c][i])
  <2>1. CASE \E name \in {"new", "requests", "priority", "results"} : c = Queue(name)
    <3>1. Line'[c] = Line[c]
      BY <2>1, LineNow, LineNext
    <3> QED BY <3>1 DEF Alike
  <2>2. CASE \E w \in Worker : c = Desk(w)
    <3>1. PICK w \in Worker : c = Desk(w)
      BY <2>2
    <3>2. CASE w \in Busy
      <4>1. Line[c] = <<job[w]>> /\ Line'[c] = <<job'[w]>>
        BY <3>1, <3>2, LineNow, LineNext
      <4> QED BY <3>2, <4>1
    <3>3. CASE w \notin Busy
      <4>1. Line[c] = <<>> /\ Line'[c] = <<>>
        BY <3>1, <3>3, LineNow, LineNext
      <4> QED BY <4>1
    <3> QED BY <3>2, <3>3
  <2> QED BY <2>1, <2>2, LineName
<1> HIDE DEF Line
<1> QED BY <1>1, MovedStays

\* RecordBuildRequest and the send move one request from the new ones to a
\* channel.
LEMMA LineSubmit ==
  ASSUME TypeInv, SubmitRequest
  PROVE  Moved(Line, Line', {})
<1> DEFINE req == Head(newRequests)
<1>1. /\ newRequests # <<>> /\ newRequests' = Tail(newRequests)
      /\ \/ priorityRequests' = Append(priorityRequests, req) /\ requests' = requests
         \/ requests' = Append(requests, req) /\ priorityRequests' = priorityRequests
      /\ UNCHANGED <<results, wpc, job>>
  BY DEF SubmitRequest, workerVars
<1>2. Busy' = Busy
  BY <1>1 DEF Busy
<1>3. PICK d \in {Queue("requests"), Queue("priority")} :
        \A e \in LineNames :
          Line'[e] = IF e = Queue("new") THEN Tail(newRequests)
                     ELSE IF e = d THEN Append(Line[d], req) ELSE Line[e]
  <2>1. \A d : (d = Queue("requests") /\ requests' = Append(requests, req) /\ priorityRequests' = priorityRequests)
               \/ (d = Queue("priority") /\ priorityRequests' = Append(priorityRequests, req) /\ requests' = requests)
               => \A e \in LineNames :
                    Line'[e] = IF e = Queue("new") THEN Tail(newRequests)
                               ELSE IF e = d THEN Append(Line[d], req) ELSE Line[e]
    <3> HIDE DEF req
    <3> SUFFICES ASSUME NEW d,
                        \/ (d = Queue("requests") /\ requests' = Append(requests, req) /\ priorityRequests' = priorityRequests)
                        \/ (d = Queue("priority") /\ priorityRequests' = Append(priorityRequests, req) /\ requests' = requests),
                        NEW e \in LineNames
                 PROVE  Line'[e] = IF e = Queue("new") THEN Tail(newRequests)
                                   ELSE IF e = d THEN Append(Line[d], req) ELSE Line[e]
      OBVIOUS
    <3>1. CASE \E w \in Worker : e = Desk(w)
      BY <1>1, <1>2, <3>1, LineName, LineNow, LineNext
    <3>2. CASE \E name \in {"new", "requests", "priority", "results"} : e = Queue(name)
      BY <1>1, <3>2, LineName, LineNow, LineNext
    <3> QED BY <3>1, <3>2, LineName
  <2> QED BY <1>1, <2>1
<1>4. Passed(Line, Line', Queue("new"), d) /\ d # Queue("new")
  BY <1>1, <1>3, LineName, LineNow DEF Passed
<1> QED BY <1>4, LineName, LineTyped, MovedPassed

\* A result that is received and a request that is drained are gone.
LEMMA LineTaken ==
  ASSUME TypeInv
  PROVE  /\ ReceiveResult \/ LicenseCheckerFails =>
              Moved(Line, Line', {<<Queue("results"), 1>>}) /\ results # <<>>
         /\ DrainPriority /\ priorityRequests # <<>> => Moved(Line, Line', {<<Queue("priority"), 1>>})
         /\ DrainRequests /\ requests # <<>> => Moved(Line, Line', {<<Queue("requests"), 1>>})
<1> USE DEF workerVars
<1>1. ASSUME ReceiveResult \/ LicenseCheckerFails
      PROVE  Moved(Line, Line', {<<Queue("results"), 1>>}) /\ results # <<>>
  <2>1. /\ results # <<>> /\ results' = Tail(results) /\ newRequests' = newRequests
        /\ UNCHANGED <<requests, priorityRequests, wpc, job>>
    BY <1>1 DEF ReceiveResult, LicenseCheckerFails
  <2>2. Busy' = Busy
    BY <2>1 DEF Busy
  <2>3. ASSUME NEW e \in LineNames
        PROVE  Line'[e] = IF e = Queue("results") THEN Tail(Line[Queue("results")]) ELSE Line[e]
    <3>1. CASE \E w \in Worker : e = Desk(w)
      BY <2>1, <2>2, <3>1, LineName, LineNow, LineNext
    <3>2. CASE \E name \in {"new", "requests", "priority", "results"} : e = Queue(name)
      BY <2>1, <3>2, LineName, LineNow, LineNext
    <3> QED BY <3>1, <3>2, LineName
  <2>4. Dropped(Line, Line', Queue("results"))
    BY <2>1, <2>3, LineNow DEF Dropped
  <2> QED BY <2>1, <2>4, LineName, LineTyped, MovedDropped
<1>2. ASSUME DrainPriority, priorityRequests # <<>>
      PROVE  Moved(Line, Line', {<<Queue("priority"), 1>>})
  <2>1. /\ priorityRequests' = Tail(priorityRequests) /\ newRequests' = newRequests
        /\ UNCHANGED <<requests, results, wpc, job>>
    BY <1>2 DEF DrainPriority
  <2>2. Busy' = Busy
    BY <2>1 DEF Busy
  <2>3. ASSUME NEW e \in LineNames
        PROVE  Line'[e] = IF e = Queue("priority") THEN Tail(Line[Queue("priority")]) ELSE Line[e]
    <3>1. CASE \E w \in Worker : e = Desk(w)
      BY <2>1, <2>2, <3>1, LineName, LineNow, LineNext
    <3>2. CASE \E name \in {"new", "requests", "priority", "results"} : e = Queue(name)
      BY <2>1, <3>2, LineName, LineNow, LineNext
    <3> QED BY <3>1, <3>2, LineName
  <2>4. Dropped(Line, Line', Queue("priority"))
    BY <1>2, <2>3, LineNow DEF Dropped
  <2> QED BY <2>4, LineName, LineTyped, MovedDropped
<1>3. ASSUME DrainRequests, requests # <<>>
      PROVE  Moved(Line, Line', {<<Queue("requests"), 1>>})
  <2>1. /\ requests' = Tail(requests) /\ newRequests' = newRequests
        /\ UNCHANGED <<priorityRequests, results, wpc, job>>
    BY <1>3 DEF DrainRequests
  <2>2. Busy' = Busy
    BY <2>1 DEF Busy
  <2>3. ASSUME NEW e \in LineNames
        PROVE  Line'[e] = IF e = Queue("requests") THEN Tail(Line[Queue("requests")]) ELSE Line[e]
    <3>1. CASE \E w \in Worker : e = Desk(w)
      BY <2>1, <2>2, <3>1, LineName, LineNow, LineNext
    <3>2. CASE \E name \in {"new", "requests", "priority", "results"} : e = Queue(name)
      BY <2>1, <3>2, LineName, LineNow, LineNext
    <3> QED BY <3>1, <3>2, LineName
  <2>4. Dropped(Line, Line', Queue("requests"))
    BY <1>3, <2>3, LineNow DEF Dropped
  <2> QED BY <2>4, LineName, LineTyped, MovedDropped
<1> QED BY <1>1, <1>2, <1>3

\* Whatever a worker does, it moves requests and results: it takes one, keeps
\* it at its desk, and sends its result.
LEMMA LineWorker ==
  ASSUME TypeInv, NEW w \in Worker, WorkerStep(w)
  PROVE  Moved(Line, Line', {})
<1>0. /\ job \in [Worker -> AcceptedJob] /\ wpc \in [Worker -> WorkerControl]
      /\ newRequests' = newRequests
  BY WorkerKeepsScheduler DEF TypeInv, WorkersOK, KeepScheduler, schedVars
<1>1. CASE \/ PassThrough(w) \/ SkipIgnored(w) \/ UseCached(w) \/ StartBuild(w)
           \/ BuildSRPMFile(w) \/ TestSRPMFile(w) \/ SetAncillaryBuildNodesStatus(w)
  <2>1. KeepChannels /\ Busy' = Busy
    BY <1>1, WorkSteps
  <2>2. ASSUME NEW v \in Worker PROVE Alike(job'[v], job[v])
    <3>1. job[v] \in Job /\ job[w] \in Job
      BY <1>0 DEF AcceptedJob
    <3>2. \/ job' = job
          \/ \E x : "UseCache" \notin x /\ job' = [job EXCEPT ![w] = [job[w] EXCEPT !.flags = job[w].flags \cup x]]
          \/ \E x : job' = [job EXCEPT ![w] = [job[w] EXCEPT !.built = x]]
      <4>1. CASE TestSRPMFile(w)
        <5>1. PICK x \in SUBSET {"Err", "CheckFailed"} : job' = [job EXCEPT ![w] = [job[w] EXCEPT !.flags = job[w].flags \cup x]]
          BY <4>1 DEF TestSRPMFile
        <5> QED BY <5>1
      <4>2. CASE SkipIgnored(w)
        <5>1. job' = [job EXCEPT ![w] = [job[w] EXCEPT !.flags = job[w].flags \cup {"Ignored"}]]
          BY <4>2 DEF SkipIgnored
        <5> QED BY <5>1
      <4>3. CASE BuildSRPMFile(w)
        <5>1. \/ \E x : job' = [job EXCEPT ![w] = [job[w] EXCEPT !.built = x]]
              \/ job' = [job EXCEPT ![w] = [job[w] EXCEPT !.flags = job[w].flags \cup {"Err"}]]
          BY <4>3 DEF BuildSRPMFile
        <5> QED BY <5>1
      <4>4. CASE PassThrough(w) \/ UseCached(w) \/ StartBuild(w) \/ SetAncillaryBuildNodesStatus(w)
        <5>1. job' = job \/ \E x : job' = [job EXCEPT ![w] = [job[w] EXCEPT !.built = x]]
          BY <4>4 DEF PassThrough, UseCached, StartBuild, SetAncillaryBuildNodesStatus, KeepWork
        <5> QED BY <5>1
      <4> QED BY <1>1, <4>1, <4>2, <4>3, <4>4
    <3> QED BY <1>0, <3>1, <3>2 DEF Job, Alike
  <2> QED BY <1>0, <2>1, <2>2, LineSame DEF KeepChannels, chanVars, Busy
<1>2. ASSUME wpc[w] \in {"pollPriority", "select"}, AcceptPriority(w) \/ AcceptNormal(w)
      PROVE  Moved(Line, Line', {})
  <2>1. PICK q \in {Queue("requests"), Queue("priority")} :
          /\ Line[q] # <<>> /\ Accept(w, Head(Line[q])) /\ Line'[q] = Tail(Line[q])
          /\ \A name \in {"new", "requests", "priority", "results"} :
                Queue(name) # q => Line'[Queue(name)] = Line[Queue(name)]
    <3>1. CASE AcceptPriority(w)
      BY <1>0, <3>1, LineName, LineNow, LineNext DEF AcceptPriority
    <3>2. CASE AcceptNormal(w)
      BY <1>0, <3>2, LineName, LineNow, LineNext DEF AcceptNormal
    <3> QED BY <1>2, <3>1, <3>2
  <2>2. /\ w \notin Busy /\ Busy' = Busy \cup {w} /\ job'[w] = Head(Line[q])
        /\ \A v \in Worker : v # w => job'[v] = job[v]
    BY <1>0, <1>2, <2>1 DEF Accept, Goto, Busy
  <2>3. ASSUME NEW e \in LineNames
        PROVE  Line'[e] = IF e = q THEN Tail(Line[q])
                          ELSE IF e = Desk(w) THEN Append(Line[Desk(w)], Head(Line[q])) ELSE Line[e]
    <3>1. CASE \E v \in Worker : e = Desk(v)
      <4>1. PICK v \in Worker : e = Desk(v)
        BY <3>1
      <4>2. CASE v = w
        <5>1. Line[e] = <<>> /\ Line'[e] = <<Head(Line[q])>> /\ e # q
          BY <2>2, <4>1, <4>2, LineName, LineNow, LineNext
        <5>2. \A x : Append(<<>>, x) = <<x>>
          OBVIOUS
        <5>3. Line'[e] = Append(Line[Desk(w)], Head(Line[q]))
          BY <4>1, <4>2, <5>1, <5>2
        <5> QED BY <4>1, <4>2, <5>1, <5>3
      <4>3. CASE v # w
        <5>1. Line'[e] = Line[e] /\ e # q /\ e # Desk(w)
          BY <2>2, <4>1, <4>3, LineName, LineNow, LineNext
        <5> QED BY <5>1
      <4> QED BY <4>2, <4>3
    <3>2. CASE \E name \in {"new", "requests", "priority", "results"} : e = Queue(name)
      BY <2>1, <3>2, LineName
    <3> QED BY <3>1, <3>2, LineName
  <2>4. Passed(Line, Line', q, Desk(w)) /\ q # Desk(w) /\ q \in LineNames
    BY <2>1, <2>3, LineName DEF Passed
  <2> QED BY <2>4, LineName, LineTyped, MovedPassed
<1>3. ASSUME wpc[w] \in {"poll", "pollPriority", "select"},
             NEW to \in {"pollPriority", "select", "stopped"}, Goto(w, to),
             KeepWork, KeepChannels
      PROVE  Moved(Line, Line', {})
  <2>1. Busy' = Busy /\ job' = job
    BY <1>0, <1>3 DEF Goto, Busy, KeepWork
  <2> QED BY <1>0, <1>3, <2>1, LineSame DEF KeepChannels, chanVars, Alike
<1>4. CASE PollCancel(w)
  BY <1>3, <1>4 DEF PollCancel, WorkerAt, Leave
<1>5. CASE PollPriority(w)
  BY <1>2, <1>3, <1>5 DEF PollPriority, WorkerAt, Leave
<1>6. CASE Select(w)
  BY <1>2, <1>3, <1>6 DEF Select, WorkerAt, Leave
<1>7. CASE PublishResult(w)
  <2>1. /\ results' = Append(results, job[w]) /\ UNCHANGED <<requests, priorityRequests>>
        /\ job' = [job EXCEPT ![w] = NoJob] /\ wpc' = [wpc EXCEPT ![w] = "poll"]
        /\ wpc[w] = "publish"
    BY <1>7 DEF PublishResult, Goto, WorkerAt
  <2>2. /\ w \in Busy /\ Busy' = Busy \ {w} /\ \A v \in Worker : v # w => job'[v] = job[v]
    BY <1>0, <2>1 DEF Busy
  <2>3. Line[Desk(w)] = <<job[w]>> /\ Line'[Desk(w)] = <<>>
    BY <2>2, LineNow, LineNext
  <2>4. /\ Line[Desk(w)] # <<>> /\ Line'[Desk(w)] = Tail(Line[Desk(w)]) /\ Head(Line[Desk(w)]) = job[w]
    BY <2>3
  <2>5. ASSUME NEW e \in LineNames
        PROVE  Line'[e] = IF e = Desk(w) THEN Tail(Line[Desk(w)])
                          ELSE IF e = Queue("results") THEN Append(Line[Queue("results")], Head(Line[Desk(w)]))
                          ELSE Line[e]
    <3>1. CASE \E v \in Worker : e = Desk(v)
      <4>1. PICK v \in Worker : e = Desk(v)
        BY <3>1
      <4>2. CASE v = w
        BY <2>4, <4>1, <4>2
      <4>3. CASE v # w
        <5>1. Line'[e] = Line[e] /\ e # Queue("results") /\ e # Desk(w)
          BY <2>2, <4>1, <4>3, LineName, LineNow, LineNext
        <5> QED BY <5>1
      <4> QED BY <4>2, <4>3
    <3>2. CASE \E name \in {"new", "requests", "priority", "results"} : e = Queue(name)
      BY <1>0, <2>1, <2>4, <3>2, LineName, LineNow, LineNext
    <3> QED BY <3>1, <3>2, LineName
  <2>6. Passed(Line, Line', Desk(w), Queue("results")) /\ Desk(w) # Queue("results")
    BY <2>4, <2>5, LineName DEF Passed
  <2> QED BY <2>6, LineName, LineTyped, MovedPassed
<1> QED BY <1>1, <1>4, <1>5, <1>6, <1>7 DEF WorkerStep

-----------------------------------------------------------------------------
\* The fields that an orderly graph is told by.
SameNodes(a, b) ==
    \A n \in Node : /\ a[n].type = b[n].type /\ a[n].id = b[n].id
                    /\ a[n].srpm = b[n].srpm /\ a[n].pkg = b[n].pkg

\* Whether a graph is orderly depends on types, IDs, SRPMs and packages of its
\* nodes.
LEMMA OrderlySame ==
  ASSUME NEW g \in Graph, NEW a, NEW b, SameNodes(a, b), OrderlyGraph(g, a)
  PROVE  OrderlyGraph(g, b)
<1>1. g.nodes \subseteq Node
  BY GraphFields
<1>2. \A n \in g.nodes : /\ a[n].type = b[n].type /\ a[n].id = b[n].id
                         /\ a[n].srpm = b[n].srpm /\ a[n].pkg = b[n].pkg
  BY <1>1 DEF SameNodes
<1>3. \A n \in g.nodes : From(g, n) \subseteq g.nodes /\ ~IsImplicit(b, n)
  BY <1>2 DEF OrderlyGraph, IsImplicit
<1>4. \A m, n \in g.nodes : b[m].id = b[n].id => m = n
  BY <1>2 DEF OrderlyGraph
<1>5. \A t, d, c \in g.nodes :
          /\ b[t].type = "Test" /\ {d, c} \subseteq From(g, t)
          /\ b[d].type = "LocalBuild" /\ b[c].type = "LocalBuild"
          => d = c /\ b[d].srpm = b[t].srpm
  BY <1>2 DEF OrderlyGraph
<1>6. \A t, u, d \in g.nodes :
          /\ b[t].type = "Test" /\ b[u].type = "Test" /\ b[t].srpm = b[u].srpm
          /\ b[d].type # "LocalBuild"
          => (d \in From(g, t) <=> d \in From(g, u))
  BY <1>2 DEF OrderlyGraph
<1> QED BY <1>3, <1>4, <1>5, <1>6 DEF OrderlyGraph

\* ConvertNodesToRequests removes edges from tests to builds: the graph stays
\* orderly.
LEMMA OrderlyPruned ==
  ASSUME NEW g, NEW h, NEW a, OrderlyGraph(g, a), h.nodes = g.nodes,
         \A n \in g.nodes : From(h, n) \subseteq From(g, n),
         \A n \in g.nodes : \A d \in From(g, n) : a[d].type # "LocalBuild" => d \in From(h, n)
  PROVE  OrderlyGraph(h, a)
<1>1. \A n \in h.nodes : From(h, n) \subseteq h.nodes /\ ~IsImplicit(a, n)
  BY DEF OrderlyGraph
<1>2. \A m, n \in h.nodes : a[m].id = a[n].id => m = n
  BY DEF OrderlyGraph
<1>3. \A t, b, c \in h.nodes :
          /\ a[t].type = "Test" /\ {b, c} \subseteq From(h, t)
          /\ a[b].type = "LocalBuild" /\ a[c].type = "LocalBuild"
          => b = c /\ a[b].srpm = a[t].srpm
  <2>1. \A t, b, c \in h.nodes : {b, c} \subseteq From(h, t) => {b, c} \subseteq From(g, t)
    OBVIOUS
  <2> QED BY <2>1 DEF OrderlyGraph
<1>4. \A t, u, d \in h.nodes :
          /\ a[t].type = "Test" /\ a[u].type = "Test" /\ a[t].srpm = a[u].srpm
          /\ a[d].type # "LocalBuild"
          => (d \in From(h, t) <=> d \in From(h, u))
  <2>1. \A t, d \in h.nodes : a[d].type # "LocalBuild" => (d \in From(h, t) <=> d \in From(g, t))
    OBVIOUS
  <2> QED BY <2>1 DEF OrderlyGraph
<1> QED BY <1>1, <1>2, <1>3, <1>4 DEF OrderlyGraph

\* L is made of these queues and desks, and `out' is what has been submitted.
IsLine(L, out, S, new, req, prio, res, busy, jobs) ==
    /\ new \in Seq(S) /\ req \in Seq(S) /\ prio \in Seq(S) /\ res \in Seq(S)
    /\ busy \in SUBSET Worker
    /\ L = LineOf(new, req, prio, res, busy, jobs)
    /\ out = JobsIn(req) \cup JobsIn(prio) \cup JobsIn(res) \cup {jobs[w] : w \in busy}

\* Every place holds a request that is new or one that is outstanding.
LEMMA PlacesOf ==
  ASSUME NEW L, NEW out, NEW S, NEW new, NEW req, NEW prio, NEW res, NEW busy, NEW jobs,
         IsLine(L, out, S, new, req, prio, res, busy, jobs)
  PROVE  /\ \A p \in Places(L) : At(L, p) \in JobsIn(new) \cup out
         /\ \A j \in out : \E p \in Places(L) : At(L, p) = j /\ p[1] # Queue("new")
<1> USE DEF IsLine
<1>0. /\ L[Queue("new")] = new /\ L[Queue("requests")] = req
      /\ L[Queue("priority")] = prio /\ L[Queue("results")] = res
      /\ \A w \in Worker : L[Desk(w)] = IF w \in busy THEN <<jobs[w]>> ELSE <<>>
  BY LineValues
<1>1. ASSUME NEW p \in Places(L)
      PROVE  At(L, p) \in JobsIn(new) \cup out
  <2>1. p[1] \in LineNames /\ p[2] \in DOMAIN L[p[1]]
    BY DEF Places
  <2>2. CASE \E w \in Worker : p[1] = Desk(w)
    <3>1. PICK w \in Worker : p[1] = Desk(w)
      BY <2>2
    <3>2. w \in busy /\ L[p[1]] = <<jobs[w]>>
      <4>1. L[p[1]] = IF w \in busy THEN <<jobs[w]>> ELSE <<>>
        BY <1>0, <3>1
      <4>2. p[2] \in DOMAIN (IF w \in busy THEN <<jobs[w]>> ELSE <<>>)
        BY <2>1, <4>1
      <4> QED BY <4>1, <4>2
    <3> QED BY <2>1, <3>2 DEF At
  <2>3. CASE \E name \in {"new", "requests", "priority", "results"} : p[1] = Queue(name)
    <3>1. L[p[1]] = new \/ L[p[1]] = req \/ L[p[1]] = prio \/ L[p[1]] = res
      BY <1>0, <2>3
    <3>2. \A q : L[p[1]] = q => At(L, p) \in JobsIn(q)
      BY <2>1 DEF At, JobsIn
    <3> QED BY <3>1, <3>2
  <2> QED BY <2>1, <2>2, <2>3, LineName
<1>2. ASSUME NEW j \in out
      PROVE  \E p \in Places(L) : At(L, p) = j /\ p[1] # Queue("new")
  <2>1. ASSUME NEW c \in LineNames, NEW i \in Nat, i \in DOMAIN L[c], L[c][i] = j, c # Queue("new")
        PROVE  \E p \in Places(L) : At(L, p) = j /\ p[1] # Queue("new")
    <3>1. <<c, i>> \in Places(L) /\ At(L, <<c, i>>) = j
      BY <2>1 DEF Places, At
    <3> QED BY <2>1, <3>1
  <2>2. CASE j \in {jobs[w] : w \in busy}
    <3>1. PICK w \in busy : j = jobs[w]
      BY <2>2
    <3>2. w \in Worker /\ L[Desk(w)] = <<jobs[w]>>
      BY <1>0
    <3>3. 1 \in DOMAIN L[Desk(w)] /\ L[Desk(w)][1] = j
      BY <3>1, <3>2
    <3> QED BY <2>1, <3>2, <3>3, LineName
  <2>3. ASSUME NEW q \in Seq(S), j \in JobsIn(q), NEW c \in LineNames,
               L[c] = q, c # Queue("new")
        PROVE  \E p \in Places(L) : At(L, p) = j /\ p[1] # Queue("new")
    <3>1. PICK i \in DOMAIN q : j = q[i]
      BY <2>3 DEF JobsIn
    <3>2. i \in Nat
      BY <2>3
    <3> QED BY <2>1, <2>3, <3>1, <3>2
  <2>4. /\ Queue("requests") # Queue("new") /\ Queue("priority") # Queue("new")
        /\ Queue("results") # Queue("new")
    BY LineName
  <2> QED BY <1>0, <2>2, <2>3, <2>4, LineName
<1> QED BY <1>1, <1>2

\* Every place has a new request or one that is outstanding, and each
\* outstanding one has a place.
LEMMA PlacesHold ==
  ASSUME TypeInv
  PROVE  /\ \A p \in Places(Line) : At(Line, p) \in JobsIn(newRequests) \cup Outstanding
         /\ \A j \in Outstanding : \E p \in Places(Line) : At(Line, p) = j /\ p[1] # Queue("new")
<1>1. Busy \in SUBSET Worker
  BY DEF Busy
<1>2. IsLine(Line, Outstanding, AcceptedJob, newRequests, requests, priorityRequests, results, Busy, job)
  BY <1>1 DEF IsLine, TypeInv, LoopOK, ChannelsOK, Line, Outstanding
<1> QED BY <1>2, PlacesOf

\* What is outstanding after a step has a place then.
LEMMA OutstandingNext ==
  ASSUME TypeInv', NEW S, ForNodes(Line', S)
  PROVE  OutstandingNodes' \subseteq HeldIn(Line')
<1>1. Busy' \in SUBSET Worker
  BY DEF Busy
<1>2. Line' = LineOf(newRequests', requests', priorityRequests', results', Busy', job')
  BY DEF Line, LineOf, LineNames
<1>3. Outstanding' = JobsIn(requests') \cup JobsIn(priorityRequests') \cup JobsIn(results')
                     \cup {job'[w] : w \in Busy'}
  BY DEF Outstanding, JobsIn
<1>4. /\ newRequests' \in Seq(AcceptedJob') /\ requests' \in Seq(AcceptedJob')
      /\ priorityRequests' \in Seq(AcceptedJob') /\ results' \in Seq(AcceptedJob')
  BY DEF TypeInv, LoopOK, ChannelsOK
<1>5. \A j \in Outstanding' : \E p \in Places(Line') : At(Line', p) = j
  <2>1. IsLine(Line', Outstanding', AcceptedJob', newRequests', requests', priorityRequests', results',
               Busy', job')
    BY <1>1, <1>2, <1>3, <1>4 DEF IsLine
  <2> QED BY <2>1, PlacesOf
<1> QED BY <1>5 DEF OutstandingNodes, ForNodes, HeldIn

\* The part of the invariant about the lines, when the graph stays.
LEMMA OrderKept ==
  ASSUME TypeInv, OrderInv, graph' = graph, SameNodes(attr, attr'), Orderly',
         nodeToState' = nodeToState, NEW gone, gone \subseteq Places(Line),
         Moved(Line, Line', gone)
  PROVE  OneRequestPerNode' /\ DepsFirst' /\ Started' \subseteq Started
<1>1. /\ Separate(Line)' /\ ForNodes(Line, graph[0].nodes)' /\ Held' \subseteq Held
  <2>1. Separate(Line) /\ ForNodes(Line, graph[0].nodes)
    BY DEF OrderInv, OneRequestPerNode
  <2>2. /\ Separate(Line') /\ ForNodes(Line', graph[0].nodes) /\ HeldIn(Line') \subseteq HeldIn(Line)
    BY <2>1, MovedKeeps
  <2>3. Separate(Line)' <=> Separate(Line')
    BY DEF Separate, Places, At, LineNames
  <2>4. ForNodes(Line, graph[0].nodes)' <=> ForNodes(Line', graph'[0].nodes)
    BY DEF ForNodes, Places, At, LineNames
  <2>5. Held' = HeldIn(Line')
    BY DEF Held, HeldIn, Places, At, LineNames
  <2> QED BY <2>2, <2>3, <2>4, <2>5 DEF Held
<1>2. Processed' = Processed
  BY DEF Processed, IsNodeProcessed
<1>3. Started' \subseteq Started
  BY <1>1, <1>2 DEF Started
<1>4. OneRequestPerNode'
  BY <1>1, <1>2 DEF OrderInv, OneRequestPerNode, IsNodeAvailable, IsNodeProcessed
<1>5. DepsFirst'
  BY <1>3 DEF OrderInv, DepsFirst, AllAvailable, From, IsNodeAvailable
<1> QED BY <1>3, <1>4, <1>5

-----------------------------------------------------------------------------
\* Line c, which was empty, has become q: requests for nodes of S, in A, that L does not hold.
Added(L, M, c, q, S, A) ==
    /\ \A e \in LineNames : M[e] = IF e = c THEN q ELSE L[e]
    /\ \A i \in DOMAIN q : /\ q[i].node \in q[i].ancillary /\ q[i].ancillary \subseteq S
                           /\ q[i].ancillary \subseteq A /\ q[i].ancillary \cap HeldIn(L) = {}
    /\ \A i, k \in DOMAIN q : q[i].ancillary \cap q[k].ancillary # {} => i = k

\* New requests for nodes that nobody holds, each for nodes of its own, keep
\* the requests apart.
LEMMA LineAdded ==
  ASSUME NEW L, NEW M, NEW c \in LineNames, NEW q, NEW S, NEW A,
         Separate(L), ForNodes(L, S), Added(L, M, c, q, S, A)
  PROVE  Separate(M) /\ ForNodes(M, S) /\ HeldIn(M) \subseteq HeldIn(L) \cup A
<1> USE DEF Added
<1>1. ASSUME NEW p \in Places(M)
      PROVE  \/ p[1] # c /\ p \in Places(L) /\ At(M, p) = At(L, p)
             \/ p[1] = c /\ p[2] \in DOMAIN q /\ p = <<p[1], p[2]>> /\ At(M, p) = q[p[2]]
  <2>1. p[2] \in DOMAIN M[p[1]] /\ p[1] \in LineNames /\ p = <<p[1], p[2]>>
    BY DEF Places
  <2>2. CASE p[1] = c
    BY <2>1, <2>2 DEF At
  <2>3. CASE p[1] # c
    <3>1. M[p[1]] = L[p[1]]
      BY <2>1, <2>3
    <3> QED BY <2>1, <2>3, <3>1 DEF Places, At
  <2> QED BY <2>2, <2>3
<1>2. \A p \in Places(L) : At(L, p).ancillary \subseteq HeldIn(L)
  BY DEF HeldIn
<1>3. ASSUME NEW p \in Places(M), NEW r \in Places(M), At(M, p).ancillary \cap At(M, r).ancillary # {}
      PROVE  p = r
  <2>1. CASE p[1] # c /\ r[1] # c
    BY <1>1, <1>3, <2>1 DEF Separate
  <2>2. CASE p[1] = c /\ r[1] = c
    <3>1. p[2] = r[2]
      BY <1>1, <1>3, <2>2
    <3>2. p = <<p[1], p[2]>> /\ r = <<r[1], r[2]>>
      BY <1>1, <2>2
    <3> QED BY <2>2, <3>1, <3>2
  <2>3. CASE p[1] = c /\ r[1] # c
    <3>1. At(M, p).ancillary \cap HeldIn(L) = {} /\ At(M, r).ancillary \subseteq HeldIn(L)
      BY <1>1, <1>2, <2>3
    <3> QED BY <1>3, <3>1
  <2>4. CASE p[1] # c /\ r[1] = c
    <3>1. At(M, r).ancillary \cap HeldIn(L) = {} /\ At(M, p).ancillary \subseteq HeldIn(L)
      BY <1>1, <1>2, <2>4
    <3> QED BY <1>3, <3>1
  <2> QED BY <2>1, <2>2, <2>3, <2>4
<1>4. ForNodes(M, S)
  <2>1. ASSUME NEW p \in Places(M)
        PROVE  At(M, p).node \in At(M, p).ancillary /\ At(M, p).ancillary \subseteq S
    BY <1>1 DEF ForNodes
  <2> QED BY <2>1 DEF ForNodes
<1>5. HeldIn(M) \subseteq HeldIn(L) \cup A
  <2>1. ASSUME NEW p \in Places(M) PROVE At(M, p).ancillary \subseteq HeldIn(L) \cup A
    <3>1. CASE p[1] = c
      BY <1>1, <3>1
    <3>2. CASE p[1] # c
      BY <1>1, <1>2, <3>2
    <3> QED BY <3>1, <3>2
  <2> QED BY <2>1 DEF HeldIn
<1> QED BY <1>3, <1>4, <1>5 DEF Separate

\* The partner tests of builds that are ready are not under way, and wait for no
\* other build.
LEMMA PartnersWait ==
  ASSUME TypeInv, OrderInv, pc = "convert", NEW b \in nodesToBuild, PartnerTests(G, b) # {}
  PROVE  /\ PartnerTest(G, b) \in G.nodes \ Started /\ PartnerTest(G, b) \notin nodesToBuild
         /\ attr[PartnerTest(G, b)].type = "Test" /\ b \in From(G, PartnerTest(G, b))
         /\ G = graph[0]
<1> DEFINE t == PartnerTest(G, b)
<1>0. G = graph[0]
  BY DEF G, Current, OrderInv, Orderly, OrderlyBuild
<1>1. t \in PartnerTests(G, b)
  BY DEF PartnerTest
<1>2. t \in G.nodes /\ attr[t].type = "Test" /\ \E m \in From(G, t) : attr[m].id = attr[b].id
  BY <1>1 DEF PartnerTests, To
<1>3. PICK m \in From(G, t) : attr[m].id = attr[b].id
  BY <1>2
<1>4. b \in G.nodes \ Started /\ m \in G.nodes
  BY <1>0, <1>2 DEF OrderInv, ReadyToStart, Orderly, OrderlyBuild, OrderlyGraph
<1>5. m = b
  BY <1>0, <1>3, <1>4 DEF OrderInv, Orderly, OrderlyBuild, OrderlyGraph
<1>6. ~IsNodeAvailable(b)
  <2>1. b \in Node
    BY DEF TypeInv, LoopOK
  <2> QED BY <1>4, <2>1 DEF OrderInv, OneRequestPerNode, Started, Processed
<1>7. ~AllAvailable(graph[0], t)
  BY <1>0, <1>5, <1>6 DEF AllAvailable
<1>8. t \notin Started /\ t \notin nodesToBuild
  BY <1>7 DEF OrderInv, DepsFirst, ReadyToStart
<1> QED BY <1>0, <1>2, <1>5, <1>8

\* ConvertNodesToRequests: the requests it makes are for nodes that were not
\* asked for yet (the ready ones, and the tests of the builds among them), each
\* in one request; what they need is available, also after the edges from tests
\* to builds were removed.
LEMMA OrderConvert ==
  ASSUME TypeInv, OrderInv, ConvertNodesToRequests
  PROVE  OrderInv'
<1>0. /\ nodesToBuild \subseteq Node /\ G \in Graph /\ G = graph[0] /\ Current = 0
      /\ graph \in [{0, 1} -> Graph] /\ pc = "convert" /\ newRequests = <<>>
  BY DEF TypeInv, LoopOK, GraphsOK, G, Current, OrderInv, Orderly, OrderlyBuild, ConvertNodesToRequests
<1>1. /\ UNCHANGED <<attr, activeBuilds, nodeToState, requests, priorityRequests, results, wpc, job,
                     goalNode, flags, result>>
      /\ pc' = "submit" /\ nodesToBuild' = {}
  BY DEF ConvertNodesToRequests, stateVars, chanVars, workerVars
<1>2. PICK first \in Choices(Groups("LocalBuild")), last \in Choices(Groups("LocalBuild")),
           firstTest \in Choices(Groups("Test")) :
        LET tested   == TestedGroups(first)
            pruned   == RemoveEdges(G, {<<PartnerTest(G, b), b>> : b \in UNION tested})
            builds   == {BuildGroupRequest(first, gr) : gr \in NewBuildGroups(first)}
            partners == {PartnerRequest(pruned, first, last, gr) :
                            gr \in ReadyPartners(pruned, tested, last)}
            tests    == {TestGroupRequest(pruned, firstTest, gr) :
                            gr \in NewTestGroups(firstTest)}
        IN  /\ \A b \in UNION tested : PartnerTests(G, b) # {}
            /\ graph' = [graph EXCEPT ![Current] = pruned]
            /\ \E q \in Orders(OtherRequests \cup builds \cup partners \cup tests) :
                   newRequests' = q
  BY Zenon DEF ConvertNodesToRequests
<1> DEFINE tested   == TestedGroups(first)
           edges    == {<<PartnerTest(G, b), b>> : b \in UNION tested}
           pruned   == RemoveEdges(G, edges)
           builds   == {BuildGroupRequest(first, gr) : gr \in NewBuildGroups(first)}
           partners == {PartnerRequest(pruned, first, last, gr) :
                            gr \in ReadyPartners(pruned, tested, last)}
           tests    == {TestGroupRequest(pruned, firstTest, gr) :
                            gr \in NewTestGroups(firstTest)}
           All == OtherRequests \cup builds \cup partners \cup tests
<1>3. /\ \A b \in UNION tested : PartnerTests(G, b) # {}
      /\ graph' = [graph EXCEPT ![0] = pruned]
  BY <1>0, <1>2, Zenon
<1>4. PICK q \in Orders(All) : newRequests' = q
  BY <1>2, Zenon
<1>5. /\ \A i \in DOMAIN q : q[i] \in All
      /\ \A i, k \in DOMAIN q : i # k => q[i] # q[k]
  BY DEF Orders
<1>6. ASSUME NEW type, NEW c \in Choices(Groups(type)), NEW gr \in DOMAIN c
      PROVE  /\ gr \in Groups(type) /\ c[gr] \in gr /\ gr \subseteq nodesToBuild
             /\ \A n \in gr : attr[n].type = type
  <2>1. gr \in Groups(type) /\ c[gr] \in gr
    BY DEF Choices
  <2> QED BY <1>0, <2>1, GroupNodes DEF Groups, NodesOfType
<1>7. /\ \A gr \in tested : gr \in Groups("LocalBuild") /\ gr \subseteq nodesToBuild
                            /\ \A b \in gr : attr[b].type = "LocalBuild" /\ PartnerTests(G, b) # {}
      /\ \A b \in UNION tested : b \in nodesToBuild /\ attr[b].type = "LocalBuild"
  BY <1>3, <1>6 DEF TestedGroups, NewBuildGroups
\* The graph it leaves.
<1>8. /\ pruned \in Graph /\ pruned.nodes = G.nodes
      /\ \A n \in Node : From(pruned, n) = {m \in From(G, n) : <<n, m>> \notin edges}
  <2> HIDE DEF edges
  <2>1. pruned \in Graph
    BY <1>0, RemoveType DEF TypeInv, GraphsOK
  <2> QED BY <1>0, <2>1, GraphFields DEF RemoveEdges, From, Graph
<1>9. /\ \A n \in G.nodes : From(pruned, n) \subseteq From(G, n)
      /\ \A n \in G.nodes : \A d \in From(G, n) : attr[d].type # "LocalBuild" => d \in From(pruned, n)
  <2>1. G.nodes \subseteq Node
    BY <1>0, GraphFields
  <2>2. \A n, m : <<n, m>> \in edges => attr[m].type = "LocalBuild"
    BY <1>7
  <2> HIDE DEF edges, pruned
  <2> QED BY <1>8, <2>1, <2>2
<1>10. OrderlyGraph(G, attr)
  BY <1>0 DEF OrderInv, Orderly, OrderlyBuild
<1>11. OrderlyGraph(pruned, attr)
  <2> HIDE DEF pruned
  <2> QED BY <1>8, <1>9, <1>10, OrderlyPruned
<1> HIDE DEF pruned, edges
<1>12. Orderly'
  <2>1. graph'[0] = pruned
    BY <1>0, <1>3
  <2> QED BY <1>0, <1>1, <1>8, <1>11, <2>1 DEF OrderInv, Orderly, OrderlyBuild
\* What the requests are for.
<1> DEFINE ForOther(r, n) ==
               /\ n \in nodesToBuild /\ attr[n].type \notin {"LocalBuild", "Test"}
               /\ r = BuildRequest(G, n, {n}, PackagesToRebuild, CanUseCache, attr[n].state = "Delta")
           ForBuild(r, n) ==
               /\ n \in nodesToBuild /\ attr[n].type = "LocalBuild"
               /\ \E gr \in Groups("LocalBuild") : n \in gr /\ r = BuildGroupRequest(first, gr)
           ForTest(r, n) ==
               /\ n \in nodesToBuild /\ attr[n].type = "Test"
               /\ \E gr \in Groups("Test") : n \in gr /\ r = TestGroupRequest(pruned, firstTest, gr)
           ForPartner(r, n) ==
               /\ n \notin nodesToBuild /\ attr[n].type = "Test" /\ n \in G.nodes \ Started
               /\ AllAvailable(pruned, n)
               /\ \E gr \in Groups("LocalBuild") : \E b \in gr :
                     /\ b \in From(G, n) /\ attr[b].type = "LocalBuild" /\ b \in G.nodes
                     /\ r = PartnerRequest(pruned, first, last, gr)
<1>13. ASSUME NEW r \in OtherRequests
       PROVE  r.node \in r.ancillary /\ \A n \in r.ancillary : ForOther(r, n)
  BY DEF OtherRequests, BuildRequest
<1>14. ASSUME NEW r \in builds
       PROVE  r.node \in r.ancillary /\ \A n \in r.ancillary : ForBuild(r, n)
  <2>1. PICK gr \in NewBuildGroups(first) : r = BuildGroupRequest(first, gr)
    OBVIOUS
  <2>2. r.node = first[gr] /\ r.ancillary = gr
    BY <2>1 DEF BuildGroupRequest, BuildRequest
  <2> QED BY <1>6, <2>1, <2>2 DEF NewBuildGroups
<1>15. ASSUME NEW r \in tests
       PROVE  r.node \in r.ancillary /\ \A n \in r.ancillary : ForTest(r, n)
  <2>1. PICK gr \in NewTestGroups(firstTest) : r = TestGroupRequest(pruned, firstTest, gr)
    OBVIOUS
  <2>2. r.node = firstTest[gr] /\ r.ancillary = gr
    BY <2>1 DEF TestGroupRequest, BuildRequest
  <2> QED BY <1>6, <2>1, <2>2 DEF NewTestGroups
<1>16. ASSUME NEW r \in partners
       PROVE  r.node \in r.ancillary /\ \A n \in r.ancillary : ForPartner(r, n)
  <2>1. PICK gr \in ReadyPartners(pruned, tested, last) : r = PartnerRequest(pruned, first, last, gr)
    OBVIOUS
  <2>2. /\ gr \in tested /\ IsNodeUnblocked(pruned, PartnerTest(G, last[gr]))
        /\ gr \in DOMAIN last
    BY DEF ReadyPartners, TestedGroups, NewBuildGroups, Choices
  <2>3. r.node = PartnerTest(G, last[gr]) /\ r.ancillary = {PartnerTest(G, b) : b \in gr}
    BY <2>1 DEF PartnerRequest, BuildRequest
  <2>4. last[gr] \in gr
    BY <1>6, <2>2
  <2>5. ASSUME NEW b \in gr
        PROVE  /\ PartnerTest(G, b) \in G.nodes \ Started /\ PartnerTest(G, b) \notin nodesToBuild
               /\ attr[PartnerTest(G, b)].type = "Test" /\ b \in From(G, PartnerTest(G, b))
               /\ b \in G.nodes /\ attr[b].type = "LocalBuild"
               /\ b \notin From(pruned, PartnerTest(G, b))
               /\ attr[PartnerTest(G, b)].srpm = attr[b].srpm
    <3>1. b \in nodesToBuild /\ PartnerTests(G, b) # {} /\ attr[b].type = "LocalBuild"
          /\ b \in UNION tested
      BY <1>7, <2>2
    <3>2. /\ PartnerTest(G, b) \in G.nodes \ Started /\ PartnerTest(G, b) \notin nodesToBuild
          /\ attr[PartnerTest(G, b)].type = "Test" /\ b \in From(G, PartnerTest(G, b))
      BY <1>0, <3>1, PartnersWait
    <3>3. b \in G.nodes
      BY <1>0, <3>1 DEF OrderInv, ReadyToStart
    <3>4. <<PartnerTest(G, b), b>> \in edges
      BY <3>1 DEF edges
    <3>5. PartnerTest(G, b) \in Node
      BY <1>0, <3>2, GraphFields
    <3>6. b \notin From(pruned, PartnerTest(G, b))
      BY <1>8, <3>4, <3>5
    <3>7. attr[PartnerTest(G, b)].srpm = attr[b].srpm
      BY <1>10, <3>1, <3>2, <3>3 DEF OrderlyGraph
    <3> QED BY <3>1, <3>2, <3>3, <3>6, <3>7
  <2>6. ASSUME NEW b \in gr
        PROVE  AllAvailable(pruned, PartnerTest(G, b))
    <3> DEFINE t == PartnerTest(G, b)
               u == PartnerTest(G, last[gr])
    <3>1. attr[t].srpm = attr[u].srpm
      <4>1. attr[b].srpm = attr[last[gr]].srpm
        BY <1>0, <1>7, <2>2, <2>4, GroupNodes
      <4> QED BY <2>4, <2>5, <4>1
    <3>2. ASSUME NEW d \in From(pruned, t) PROVE d \in From(pruned, u)
      <4>1. d \in From(G, t) /\ d \in G.nodes /\ t \in G.nodes /\ u \in G.nodes
        BY <1>9, <1>10, <2>4, <2>5, <3>2 DEF OrderlyGraph
      <4>2. attr[d].type # "LocalBuild"
        <5>1. SUFFICES ASSUME attr[d].type = "LocalBuild" PROVE FALSE
          OBVIOUS
        <5>2. d = b
          <6>1. {d, b} \subseteq From(G, t)
            BY <2>5, <4>1
          <6> QED BY <1>10, <2>5, <4>1, <5>1, <6>1 DEF OrderlyGraph
        <5> QED BY <2>5, <3>2, <5>2
      <4>3. d \in From(G, u)
        BY <1>10, <2>4, <2>5, <3>1, <4>1, <4>2 DEF OrderlyGraph
      <4> QED BY <1>9, <4>1, <4>2, <4>3
    <3> QED BY <2>2, <3>2 DEF AllAvailable, IsNodeUnblocked
  <2> QED BY <1>7, <2>1, <2>2, <2>3, <2>4, <2>5, <2>6
<1>17. ASSUME NEW r \in All
       PROVE  /\ r.node \in r.ancillary
              /\ \A n \in r.ancillary : ForOther(r, n) \/ ForBuild(r, n) \/ ForTest(r, n) \/ ForPartner(r, n)
  <2> HIDE DEF ForOther, ForBuild, ForTest, ForPartner, builds, tests, partners
  <2> QED BY <1>13, <1>14, <1>15, <1>16
\* They are apart, and for nodes that can be started.
<1>18. ASSUME NEW r \in All, NEW n \in r.ancillary
       PROVE  n \in G.nodes \ Started /\ AllAvailable(pruned, n)
  <2>1. \A m \in nodesToBuild : m \in G.nodes \ Started /\ AllAvailable(G, m)
    BY <1>0 DEF OrderInv, ReadyToStart
  <2>2. \A m \in G.nodes : AllAvailable(G, m) => AllAvailable(pruned, m)
    BY <1>9 DEF AllAvailable
  <2>3. n \in nodesToBuild \/ ForPartner(r, n)
    BY <1>17
  <2> QED BY <2>1, <2>2, <2>3
<1>19. ASSUME NEW r \in All, NEW s \in All, NEW n, n \in r.ancillary, n \in s.ancillary
       PROVE  r = s
  <2>1. ASSUME NEW type, NEW gr \in Groups(type), NEW hr \in Groups(type), n \in gr, n \in hr
        PROVE  gr = hr
    <3>1. \A m : (m \in gr) <=> (m \in hr)
      BY <1>0, <2>1, GroupNodes DEF Groups, NodesOfType
    <3> QED BY <3>1
  <2>2. CASE ForOther(r, n)
    <3>1. ForOther(s, n)
      BY <1>17, <1>19, <2>2
    <3> QED BY <2>2, <3>1
  <2>3. CASE ForBuild(r, n)
    <3>1. ForBuild(s, n)
      BY <1>17, <1>19, <2>3
    <3> QED BY <2>1, <2>3, <3>1
  <2>4. CASE ForTest(r, n)
    <3>1. ForTest(s, n)
      BY <1>17, <1>19, <2>4
    <3> QED BY <2>1, <2>4, <3>1
  <2>5. CASE ForPartner(r, n)
    <3>1. ForPartner(s, n)
      BY <1>17, <1>19, <2>5
    <3>6. PICK gr \in Groups("LocalBuild") : \E b \in gr :
             /\ b \in From(G, n) /\ attr[b].type = "LocalBuild" /\ b \in G.nodes
             /\ r = PartnerRequest(pruned, first, last, gr)
      BY <2>5
    <3>2. PICK b \in gr :
             /\ b \in From(G, n) /\ attr[b].type = "LocalBuild" /\ b \in G.nodes
             /\ r = PartnerRequest(pruned, first, last, gr)
      BY <3>6
    <3>7. PICK hr \in Groups("LocalBuild") : \E c \in hr :
             /\ c \in From(G, n) /\ attr[c].type = "LocalBuild" /\ c \in G.nodes
             /\ s = PartnerRequest(pruned, first, last, hr)
      BY <3>1
    <3>3. PICK c \in hr :
             /\ c \in From(G, n) /\ attr[c].type = "LocalBuild" /\ c \in G.nodes
             /\ s = PartnerRequest(pruned, first, last, hr)
      BY <3>7
    <3>4. b = c
      <4>1. {b, c} \subseteq From(G, n) /\ n \in G.nodes /\ attr[n].type = "Test"
        BY <2>5, <3>2, <3>3
      <4> QED BY <1>10, <3>2, <3>3, <4>1 DEF OrderlyGraph
    <3>5. gr = hr
      <4>1. \A m : (m \in gr) <=> (m \in hr)
        BY <1>0, <3>2, <3>3, <3>4, GroupNodes DEF Groups, NodesOfType
      <4> QED BY <4>1
    <3> QED BY <3>2, <3>3, <3>5
  <2> HIDE DEF ForOther, ForBuild, ForTest, ForPartner
  <2> QED BY <1>17, <1>19, <2>2, <2>3, <2>4, <2>5
<1> HIDE DEF All
<1> DEFINE Asked == {n \in G.nodes \ Started : AllAvailable(pruned, n)}
<1>20. Separate(Line') /\ ForNodes(Line', G.nodes) /\ HeldIn(Line') \subseteq HeldIn(Line) \cup Asked
  <2>1. Separate(Line) /\ ForNodes(Line, G.nodes)
    BY <1>0 DEF OrderInv, OneRequestPerNode
  <2>2. Queue("new") \in LineNames
    BY LineName
  <2>3. Busy' = Busy
    BY <1>1 DEF Busy
  <2>4. \A e \in LineNames : Line'[e] = IF e = Queue("new") THEN q ELSE Line[e]
    <3> SUFFICES ASSUME NEW e \in LineNames PROVE Line'[e] = IF e = Queue("new") THEN q ELSE Line[e]
      OBVIOUS
    <3>1. CASE \E w \in Worker : e = Desk(w)
      BY <1>1, <2>3, <3>1, LineName, LineNow, LineNext
    <3>2. CASE \E name \in {"new", "requests", "priority", "results"} : e = Queue(name)
      BY <1>1, <1>4, <3>2, LineName, LineNow, LineNext
    <3> QED BY <3>1, <3>2, LineName
  <2>5. \A i \in DOMAIN q :
          /\ q[i].node \in q[i].ancillary /\ q[i].ancillary \subseteq G.nodes
          /\ q[i].ancillary \subseteq Asked /\ q[i].ancillary \cap HeldIn(Line) = {}
    BY <1>5, <1>17, <1>18 DEF Started, Held
  <2>6. \A i, k \in DOMAIN q : q[i].ancillary \cap q[k].ancillary # {} => i = k
    BY <1>5, <1>19
  <2> HIDE DEF Asked
  <2>7. Added(Line, Line', Queue("new"), q, G.nodes, Asked)
    BY <2>4, <2>5, <2>6 DEF Added
  <2> QED BY <2>1, <2>2, <2>7, LineAdded
<1>21. graph'[0] = pruned /\ graph'[0].nodes = G.nodes
  BY <1>0, <1>3, <1>8
<1>22. /\ Held' = HeldIn(Line') /\ Processed' = Processed /\ (Separate(Line)' <=> Separate(Line'))
       /\ (ForNodes(Line, graph[0].nodes)' <=> ForNodes(Line', graph'[0].nodes))
       /\ \A n : IsNodeAvailable(n)' <=> IsNodeAvailable(n)
       /\ \A n : IsNodeProcessed(n)' <=> IsNodeProcessed(n)
  BY <1>1 DEF Held, HeldIn, Places, At, LineNames, Separate, ForNodes, Processed,
              IsNodeProcessed, IsNodeAvailable
<1>23. Started' \subseteq Started \cup Asked /\ Held' \cap Processed' = {}
  <2>1. Held \cap Processed = {}
    BY DEF OrderInv, OneRequestPerNode
  <2> QED BY <1>20, <1>22, <2>1 DEF Started, Held
<1>24. OneRequestPerNode'
  <2>1. \A n \in Node : IsNodeAvailable(n) => IsNodeProcessed(n)
    BY DEF OrderInv, OneRequestPerNode
  <2> QED BY <1>20, <1>21, <1>22, <1>23, <2>1 DEF OneRequestPerNode
<1>25. DepsFirst'
  <2>1. ASSUME NEW n \in Started PROVE AllAvailable(pruned, n)
    <3>1. n \in Node
      <4>1. ForNodes(Line, G.nodes) /\ G.nodes \subseteq Node
        BY <1>0, GraphFields DEF OrderInv, OneRequestPerNode
      <4> QED BY <4>1 DEF Started, Held, HeldIn, ForNodes, Processed
    <3>2. From(pruned, n) \subseteq From(G, n)
      BY <1>8, <3>1
    <3> QED BY <1>0, <3>2 DEF OrderInv, DepsFirst, AllAvailable
  <2>2. \A n \in Started \cup Asked : AllAvailable(pruned, n)
    BY <2>1
  <2> QED BY <1>21, <1>22, <1>23, <2>2 DEF DepsFirst, AllAvailable
<1>26. OutstandingNodes' = OutstandingNodes
  BY <1>1 DEF OutstandingNodes, Outstanding, JobsIn, Busy
<1> QED BY <1>1, <1>12, <1>24, <1>25, <1>26 DEF OrderInv, ReadyToStart, FollowedUp, AllKnown

-----------------------------------------------------------------------------
\* RecordBuildResult: what one result brings becomes processed and is held no
\* more, and nothing that depends on it had been asked for.
LEMMA OrderReceive ==
  ASSUME TypeInv, TypeInv', OrderInv, ReceiveResult
  PROVE  OrderInv' /\ \A n \in Node : IsNodeAvailable(n) => IsNodeAvailable(n)'
<1> DEFINE res == Head(results)
           p0 == <<Queue("results"), 1>>
<1>0. /\ results # <<>> /\ pc = "submit" /\ pc' = AfterRecording(res) /\ result' = res
      /\ UNCHANGED <<graph, attr, goalNode, nodesToBuild, input>> /\ flags' = flags \ {"didInjectAny"}
      /\ \E license : RecordBuildResult(res, license)
  BY DEF ReceiveResult
<1>1. res \in AcceptedJob /\ results \in Seq(AcceptedJob)
  BY <1>0, Queues DEF TypeInv, ChannelsOK
<1>2. /\ activeBuilds' = WithoutActive(attr[res.node].id)
      /\ nodeToState' = [n \in Node |-> IF n \in res.ancillary THEN StateOf(res) ELSE nodeToState[n]]
  <2>1. res.freshness \in Nat /\ res.freshness <= MaxFreshness
    BY <1>1 DEF AcceptedJob, Job
  <2>2. MaxFreshness \in Nat
    BY InputTypes DEF TypeInv, GraphsOK
  <2>3. ~(res.freshness > MaxFreshness)
    BY <2>1, <2>2
  <2> QED BY <1>0, <2>3 DEF RecordBuildResult
<1> HIDE DEF res
<1>3. p0 \in Places(Line) /\ At(Line, p0) = res
  <2>1. Line[Queue("results")] = results /\ Queue("results") \in LineNames
    BY LineNow, LineName
  <2>2. 1 \in DOMAIN results /\ results[1] = res
    BY <1>0, <1>1 DEF res
  <2> QED BY <2>1, <2>2 DEF Places, At
<1>4. Separate(Line) /\ ForNodes(Line, graph[0].nodes) /\ Held \cap Processed = {}
      /\ \A n \in Node : IsNodeAvailable(n) => IsNodeProcessed(n)
  BY DEF OrderInv, OneRequestPerNode
<1>5. /\ Separate(Line') /\ ForNodes(Line', graph[0].nodes) /\ HeldIn(Line') \subseteq HeldIn(Line)
      /\ res.ancillary \cap HeldIn(Line') = {}
  <2>1. Moved(Line, Line', {p0}) /\ {p0} \subseteq Places(Line)
    BY <1>3, LineTaken
  <2> HIDE DEF p0
  <2> QED BY <1>3, <1>4, <2>1, MovedKeeps
<1>6. /\ res.node \in res.ancillary /\ res.ancillary \subseteq graph[0].nodes
      /\ res.ancillary \subseteq Held /\ graph[0].nodes \subseteq Node
  <2>1. graph[0].nodes \subseteq Node
    BY GraphFields DEF TypeInv, GraphsOK
  <2> QED BY <1>3, <1>4, <2>1 DEF ForNodes, Held, HeldIn
<1>7. \A n \in res.ancillary : ~IsNodeProcessed(n) /\ ~IsNodeAvailable(n)
  BY <1>4, <1>6 DEF Processed
<1>8. /\ \A n \in Node \ res.ancillary : /\ IsNodeProcessed(n)' <=> IsNodeProcessed(n)
                                         /\ IsNodeAvailable(n)' <=> IsNodeAvailable(n)
      /\ \A n \in res.ancillary : IsNodeProcessed(n)'
  BY <1>2, <1>6 DEF IsNodeProcessed, IsNodeAvailable, StateOf
<1>9. \A n \in Node : IsNodeAvailable(n) => IsNodeAvailable(n)'
  BY <1>7, <1>8
<1>10. Processed' = Processed \cup res.ancillary
  BY <1>6, <1>8 DEF Processed
<1>11. Held' = HeldIn(Line') /\ (Separate(Line)' <=> Separate(Line'))
       /\ (ForNodes(Line, graph[0].nodes)' <=> ForNodes(Line', graph'[0].nodes))
  BY DEF Held, HeldIn, Places, At, LineNames, Separate, ForNodes
<1>12. Started' \subseteq Started
  BY <1>5, <1>6, <1>10, <1>11 DEF Started, Held
<1>13. OneRequestPerNode'
  <2>1. Held' \cap Processed' = {}
    BY <1>4, <1>5, <1>10, <1>11 DEF Held
  <2>2. \A n \in Node : IsNodeAvailable(n)' => IsNodeProcessed(n)'
    BY <1>4, <1>8
  <2> QED BY <1>0, <1>5, <1>11, <2>1, <2>2 DEF OneRequestPerNode
<1>14. \A n \in Started : From(graph[0], n) \subseteq Node /\ AllAvailable(graph[0], n)
  <2>1. Started \subseteq Node
    BY <1>4, <1>6 DEF Started, Processed, Held, HeldIn, ForNodes
  <2> QED BY <2>1, GraphFields DEF OrderInv, DepsFirst, TypeInv, GraphsOK
<1>15. DepsFirst'
  BY <1>0, <1>9, <1>12, <1>14 DEF DepsFirst, AllAvailable, From
<1>16. FollowedUp'
  <2>1. \A n \in Started : From(graph[0], n) \cap res.ancillary = {}
    BY <1>7, <1>14 DEF AllAvailable
  <2> QED BY <1>0, <1>6, <1>12, <2>1 DEF FollowedUp, From
<1>17. Orderly' /\ ReadyToStart'
  <2>1. pc' \notin {"makeDAG", "optimize", "start", "convert"}
    BY <1>0 DEF AfterRecording
  <2> QED BY <1>0, <2>1 DEF OrderInv, Orderly, OrderlyBuild, ReadyToStart
<1>18. AllKnown'
  <2>1. OutstandingNodes' \subseteq HeldIn(Line') /\ OutstandingNodes' \subseteq OutstandingNodes
    BY <1>5, OutstandingNext, TakingSteps DEF OutstandingNodes, Taken
  <2>2. \A m, n \in graph[0].nodes : attr[m].id = attr[n].id => m = n
    BY DEF OrderInv, Orderly, OrderlyBuild, OrderlyGraph
  <2>3. ASSUME NEW n \in OutstandingNodes'
        PROVE  attr[n].id \in DOMAIN activeBuilds' /\ activeBuilds'[attr[n].id].node = n
    <3>1. n \in graph[0].nodes /\ n # res.node
      BY <1>5, <1>6, <2>1 DEF ForNodes, HeldIn
    <3>2. attr[n].id # attr[res.node].id
      BY <1>6, <2>2, <3>1
    <3>3. attr[n].id \in DOMAIN activeBuilds /\ activeBuilds[attr[n].id].node = n
      BY <2>1 DEF OrderInv, AllKnown
    <3> QED BY <1>2, <3>2, <3>3 DEF WithoutActive
  <2> QED BY <1>0, <2>3 DEF AllKnown
<1> QED BY <1>9, <1>13, <1>15, <1>16, <1>17, <1>18 DEF OrderInv

\* Without implicit packages the graph is neither rewritten nor replaced.
LEMMA NothingInjected ==
  ASSUME TypeInv, OrderInv
  PROVE  ~InjectProvide /\ ~BreakCycle /\ ~NoMoreCycles /\ ~Optimize
<1>1. G = graph[0]
  BY DEF G, Current, OrderInv, Orderly, OrderlyBuild
<1>2. ImplicitNodes(G, attr) = {}
  <2>1. AllPreferredRunNodes(G, attr) \subseteq G.nodes
    BY DEF AllPreferredRunNodes
  <2> QED BY <1>1, <2>1 DEF ImplicitNodes, OrderInv, Orderly, OrderlyBuild, OrderlyGraph
<1>3. MatchingProvides = {}
  BY <1>2 DEF MatchingProvides, Satisfied
<1>4. ~InjectProvide
  BY <1>3 DEF InjectProvide
<1> QED BY <1>4 DEF BreakCycle, NoMoreCycles, Optimize, OrderInv, Orderly, OrderlyBuild

\* What a step does to the fields of the nodes, when no node is created.
LEMMA FieldsStep ==
  ASSUME TypeInv, OrderInv, [Next]_vars, ~ConvertNodesToRequests
  PROVE  graph' = graph /\ goalNode' = goalNode /\ SameNodes(attr, attr')
<1>0. attr \in [Node -> PkgNode]
  BY DEF TypeInv, GraphsOK
<1>1. CASE UNCHANGED <<graph, attr, goalNode>>
  BY <1>1 DEF SameNodes
<1>2. CASE SetAssociatedDeltaPaths
  <2>1. /\ graph' = graph /\ goalNode' = goalNode
        /\ \E updated : attr' = [n \in Node |->
                            IF n \in updated
                            THEN [attr[n] EXCEPT !.rpm = CHOOSE f \in BuiltInstead(n) : TRUE]
                            ELSE attr[n]]
    BY <1>2 DEF SetAssociatedDeltaPaths
  <2>2. ASSUME NEW n \in Node
        PROVE  attr'[n] = attr[n] \/ \E x : attr'[n] = [attr[n] EXCEPT !.rpm = x]
    BY <2>1
  <2>3. ASSUME NEW n \in Node
        PROVE  /\ attr[n].type = attr'[n].type /\ attr[n].id = attr'[n].id
               /\ attr[n].srpm = attr'[n].srpm /\ attr[n].pkg = attr'[n].pkg
    BY <1>0, <2>2 DEF PkgNode
  <2> QED BY <2>1, <2>3 DEF SameNodes
<1>3. CASE \E w \in Worker : SetAncillaryBuildNodesStatus(w)
  <2>1. PICK w \in Worker : SetAncillaryBuildNodesStatus(w)
    BY <1>3
  <2>2. graph' = graph /\ goalNode' = goalNode
    BY <2>1 DEF SetAncillaryBuildNodesStatus, KeepScheduler, schedVars
  <2>3. ASSUME NEW n \in Node
        PROVE  attr'[n] = attr[n] \/ \E x : attr'[n] = [attr[n] EXCEPT !.state = x]
    BY <2>1 DEF SetAncillaryBuildNodesStatus
  <2>4. ASSUME NEW n \in Node
        PROVE  /\ attr[n].type = attr'[n].type /\ attr[n].id = attr'[n].id
               /\ attr[n].srpm = attr'[n].srpm /\ attr[n].pkg = attr'[n].pkg
    BY <1>0, <2>3 DEF PkgNode
  <2> QED BY <2>2, <2>4 DEF SameNodes
<1> QED BY <1>1, <1>2, <1>3, GraphCases, NothingInjected

\* Where the scheduler goes.
Onward ==
    /\ pc' \notin {"makeDAG", "optimize"}
    /\ flags' \cap {"isGraphOptimized", "didInjectAny"} = {}
    /\ pc' = "start" => pc = "start"
    /\ pc' = "convert" => \/ pc = "convert" /\ nodesToBuild' = nodesToBuild
                          \/ StartAtLeaves \/ EnableCachedImplicit \/ Advance
    /\ pc' \in {"delta", "inject", "advance"} =>
          ReceiveResult \/ (pc \in {"delta", "inject", "advance"} /\ result' = result)
    /\ nodeToState' = nodeToState \/ ReceiveResult

\* Every step goes on as Onward says.
LEMMA OnwardStep ==
  ASSUME TypeInv, OrderInv, [Next]_vars
  PROVE  Onward
<1> USE DEF Onward, stateVars
<1>0. flags \cap {"isGraphOptimized", "didInjectAny"} = {} /\ pc \notin {"makeDAG", "optimize"}
  BY DEF OrderInv, Orderly, OrderlyBuild
<1>1. CASE UNCHANGED vars
  BY <1>0, <1>1 DEF vars, schedVars
<1>2. CASE StartAtLeaves
  BY <1>0, <1>2 DEF StartAtLeaves
<1>3. CASE ConvertNodesToRequests
  BY <1>0, <1>3 DEF ConvertNodesToRequests
<1>4. CASE ConvertPanics
  BY <1>0, <1>4 DEF ConvertPanics
<1>5. CASE SubmitRequest
  BY <1>0, <1>5 DEF SubmitRequest
<1>6. CASE EnableCachedImplicit
  BY <1>0, <1>6 DEF EnableCachedImplicit, NothingOutstanding
<1>7. CASE CouldNotBuildAll
  BY <1>0, <1>7 DEF CouldNotBuildAll, NothingOutstanding
<1>8. CASE LicenseCheckerFails
  BY <1>0, <1>8 DEF LicenseCheckerFails
<1>9. CASE ReceiveResult
  BY <1>0, <1>9 DEF ReceiveResult, AfterRecording
<1>10. CASE SetAssociatedDeltaPaths
  BY <1>0, <1>10 DEF SetAssociatedDeltaPaths
<1>11. CASE FinishFile
  BY <1>0, <1>11 DEF FinishFile, GraphFails
<1>12. CASE FinishInject
  BY <1>0, <1>12 DEF FinishInject
<1>13. CASE Advance
  BY <1>0, <1>13 DEF Advance
<1>14. CASE StopBuild \/ DoneBuild \/ CloseRequests \/ ClosePriority
  BY <1>0, <1>14 DEF StopBuild, DoneBuild, CloseRequests, ClosePriority, CloseChannel
<1>15. CASE DrainPriority
  BY <1>0, <1>15 DEF DrainPriority
<1>16. CASE DrainRequests
  BY <1>0, <1>16 DEF DrainRequests
<1>17. ASSUME NEW w \in Worker, WorkerStep(w) PROVE Onward
  <2>1. KeepScheduler
    BY <1>17, WorkerKeepsScheduler
  <2> QED BY <1>0, <2>1 DEF KeepScheduler, schedVars
<1> HIDE DEF Onward, stateVars
<1>18. CASE SchedulerStep
  BY <1>2, <1>3, <1>4, <1>5, <1>6, <1>7, <1>8, <1>9, <1>10, <1>11, <1>12, <1>13, <1>14,
     <1>15, <1>16, <1>18, NothingInjected, Zenon DEF SchedulerStep
<1>19. CASE Finished
  BY <1>1, <1>19, Zenon DEF Finished
<1> QED BY <1>1, <1>17, <1>18, <1>19, Zenon DEF Next

-----------------------------------------------------------------------------
\* Every other step moves the requests.
LEMMA OrderMoves ==
  ASSUME TypeInv, [Next]_vars, ~ConvertNodesToRequests
  PROVE  \E gone : gone \subseteq Places(Line) /\ Moved(Line, Line', gone)
<1>1. Moved(Line, Line', {}) => \E gone : gone \subseteq Places(Line) /\ Moved(Line, Line', gone)
  OBVIOUS
<1>2. ASSUME NEW name \in {"requests", "priority", "results"}, Line[Queue(name)] # <<>>,
             Moved(Line, Line', {<<Queue(name), 1>>})
      PROVE  \E gone : gone \subseteq Places(Line) /\ Moved(Line, Line', gone)
  <2>1. Queue(name) \in LineNames
    BY LineName
  <2>2. Line[Queue(name)] \in Seq(AcceptedJob)
    BY <2>1, LineTyped
  <2>3. 1 \in DOMAIN Line[Queue(name)]
    BY <1>2, <2>2
  <2>4. <<Queue(name), 1>> \in Places(Line)
    BY <2>1, <2>3 DEF Places
  <2> QED BY <1>2, <2>4
<1>3. CASE Quiet
  <2>1. Busy' = Busy /\ job' = job /\ newRequests' = newRequests
        /\ UNCHANGED <<requests, priorityRequests, results>>
    BY <1>3 DEF Quiet, Busy
  <2> QED BY <1>1, <2>1, LineSame DEF Alike
<1>4. CASE SubmitRequest
  BY <1>1, <1>4, LineSubmit
<1>5. CASE LicenseCheckerFails \/ ReceiveResult
  BY <1>2, <1>5, LineTaken, LineNow
<1>6. CASE DrainPriority
  <2>1. CASE priorityRequests # <<>>
    BY <1>2, <1>6, <2>1, LineTaken, LineNow
  <2>2. CASE priorityRequests = <<>>
    <3>1. UNCHANGED <<newRequests, requests, priorityRequests, results, wpc, job>>
      BY <1>6, <2>2 DEF DrainPriority, workerVars
    <3> QED BY <1>1, <3>1, LineSame DEF Alike, Busy
  <2> QED BY <2>1, <2>2
<1>7. CASE DrainRequests
  <2>1. CASE requests # <<>>
    BY <1>2, <1>7, <2>1, LineTaken, LineNow
  <2>2. CASE requests = <<>>
    <3>1. UNCHANGED <<newRequests, requests, priorityRequests, results, wpc, job>>
      BY <1>7, <2>2 DEF DrainRequests, workerVars
    <3> QED BY <1>1, <3>1, LineSame DEF Alike, Busy
  <2> QED BY <2>1, <2>2
<1>8. CASE \E w \in Worker : WorkerStep(w)
  BY <1>1, <1>8, LineWorker
<1> QED BY <1>3, <1>4, <1>5, <1>6, <1>7, <1>8, MovingSteps

\* The first of a line is held by nobody else after it was taken.
LEMMA TakenApart ==
  ASSUME TypeInv, TypeInv', OrderInv, NEW name \in {"requests", "priority", "results"},
         Line[Queue(name)] # <<>>, Moved(Line, Line', {<<Queue(name), 1>>})
  PROVE  LET j == Head(Line[Queue(name)])
         IN  j.node \in graph[0].nodes /\ j.node \notin OutstandingNodes'
<1> DEFINE p == <<Queue(name), 1>>
           j == Head(Line[Queue(name)])
<1>1. Queue(name) \in LineNames /\ Line[Queue(name)] \in Seq(AcceptedJob)
  BY LineName, LineTyped
<1>2. 1 \in DOMAIN Line[Queue(name)] /\ Line[Queue(name)][1] = j
  BY <1>1
<1>3. p \in Places(Line) /\ At(Line, p) = j
  BY <1>1, <1>2 DEF Places, At
<1>4. Separate(Line) /\ ForNodes(Line, graph[0].nodes)
  BY DEF OrderInv, OneRequestPerNode
<1>5. ForNodes(Line', graph[0].nodes) /\ j.ancillary \cap HeldIn(Line') = {}
  <2>1. {p} \subseteq Places(Line) /\ Moved(Line, Line', {p})
    BY <1>3
  <2> HIDE DEF p, j
  <2> QED BY <1>3, <1>4, <2>1, MovedKeeps
<1>6. j.node \in j.ancillary /\ j.ancillary \subseteq graph[0].nodes
  BY <1>3, <1>4 DEF ForNodes
<1>7. OutstandingNodes' \subseteq HeldIn(Line')
  BY <1>5, OutstandingNext
<1> HIDE DEF j
<1>8. j.node \in graph[0].nodes /\ j.node \notin OutstandingNodes'
  BY <1>5, <1>6, <1>7
<1> QED BY <1>8 DEF j

\* The build state still knows of all that is outstanding.
LEMMA KnownStep ==
  ASSUME TypeInv, TypeInv', OrderInv, [Next]_vars, ~ConvertNodesToRequests, ~ReceiveResult
  PROVE  AllKnown'
<1>0. SameNodes(attr, attr')
  BY FieldsStep
<1>1. /\ OutstandingNodes \subseteq graph[0].nodes /\ graph[0].nodes \subseteq Node
      /\ \A m, n \in graph[0].nodes : attr[m].id = attr[n].id => m = n
  <2>1. graph[0].nodes \subseteq Node /\ ForNodes(Line, graph[0].nodes)
    BY GraphFields DEF TypeInv, GraphsOK, OrderInv, OneRequestPerNode
  <2>2. OutstandingNodes \subseteq graph[0].nodes
    BY <2>1, PlacesHold DEF OutstandingNodes, ForNodes
  <2> QED BY <2>1, <2>2 DEF OrderInv, Orderly, OrderlyBuild, OrderlyGraph
<1>2. \A n \in OutstandingNodes :
         attr[n].id \in DOMAIN activeBuilds /\ activeBuilds[attr[n].id].node = n
  BY DEF OrderInv, AllKnown
<1>3. ASSUME OutstandingNodes' \subseteq OutstandingNodes, activeBuilds' = activeBuilds PROVE AllKnown'
  BY <1>0, <1>1, <1>2, <1>3 DEF AllKnown, SameNodes
<1>4. ASSUME NEW j, j.node \in graph[0].nodes, j.node \notin OutstandingNodes',
             OutstandingNodes' \subseteq OutstandingNodes, activeBuilds' = WithoutActive(attr[j.node].id)
      PROVE  AllKnown'
  <2>1. ASSUME NEW n \in OutstandingNodes'
        PROVE  attr'[n].id \in DOMAIN activeBuilds' /\ activeBuilds'[attr'[n].id].node = n
    <3>1. n \in OutstandingNodes /\ n # j.node /\ attr'[n].id = attr[n].id
      BY <1>0, <1>1, <1>4 DEF SameNodes
    <3>2. attr[n].id # attr[j.node].id
      BY <1>1, <1>4, <3>1
    <3> QED BY <1>2, <1>4, <3>1, <3>2 DEF WithoutActive
  <2> QED BY <2>1 DEF AllKnown
<1>5. CASE Quiet
  <2>1. OutstandingNodes' = OutstandingNodes
    BY <1>5 DEF Quiet, OutstandingNodes, Outstanding, JobsIn, Busy
  <2> QED BY <1>3, <1>5, <2>1 DEF Quiet
<1>6. CASE \E w \in Worker : WorkerStep(w)
  <2>1. PICK w \in Worker : WorkerStep(w)
    BY <1>6
  <2>2. activeBuilds' = activeBuilds
    BY <2>1, WorkerKeepsScheduler DEF KeepScheduler, stateVars
  <2>3. OutstandingNodes' = OutstandingNodes
    BY <2>1, WorkerKeepsOutstanding
  <2> QED BY <1>3, <2>2, <2>3
<1>7. CASE LicenseCheckerFails
  <2>1. activeBuilds' = activeBuilds
    BY <1>7 DEF LicenseCheckerFails, stateVars
  <2>2. OutstandingNodes' \subseteq OutstandingNodes
    BY <1>7, TakingSteps DEF OutstandingNodes
  <2> QED BY <1>3, <2>1, <2>2
<1>8. CASE DrainPriority
  <2>1. CASE priorityRequests # <<>>
    <3>1. Taken(Head(priorityRequests))
      <4>1. activeBuilds' = WithoutActive(attr[Head(priorityRequests).node].id)
            /\ priorityRequests' = Tail(priorityRequests)
        BY <1>8, <2>1 DEF DrainPriority
      <4>2. priorityRequests' # priorityRequests
        BY <2>1, <4>1 DEF TypeInv, ChannelsOK
      <4> QED BY <1>8, <4>2, TakingSteps
    <3>2. /\ Head(priorityRequests).node \in graph[0].nodes
          /\ Head(priorityRequests).node \notin OutstandingNodes'
      BY <1>8, <2>1, LineNow, LineTaken, TakenApart
    <3>3. OutstandingNodes' \subseteq OutstandingNodes
      BY <3>1 DEF Taken, OutstandingNodes
    <3> QED BY <1>4, <3>1, <3>2, <3>3 DEF Taken
  <2>2. CASE priorityRequests = <<>>
    <3>1. UNCHANGED <<requests, priorityRequests, results, wpc, job, activeBuilds>>
      BY <1>8, <2>2 DEF DrainPriority, workerVars
    <3>2. OutstandingNodes' = OutstandingNodes
      BY <3>1 DEF OutstandingNodes, Outstanding, JobsIn, Busy
    <3> QED BY <1>3, <3>1, <3>2
  <2> QED BY <2>1, <2>2
<1>9. CASE DrainRequests
  <2>1. CASE requests # <<>>
    <3>1. Taken(Head(requests))
      <4>1. activeBuilds' = WithoutActive(attr[Head(requests).node].id)
            /\ requests' = Tail(requests)
        BY <1>9, <2>1 DEF DrainRequests
      <4>2. requests' # requests
        BY <2>1, <4>1 DEF TypeInv, ChannelsOK
      <4> QED BY <1>9, <4>2, TakingSteps
    <3>2. /\ Head(requests).node \in graph[0].nodes
          /\ Head(requests).node \notin OutstandingNodes'
      BY <1>9, <2>1, LineNow, LineTaken, TakenApart
    <3>3. OutstandingNodes' \subseteq OutstandingNodes
      BY <3>1 DEF Taken, OutstandingNodes
    <3> QED BY <1>4, <3>1, <3>2, <3>3 DEF Taken
  <2>2. CASE requests = <<>>
    <3>1. UNCHANGED <<requests, priorityRequests, results, wpc, job, activeBuilds>>
      BY <1>9, <2>2 DEF DrainRequests, workerVars
    <3>2. OutstandingNodes' = OutstandingNodes
      BY <3>1 DEF OutstandingNodes, Outstanding, JobsIn, Busy
    <3> QED BY <1>3, <3>1, <3>2
  <2> QED BY <2>1, <2>2
<1>10. CASE SubmitRequest
  <2> DEFINE req == Head(newRequests)
             id == attr[req.node].id
             p0 == <<Queue("new"), 1>>
  <2>1. /\ activeBuilds' = [i \in DOMAIN activeBuilds \cup {id} |->
                              IF i = id THEN req ELSE activeBuilds[i]]
        /\ attr' = attr /\ newRequests # <<>>
        /\ \/ priorityRequests' = Append(priorityRequests, req) /\ requests' = requests
           \/ requests' = Append(requests, req) /\ priorityRequests' = priorityRequests
        /\ UNCHANGED <<results, wpc, job>>
    BY <1>10 DEF SubmitRequest, workerVars
  <2>2. req \in AcceptedJob /\ ChannelsOK /\ newRequests \in Seq(AcceptedJob)
    BY <2>1, Queues DEF TypeInv, LoopOK
  <2>3. Outstanding' = Outstanding \cup {req}
    <3>1. /\ JobsIn(Append(requests, req)) = JobsIn(requests) \cup {req}
          /\ JobsIn(Append(priorityRequests, req)) = JobsIn(priorityRequests) \cup {req}
      BY <2>2, JobsOfQueue DEF ChannelsOK
    <3> HIDE DEF req
    <3>2. /\ Busy' = Busy /\ job' = job /\ JobsIn(results)' = JobsIn(results)
          /\ JobsIn(requests)' = JobsIn(requests')
          /\ JobsIn(priorityRequests)' = JobsIn(priorityRequests')
      BY <2>1 DEF Busy, JobsIn
    <3> QED BY <2>1, <3>1, <3>2 DEF Outstanding
  <2>4. p0 \in Places(Line) /\ At(Line, p0) = req
    <3>1. Line[Queue("new")] = newRequests /\ Queue("new") \in LineNames
      BY LineNow, LineName
    <3>2. 1 \in DOMAIN newRequests /\ newRequests[1] = req
      BY <2>1, <2>2
    <3> QED BY <3>1, <3>2 DEF Places, At
  <2> HIDE DEF req
  <2>5. Separate(Line) /\ ForNodes(Line, graph[0].nodes)
    BY DEF OrderInv, OneRequestPerNode
  <2>6. req.node \in req.ancillary /\ req.node \in graph[0].nodes
    BY <2>4, <2>5 DEF ForNodes
  <2>7. ASSUME NEW j \in Outstanding PROVE j.node # req.node
    <3>1. PICK p \in Places(Line) : At(Line, p) = j /\ p[1] # Queue("new")
      BY PlacesHold
    <3>2. p # p0
      BY <3>1
    <3>3. j.node \in j.ancillary
      BY <2>5, <3>1 DEF ForNodes
    <3> QED BY <2>4, <2>5, <2>6, <3>1, <3>2, <3>3 DEF Separate
  <2>8. ASSUME NEW n \in OutstandingNodes'
        PROVE  attr[n].id \in DOMAIN activeBuilds' /\ activeBuilds'[attr[n].id].node = n
    <3>1. CASE n = req.node
      BY <2>1, <3>1
    <3>2. CASE n # req.node
      <4>1. n \in OutstandingNodes
        BY <2>3, <3>2 DEF OutstandingNodes
      <4>2. attr[n].id # id
        BY <1>1, <2>6, <3>2, <4>1
      <4> QED BY <1>2, <2>1, <4>1, <4>2
    <3> QED BY <3>1, <3>2
  <2> QED BY <2>1, <2>8 DEF AllKnown
<1> QED BY <1>5, <1>6, <1>7, <1>8, <1>9, <1>10, MovingSteps

\* What is found to be ready can be started.
LEMMA ReadyStep ==
  ASSUME TypeInv, OrderInv, StartAtLeaves \/ EnableCachedImplicit \/ Advance
  PROVE  \A n \in nodesToBuild' : n \in graph[0].nodes \ Started /\ AllAvailable(graph[0], n)
<1>0. /\ G = graph[0] /\ graph[0] \in Graph /\ OrderlyGraph(G, attr) /\ goalNode \in G.nodes
      /\ G.nodes \subseteq Node
  BY GraphFields DEF G, Current, OrderInv, Orderly, OrderlyBuild, TypeInv, GraphsOK
<1>1. ASSUME NEW useCached PROVE \A n \in LeafNodes(G, goalNode, useCached) :
                                    n \in G.nodes /\ From(G, n) = {} /\ ~IsNodeProcessed(n)
  <2>1. Reach(G, goalNode) \subseteq G.nodes
    <3>1. G.deps \in [Node -> SUBSET Node] /\ G.nodes \in SUBSET Node
      BY <1>0, GraphFields
    <3>2. \A m \in G.nodes : From(G, m) \subseteq G.nodes
      BY <1>0 DEF OrderlyGraph
    <3> QED BY <1>0, <3>1, <3>2, ReachWithin
  <2> QED BY <2>1 DEF LeafNodes
<1>2. CASE StartAtLeaves
  <2>1. Started = {} /\ nodesToBuild' = LeafNodes(G, goalNode, FALSE)
    BY <1>2 DEF StartAtLeaves, OrderInv, ReadyToStart
  <2> QED BY <1>0, <1>1, <2>1 DEF AllAvailable
<1>3. CASE EnableCachedImplicit
  <2>1. /\ newRequests = <<>> /\ DOMAIN activeBuilds = {}
        /\ nodesToBuild' = LeafNodes(G, goalNode, TRUE)
    BY <1>3 DEF EnableCachedImplicit, NothingOutstanding
  <2>2. JobsIn(newRequests) = {} /\ Outstanding = {}
    <3>1. JobsIn(newRequests) = {}
      BY <2>1 DEF JobsIn
    <3>2. \A n \in OutstandingNodes : attr[n].id \in {}
      BY <2>1 DEF OrderInv, AllKnown
    <3> QED BY <3>1, <3>2 DEF OutstandingNodes
  <2>3. Held = {}
    BY <2>2, PlacesHold DEF Held, HeldIn
  <2> QED BY <1>0, <1>1, <2>1, <2>3 DEF AllAvailable, Started, Processed
<1>4. CASE Advance
  <2>1. /\ pc = "advance" /\ nodesToBuild' \subseteq FindUnblockedNodes(G, result.ancillary)
    BY <1>4 DEF Advance
  <2>2. /\ result.ancillary \subseteq graph[0].nodes
        /\ \A n \in Started : From(graph[0], n) \cap result.ancillary = {}
    BY <2>1 DEF OrderInv, FollowedUp
  <2>3. ASSUME NEW n \in FindUnblockedNodes(G, result.ancillary)
        PROVE  n \in G.nodes \ Started /\ AllAvailable(G, n)
    <3>1. PICK a \in result.ancillary : n \in To(G, attr, attr[a].id)
      BY DEF FindUnblockedNodes
    <3>2. n \in G.nodes /\ \E m \in From(G, n) : attr[m].id = attr[a].id
      BY <3>1 DEF To
    <3>3. a \in From(G, n)
      BY <1>0, <2>2, <3>1, <3>2 DEF OrderlyGraph
    <3>4. n \notin Started
      BY <1>0, <2>2, <3>1, <3>3
    <3> QED BY <3>2, <3>4 DEF FindUnblockedNodes, AllAvailable, IsNodeAvailable
  <2> QED BY <1>0, <2>1, <2>3
<1> QED BY <1>2, <1>3, <1>4

\* Every step keeps the order of the build, and withdraws nothing that is
\* available.
LEMMA OrderStep ==
  ASSUME TypeInv, OrderInv, [Next]_vars
  PROVE  OrderInv' /\ \A n \in Node : IsNodeAvailable(n) => IsNodeAvailable(n)'
<1>0. TypeInv'
  BY TypeStep
<1>1. CASE ConvertNodesToRequests
  <2>1. nodeToState' = nodeToState
    BY <1>1 DEF ConvertNodesToRequests, stateVars
  <2> QED BY <1>1, <2>1, OrderConvert DEF IsNodeAvailable
<1>2. CASE ReceiveResult
  BY <1>0, <1>2, OrderReceive
<1>3. CASE ~ConvertNodesToRequests /\ ~ReceiveResult
  <2>1. graph' = graph /\ goalNode' = goalNode /\ SameNodes(attr, attr')
    BY <1>3, FieldsStep
  <2>2. Onward
    BY OnwardStep
  <2>3. nodeToState' = nodeToState
    BY <1>3, <2>2 DEF Onward
  <2>4. Orderly'
    <3>1. graph[0] \in Graph /\ OrderlyGraph(graph[0], attr)
      BY DEF TypeInv, GraphsOK, OrderInv, Orderly, OrderlyBuild
    <3>2. OrderlyGraph(graph[0], attr')
      BY <2>1, <3>1, OrderlySame
    <3> QED BY <2>1, <2>2, <3>2 DEF OrderInv, Orderly, OrderlyBuild, Onward
  <2>5. OneRequestPerNode' /\ DepsFirst' /\ Started' \subseteq Started
    <3>1. PICK gone : gone \subseteq Places(Line) /\ Moved(Line, Line', gone)
      BY <1>3, OrderMoves
    <3> QED BY <2>1, <2>3, <2>4, <3>1, OrderKept
  <2>6. ReadyToStart'
    <3>1. pc' = "start" => Started' = {}
      BY <2>2, <2>5 DEF Onward, OrderInv, ReadyToStart
    <3>2. ASSUME pc' = "convert"
          PROVE  \A n \in nodesToBuild' : n \in graph[0].nodes \ Started /\ AllAvailable(graph[0], n)
      <4>1. CASE pc = "convert" /\ nodesToBuild' = nodesToBuild
        BY <4>1 DEF OrderInv, ReadyToStart
      <4> QED BY <2>2, <3>2, <4>1, ReadyStep DEF Onward
    <3> QED BY <2>1, <2>3, <2>5, <3>1, <3>2 DEF ReadyToStart, AllAvailable, From, IsNodeAvailable
  <2>7. FollowedUp'
    BY <1>3, <2>1, <2>2, <2>5 DEF Onward, OrderInv, FollowedUp, From
  <2>8. AllKnown'
    BY <1>0, <1>3, KnownStep
  <2> QED BY <2>3, <2>4, <2>5, <2>6, <2>7, <2>8 DEF OrderInv, IsNodeAvailable
<1> QED BY <1>1, <1>2, <1>3

-----------------------------------------------------------------------------
\* The order of the build holds when buildAllNodes begins.
LEMMA OrderInit ==
  ASSUME Init, OrderlyBuild
  PROVE  OrderInv
<1>1. /\ newRequests = <<>> /\ requests = <<>> /\ priorityRequests = <<>> /\ results = <<>>
      /\ Busy = {} /\ pc = "start" /\ flags = {} /\ nodeToState = [n \in Node |-> Unprocessed]
  BY DEF Init, Busy
<1>2. TypeInv
  BY InitInv
<1>3. JobsIn(newRequests) = {} /\ Outstanding = {}
  BY <1>1 DEF Outstanding, JobsIn
<1>4. Places(Line) = {}
  BY <1>2, <1>3, PlacesHold
<1>5. Held = {}
  BY <1>4 DEF Held, HeldIn
<1>6. Processed = {} /\ \A n \in Node : ~IsNodeAvailable(n)
  BY <1>1 DEF Processed, IsNodeProcessed, IsNodeAvailable, Unprocessed
<1>7. Started = {}
  BY <1>5, <1>6 DEF Started
<1> QED BY <1>1, <1>3, <1>4, <1>5, <1>6, <1>7
        DEF OrderInv, OrderlyBuild, Orderly, OneRequestPerNode, DepsFirst, ReadyToStart,
            FollowedUp, AllKnown, OutstandingNodes, ForNodes, Separate

\* A line is shorter than the graph when some node of the graph is not in it.
LEMMA ShortLine ==
  ASSUME TypeInv, OrderInv, NEW c \in LineNames, NEW p \in Places(Line), p[1] # c
  PROVE  Len(Line[c]) < Cardinality(graph[0].nodes)
<1> DEFINE q == Line[c]
           N == graph[0].nodes
           f == [i \in 1 .. Len(q) |-> q[i].node]
           x == At(Line, p).node
<1>1. Separate(Line) /\ ForNodes(Line, N)
  BY DEF OrderInv, OneRequestPerNode
<1>2. q \in Seq(AcceptedJob) /\ Len(q) \in Nat /\ DOMAIN q = 1 .. Len(q)
  BY LineTyped
<1>3. \A i \in 1 .. Len(q) : <<c, i>> \in Places(Line) /\ At(Line, <<c, i>>) = q[i]
  BY <1>2 DEF Places, At
<1>4. IsFiniteSet(N)
  <2>1. N \subseteq Node
    BY GraphFields DEF TypeInv, GraphsOK
  <2> QED BY <2>1, FS_Subset, SchedulerAssumption
<1>5. /\ \A i \in 1 .. Len(q) : q[i].node \in N /\ q[i].node \in q[i].ancillary
      /\ x \in N /\ x \in At(Line, p).ancillary
  BY <1>1, <1>3 DEF ForNodes
<1>6. \A i \in 1 .. Len(q) : q[i].node # x
  <2> SUFFICES ASSUME NEW i \in 1 .. Len(q), q[i].node = x PROVE FALSE
    OBVIOUS
  <2>1. <<c, i>> = p
    BY <1>1, <1>3, <1>5 DEF Separate
  <2>2. <<c, i>>[1] = c
    OBVIOUS
  <2> QED BY <2>1, <2>2
<1>7. \A i, k \in 1 .. Len(q) : q[i].node = q[k].node => i = k
  <2> SUFFICES ASSUME NEW i \in 1 .. Len(q), NEW k \in 1 .. Len(q), q[i].node = q[k].node PROVE i = k
    OBVIOUS
  <2>1. <<c, i>> = <<c, k>>
    BY <1>1, <1>3, <1>5 DEF Separate
  <2> QED BY <2>1
<1>8. f \in Injection(1 .. Len(q), N \ {x})
  BY <1>5, <1>6, <1>7 DEF Injection, IsInjective
<1>9. IsFiniteSet(1 .. Len(q)) /\ Cardinality(1 .. Len(q)) = Len(q)
  BY <1>2, FS_Interval
<1>10. IsFiniteSet(N \ {x}) /\ Cardinality(N \ {x}) = Cardinality(N) - 1 /\ Cardinality(N) \in Nat
  BY <1>4, <1>5, FS_RemoveElement, FS_CardinalityType
<1>11. Len(q) <= Cardinality(N \ {x})
  <2> HIDE DEF f, q, N, x
  <2> QED BY <1>8, <1>9, <1>10, FS_Injection
<1> QED BY <1>2, <1>10, <1>11

\* The invariant of a build whose graph is not rewritten.
LEMMA OrderHolds == Spec /\ OrderlyBuild => [](TypeInv /\ OrderInv)
<1>1. Init /\ OrderlyBuild => TypeInv /\ OrderInv
  BY InitInv, OrderInit
<1>2. TypeInv /\ OrderInv /\ [Next]_vars => TypeInv' /\ OrderInv'
  BY TypeStep, OrderStep
<1> QED BY <1>1, <1>2, PTL DEF Spec

\* The build state knows of every request that is queued, being built or
\* waiting as a result: for any graph without implicit packages, any number of
\* workers and any command line, activeBuilds has it under the ID of its node
\* until its result is recorded.
THEOREM OutstandingIsKnown == Spec /\ OrderlyBuild => []OutstandingIsActive
<1>1. OrderInv => OutstandingIsActive
  BY DEF OrderInv, AllKnown, OutstandingIsActive, OutstandingNodes
<1> QED BY <1>1, OrderHolds, PTL

\* The buffers, made once for the nodes of the prepared graph (scheduler.go:298 and
\* 323-325), are never full when the scheduler submits or a worker publishes: no
\* node is added, every node is in at most one of them, and one is not there yet.
THEOREM SendsAreFree == Spec /\ OrderlyBuild => []SendsNeverBlock
<1> DEFINE Fitting == channelBufferSize = Cardinality(graph[0].nodes)
<1>1. ASSUME TypeInv, OrderInv, Fitting PROVE SendsNeverBlock
  <2>1. ASSUME newRequests # <<>>
        PROVE  Len(requests) < channelBufferSize /\ Len(priorityRequests) < channelBufferSize
    <3>1. <<Queue("new"), 1>> \in Places(Line)
      <4>1. Line[Queue("new")] = newRequests /\ Queue("new") \in LineNames
        BY LineNow, LineName
      <4>2. 1 \in DOMAIN newRequests
        BY <1>1, <2>1 DEF TypeInv, LoopOK
      <4> QED BY <4>1, <4>2 DEF Places
    <3>2. <<Queue("new"), 1>>[1] # Queue("requests") /\ <<Queue("new"), 1>>[1] # Queue("priority")
      BY LineName
    <3>3. /\ Len(Line[Queue("requests")]) < Cardinality(graph[0].nodes)
          /\ Len(Line[Queue("priority")]) < Cardinality(graph[0].nodes)
      BY <1>1, <3>1, <3>2, ShortLine, LineName
    <3> QED BY <1>1, <3>3, LineNow
  <2>2. ASSUME NEW w \in Worker, wpc[w] = "publish"
        PROVE  Len(results) < channelBufferSize
    <3>1. <<Desk(w), 1>> \in Places(Line)
      <4>1. Line[Desk(w)] = <<job[w]>> /\ Desk(w) \in LineNames
        BY <2>2, LineNow, LineName DEF Busy
      <4> QED BY <4>1 DEF Places
    <3>2. <<Desk(w), 1>>[1] # Queue("results")
      BY LineName
    <3>3. Len(Line[Queue("results")]) < Cardinality(graph[0].nodes)
      BY <1>1, <3>1, <3>2, ShortLine, LineName
    <3> QED BY <1>1, <3>3, LineNow
  <2> QED BY <2>1, <2>2 DEF SendsNeverBlock
<1>2. ASSUME TypeInv, OrderInv, Fitting, [Next]_vars PROVE Fitting'
  <2>1. channelBufferSize' = channelBufferSize
    BY <1>2, BuffersStay
  <2>2. CASE ~ConvertNodesToRequests
    BY <1>2, <2>1, <2>2, FieldsStep
  <2>3. CASE ConvertNodesToRequests
    <3>1. PICK edges : graph' = [graph EXCEPT ![Current] = RemoveEdges(G, edges)]
      BY <2>3 DEF ConvertNodesToRequests
    <3>2. graph \in [{0, 1} -> Graph] /\ Current \in {0, 1} /\ G = graph[Current]
      BY <1>2 DEF TypeInv, GraphsOK, Current, G
    <3>3. RemoveEdges(G, edges).nodes = G.nodes
      BY <3>2 DEF RemoveEdges, Graph
    <3>4. graph'[0].nodes = graph[0].nodes
      BY <3>1, <3>2, <3>3
    <3> QED BY <1>2, <2>1, <3>4
  <2> QED BY <2>2, <2>3
<1>3. Init => Fitting
  BY BuffersMade
<1>4. Spec /\ OrderlyBuild => [](TypeInv /\ OrderInv /\ Fitting)
  <2>1. TypeInv /\ OrderInv /\ Fitting /\ [Next]_vars => Fitting'
    BY <1>2
  <2> QED BY <1>3, <2>1, OrderHolds, PTL DEF Spec
<1> QED BY <1>1, <1>4, PTL

\* Once a node is available to build with it stays so: no node gets a second
\* result that could overwrite its state (RecordBuildResult).
THEOREM NothingIsWithdrawn == Spec /\ OrderlyBuild => AvailableForGood
<1>1. TypeInv /\ OrderInv /\ [Next]_vars
        => [\A n \in Node : IsNodeAvailable(n) => IsNodeAvailable(n)']_vars
  BY OrderStep
<1> QED BY <1>1, OrderHolds, PTL DEF Spec, AvailableForGood

\* No two workers build one SRPM at the same time; here the hypothesis of
\* OneBuildPerSRPM, that no two requested nodes share an ID, is a consequence
\* of the order.
THEOREM OneBuildPerSRPMInOrder == Spec /\ OrderlyBuild => []NoConcurrentBuildOfSRPM
<1>1. ASSUME TypeInv, OrderInv PROVE NoReusedIDs
  <2>1. ForNodes(Line, graph[0].nodes)
    BY <1>1 DEF OrderInv, OneRequestPerNode
  <2>2. \A j \in JobsIn(newRequests) \cup Outstanding : j.node \in graph[0].nodes
    <3>1. ASSUME NEW j \in Outstanding PROVE j.node \in graph[0].nodes
      BY <1>1, <2>1, PlacesHold DEF ForNodes
    <3>2. ASSUME NEW j \in JobsIn(newRequests) PROVE j.node \in graph[0].nodes
      <4>1. PICK i \in DOMAIN newRequests : j = newRequests[i]
        BY DEF JobsIn
      <4>2. i \in Nat
        BY <1>1 DEF TypeInv, LoopOK
      <4>3. <<Queue("new"), i>> \in Places(Line) /\ At(Line, <<Queue("new"), i>>) = j
        BY <4>1, <4>2, LineNow, LineName DEF Places, At
      <4> QED BY <2>1, <4>3 DEF ForNodes
    <3> QED BY <3>1, <3>2
  <2> QED BY <1>1, <2>2 DEF NoReusedIDs, OrderInv, Orderly, OrderlyBuild, OrderlyGraph
<1> QED BY <1>1, OrderHolds, OneBuildPerSRPM, PTL

\* The order of the build: no node is asked for, built, tested or passed
\* through before everything it depends on is available, and each is asked for
\* at most once.
THEOREM DependenciesComeFirst == Spec /\ OrderlyBuild => [](OneRequestPerNode /\ DepsFirst)
<1> QED BY OrderHolds, PTL DEF OrderInv
-----------------------------------------------------------------------------
(* The files of a build.                                                   *)

\* Files are never removed, and the fields that say which RPMs a node has change
\* only to files that exist.
LEMMA FieldsMove ==
  ASSUME TypeInv, OrderInv, FileInv, [Next]_vars
  PROVE  /\ disk \subseteq disk' /\ input' = input /\ goalNode' = goalNode
         /\ graph'[0].nodes = graph[0].nodes /\ SameNodes(attr, attr')
         /\ \A n \in Node : attr'[n].rpm = attr[n].rpm \/ attr'[n].rpm \in disk
         /\ \A n \in graph[0].nodes : \A d \in From(graph[0], n) :
               attr[n].type # "Test" => d \in From(graph'[0], n)
<1>0. /\ graph \in [{0, 1} -> Graph] /\ attr \in [Node -> PkgNode] /\ G = graph[0] /\ Current = 0
      /\ graph[0] \in Graph
  BY DEF TypeInv, GraphsOK, OrderInv, Orderly, G, Current
<1>1. disk \subseteq disk'
  <2>1. CASE \E w \in Worker : BuildSRPMFile(w)
    BY <2>1 DEF BuildSRPMFile
  <2>2. disk' = disk \/ \E w \in Worker : BuildSRPMFile(w)
    <3>1. CASE SchedulerStep
      BY <3>1 DEF SchedulerStep, StartAtLeaves, ConvertNodesToRequests, ConvertPanics, SubmitRequest,
         EnableCachedImplicit, CouldNotBuildAll, LicenseCheckerFails, ReceiveResult,
         SetAssociatedDeltaPaths, InjectProvide, FinishFile, FinishInject, BreakCycle, NoMoreCycles,
         Optimize, Advance, StopBuild, DoneBuild, CloseRequests, ClosePriority, CloseChannel,
         DrainPriority, DrainRequests
    <3>2. ASSUME NEW w \in Worker, WorkerStep(w) PROVE disk' = disk \/ BuildSRPMFile(w)
      BY <3>2 DEF WorkerStep, PollCancel, PollPriority, Select, PassThrough, SkipIgnored,
         UseCached, StartBuild, TestSRPMFile, SetAncillaryBuildNodesStatus, PublishResult
    <3> QED BY <3>1, <3>2 DEF Next, Finished, vars
  <2> QED BY <2>1, <2>2
<1>2. input' = input
  BY GraphCases
<1>3. CASE ConvertNodesToRequests
  <2>1. attr' = attr /\ goalNode' = goalNode
    BY <1>3 DEF ConvertNodesToRequests
  <2>2. PICK first \in Choices(Groups("LocalBuild")) :
           graph' = [graph EXCEPT ![Current] =
               RemoveEdges(G, {<<PartnerTest(G, b), b>> : b \in UNION TestedGroups(first)})]
           /\ \A b \in UNION TestedGroups(first) : PartnerTests(G, b) # {}
    BY <1>3 DEF ConvertNodesToRequests
  <2> DEFINE edges == {<<PartnerTest(G, b), b>> : b \in UNION TestedGroups(first)}
  <2>3. \A b \in UNION TestedGroups(first) : attr[PartnerTest(G, b)].type = "Test"
    <3>1. \A b \in UNION TestedGroups(first) : PartnerTest(G, b) \in PartnerTests(G, b)
      BY <2>2 DEF PartnerTest
    <3> QED BY <3>1 DEF PartnerTests
  <2>4. \A n, m : <<n, m>> \in edges => attr[n].type = "Test"
    BY <2>3
  <2> HIDE DEF edges
  <2>5. graph'[0] = RemoveEdges(graph[0], edges)
    BY <1>0, <2>2 DEF edges
  <2>6. /\ graph'[0].nodes = graph[0].nodes
        /\ \A n \in Node : From(graph'[0], n) = {m \in From(graph[0], n) : <<n, m>> \notin edges}
    BY <1>0, <2>5, GraphFields DEF RemoveEdges, From, Graph
  <2>7. graph[0].nodes \subseteq Node
    BY <1>0, GraphFields
  <2> QED BY <1>1, <1>2, <2>1, <2>4, <2>6, <2>7 DEF SameNodes
<1>4. CASE ~ConvertNodesToRequests
  <2>1. graph' = graph /\ goalNode' = goalNode /\ SameNodes(attr, attr')
    BY <1>4, FieldsStep
  <2>2. ASSUME NEW n \in Node PROVE attr'[n].rpm = attr[n].rpm \/ attr'[n].rpm \in disk
    <3>1. CASE attr' = attr
      BY <3>1
    <3>2. CASE \E w \in Worker : SetAncillaryBuildNodesStatus(w)
      <4>1. \/ attr'[n] = attr[n] \/ \E s : attr'[n] = [attr[n] EXCEPT !.state = s]
        BY <3>2 DEF SetAncillaryBuildNodesStatus
      <4>2. attr[n] \in PkgNode
        BY <1>0
      <4> QED BY <4>1, <4>2 DEF PkgNode
    <3>3. CASE SetAssociatedDeltaPaths
      <4>1. \/ attr'[n] = attr[n]
            \/ BuiltInstead(n) # {} /\ attr'[n] = [attr[n] EXCEPT !.rpm = CHOOSE f \in BuiltInstead(n) : TRUE]
        BY <3>3 DEF SetAssociatedDeltaPaths
      <4>2. attr[n] \in PkgNode
        BY <1>0
      <4>3. result.built \subseteq disk
        BY DEF FileInv
      <4>4. BuiltInstead(n) # {} => (CHOOSE f \in BuiltInstead(n) : TRUE) \in disk
        BY <4>3 DEF BuiltInstead
      <4> QED BY <4>1, <4>2, <4>4 DEF PkgNode
    <3> QED BY <1>4, <3>1, <3>2, <3>3, GraphCases, NothingInjected
  <2> QED BY <1>1, <1>2, <2>1, <2>2
<1> QED BY <1>3, <1>4

\* An RPM of an SRPM is that of one of its nodes.
LEMMA RPMsAre ==
  ASSUME NEW g, NEW a, NEW srpm, NEW f
  PROVE  f \in RPMsOf(g, a, srpm) <=> f # NoRPM /\ \E n \in g.nodes : a[n].srpm = srpm /\ a[n].rpm = f
<1> QED BY DEF RPMsOf

\* What is present stays present, also when deltas are redirected to the RPMs that
\* were built instead.
LEMMA PresentStays ==
  ASSUME TypeInv, OrderInv, FileInv, [Next]_vars, NEW srpm, Present(srpm)
  PROVE  Present(srpm)'
<1>1. /\ disk \subseteq disk' /\ graph'[0].nodes = graph[0].nodes /\ SameNodes(attr, attr')
      /\ \A n \in Node : attr'[n].rpm = attr[n].rpm \/ attr'[n].rpm \in disk
  BY FieldsMove
<1>2. graph[0].nodes \subseteq Node
  BY GraphFields DEF TypeInv, GraphsOK
<1>3. ASSUME NEW f \in RPMsOf(graph'[0], attr', srpm) PROVE f \in disk'
  <2>1. PICK n \in graph'[0].nodes : attr'[n].srpm = srpm /\ attr'[n].rpm = f
    BY <1>3, RPMsAre
  <2>2. n \in graph[0].nodes /\ n \in Node /\ attr[n].srpm = srpm /\ f # NoRPM
    BY <1>1, <1>2, <1>3, <2>1, RPMsAre DEF SameNodes
  <2>3. CASE attr'[n].rpm = attr[n].rpm
    <3>1. f \in RPMsOf(graph[0], attr, srpm)
      BY <2>1, <2>2, <2>3, RPMsAre
    <3> QED BY <1>1, <3>1 DEF Present
  <2> QED BY <1>1, <2>1, <2>2, <2>3
<1> QED BY <1>3 DEF Present

\* The graph keeps what it says of files.
LEMMA FilledStays ==
  ASSUME TypeInv, OrderInv, FileInv, [Next]_vars
  PROVE  FilledGraph(graph[0], attr, disk)' /\ IgnoredExist(graph[0], attr, disk)'
<1>1. /\ disk \subseteq disk' /\ graph'[0].nodes = graph[0].nodes /\ SameNodes(attr, attr')
      /\ input' = input
      /\ \A n \in Node : attr'[n].rpm = attr[n].rpm \/ attr'[n].rpm \in disk
      /\ \A n \in graph[0].nodes : \A d \in From(graph[0], n) :
               attr[n].type # "Test" => d \in From(graph'[0], n)
  BY FieldsMove
<1>2. graph[0].nodes \subseteq Node /\ \A n \in Node : From(graph[0], n) \subseteq Node
  BY GraphFields DEF TypeInv, GraphsOK
<1>3. RpmsBuiltBy' = RpmsBuiltBy /\ IgnoredPackages' = IgnoredPackages
  BY <1>1 DEF RpmsBuiltBy, IgnoredPackages
<1>4. FilledGraph(graph[0], attr, disk) /\ IgnoredExist(graph[0], attr, disk)
  BY DEF FileInv
<1>5. ASSUME NEW n \in graph'[0].nodes
      PROVE  /\ IF attr'[n].type \in {"LocalBuild", "LocalRun"}
                THEN attr'[n].srpm \in SRPM \ {NoSRPM} /\ attr'[n].rpm \in disk' \cup OutputOf(attr'[n].srpm)
                ELSE attr'[n].rpm \in disk' \cup {NoRPM}
             /\ attr'[n].type = "LocalRun" =>
                  \E b \in From(graph'[0], n) :
                    /\ attr'[b].type = "LocalBuild" /\ attr'[b].srpm = attr'[n].srpm
                    /\ attr'[b].pkg = attr'[n].pkg
  <2>1. /\ n \in graph[0].nodes /\ n \in Node /\ attr'[n].type = attr[n].type /\ attr'[n].srpm = attr[n].srpm
        /\ attr'[n].pkg = attr[n].pkg
        /\ attr'[n].rpm = attr[n].rpm \/ attr'[n].rpm \in disk
    BY <1>1, <1>2 DEF SameNodes
  <2>2. /\ IF attr[n].type \in {"LocalBuild", "LocalRun"}
           THEN attr[n].srpm \in SRPM \ {NoSRPM} /\ attr[n].rpm \in disk \cup OutputOf(attr[n].srpm)
           ELSE attr[n].rpm \in disk \cup {NoRPM}
        /\ attr[n].type = "LocalRun" =>
              \E b \in From(graph[0], n) :
                attr[b].type = "LocalBuild" /\ attr[b].srpm = attr[n].srpm /\ attr[b].pkg = attr[n].pkg
    BY <1>4, <2>1 DEF FilledGraph
  <2>3. ASSUME attr'[n].type = "LocalRun"
        PROVE  \E b \in From(graph'[0], n) :
                    /\ attr'[b].type = "LocalBuild" /\ attr'[b].srpm = attr'[n].srpm
                    /\ attr'[b].pkg = attr'[n].pkg
    <3>1. PICK b \in From(graph[0], n) :
             attr[b].type = "LocalBuild" /\ attr[b].srpm = attr[n].srpm /\ attr[b].pkg = attr[n].pkg
      BY <2>1, <2>2, <2>3
    <3>2. b \in From(graph'[0], n) /\ b \in Node
      BY <1>1, <1>2, <2>1, <2>3
    <3>3. attr'[b].type = "LocalBuild" /\ attr'[b].srpm = attr'[n].srpm /\ attr'[b].pkg = attr'[n].pkg
      BY <1>1, <2>1, <3>1, <3>2 DEF SameNodes
    <3> QED BY <3>2, <3>3
  <2> QED BY <1>1, <2>1, <2>2, <2>3
<1>6. ASSUME NEW n \in graph'[0].nodes, attr'[n].type = "LocalBuild", attr'[n].pkg \in IgnoredPackages'
      PROVE  RPMsOf(graph'[0], attr', attr'[n].srpm) \subseteq disk'
  <2>1. /\ n \in graph[0].nodes /\ attr[n].type = "LocalBuild" /\ attr'[n].srpm = attr[n].srpm
        /\ attr[n].pkg \in IgnoredPackages
    BY <1>1, <1>2, <1>3, <1>6 DEF SameNodes
  <2>2. Present(attr[n].srpm)
    BY <1>4, <2>1 DEF IgnoredExist, Present
  <2>3. ASSUME NEW s, s = attr[n].srpm PROVE RPMsOf(graph'[0], attr', s) \subseteq disk'
    BY <2>2, <2>3, PresentStays DEF Present
  <2> QED BY <2>1, <2>3
<1> QED BY <1>3, <1>5, <1>6 DEF FilledGraph, IgnoredExist, OutputOf

\* A request that is well filed stays so.
LEMMA FiledStays ==
  ASSUME TypeInv, OrderInv, FileInv, [Next]_vars, NEW j \in Job, Filed(j, graph[0], attr, disk)
  PROVE  Filed(j, graph'[0], attr', disk')
<1>1. disk \subseteq disk' /\ SameNodes(attr, attr')
  BY FieldsMove
<1>2. j.node \in Node /\ j.ancillary \subseteq Node
  BY DEF Job
<1>3. j.graph = 0 /\ j.built \subseteq disk'
  BY <1>1 DEF Filed
<1>4. \A n \in j.ancillary : attr'[n].type = "LocalBuild"
               => IsBuild(attr', j) /\ attr'[n].srpm = attr'[j.node].srpm
  BY <1>1, <1>2 DEF Filed, SameNodes, IsBuild
<1>5. ASSUME IsBuild(attr', j), "UseCache" \in j.flags
      PROVE  RPMsOf(graph'[0], attr', attr'[j.node].srpm) \subseteq disk'
  <2>1. IsBuild(attr, j) /\ attr'[j.node].srpm = attr[j.node].srpm
    BY <1>1, <1>2, <1>5 DEF SameNodes, IsBuild
  <2>2. Present(attr[j.node].srpm)
    BY <1>5, <2>1 DEF Filed, Present
  <2>3. ASSUME NEW s, s = attr[j.node].srpm PROVE RPMsOf(graph'[0], attr', s) \subseteq disk'
    BY <2>2, <2>3, PresentStays DEF Present
  <2> QED BY <2>1, <2>3
<1> QED BY <1>3, <1>4, <1>5 DEF Filed

\* The steps with which a worker adds to its result.
Working(w) == PassThrough(w) \/ SkipIgnored(w) \/ UseCached(w) \/ BuildSRPMFile(w) \/ TestSRPMFile(w)

\* The jobs and those that ended, by the queues and the desks.
LEMMA JobsNow ==
  /\ AllJobs = JobsIn(newRequests) \cup JobsIn(requests) \cup JobsIn(priorityRequests)
               \cup JobsIn(results) \cup {job[v] : v \in Busy}
  /\ AllJobs' = JobsIn(newRequests') \cup JobsIn(requests') \cup JobsIn(priorityRequests')
               \cup JobsIn(results') \cup {job'[v] : v \in Busy'}
  /\ Ended = JobsIn(results) \cup {job[v] : v \in {u \in Worker : wpc[u] \in {"status", "publish"}}}
  /\ Ended' = JobsIn(results') \cup {job'[v] : v \in {u \in Worker : wpc'[u] \in {"status", "publish"}}}
  /\ Busy = {v \in Worker : wpc[v] \in {"work", "build", "status", "publish"}}
  /\ Busy' = {v \in Worker : wpc'[v] \in {"work", "build", "status", "publish"}}
  /\ Ended \subseteq AllJobs /\ Ended' \subseteq AllJobs'
<1>1. /\ AllJobs = JobsIn(newRequests) \cup JobsIn(requests) \cup JobsIn(priorityRequests)
               \cup JobsIn(results) \cup {job[v] : v \in Busy}
      /\ AllJobs' = JobsIn(newRequests') \cup JobsIn(requests') \cup JobsIn(priorityRequests')
               \cup JobsIn(results') \cup {job'[v] : v \in Busy'}
  BY DEF AllJobs, Outstanding, JobsIn
<1>2. /\ Ended = JobsIn(results) \cup {job[v] : v \in {u \in Worker : wpc[u] \in {"status", "publish"}}}
      /\ Ended' = JobsIn(results') \cup {job'[v] : v \in {u \in Worker : wpc'[u] \in {"status", "publish"}}}
  BY DEF Ended, JobsIn
<1>3. /\ Busy = {v \in Worker : wpc[v] \in {"work", "build", "status", "publish"}}
      /\ Busy' = {v \in Worker : wpc'[v] \in {"work", "build", "status", "publish"}}
  BY DEF Busy
<1> QED BY <1>1, <1>2, <1>3

\* A step of a worker hands its request on, or adds to it.
LEMMA WorkerJobs ==
  ASSUME TypeInv, NEW w \in Worker, WorkerStep(w)
  PROVE  \/ AllJobs' \subseteq AllJobs /\ Ended' \subseteq Ended
         \/ /\ Working(w) /\ job[w] \in AllJobs
            /\ AllJobs' \subseteq AllJobs \cup {job'[w]} /\ Ended' \subseteq Ended \cup {job'[w]}
<1>0. /\ job \in [Worker -> AcceptedJob] /\ wpc \in [Worker -> WorkerControl] /\ newRequests' = newRequests
      /\ ChannelsOK
  BY WorkerKeepsScheduler DEF TypeInv, WorkersOK, KeepScheduler, schedVars
<1>1. ASSUME KeepChannels, job' = job, Busy' \subseteq Busy,
             \A v \in Worker : wpc'[v] \in {"status", "publish"} => wpc[v] \in {"status", "publish"}
      PROVE  AllJobs' \subseteq AllJobs /\ Ended' \subseteq Ended
  <2>1. JobsIn(results') = JobsIn(results) /\ JobsIn(requests') = JobsIn(requests)
        /\ JobsIn(priorityRequests') = JobsIn(priorityRequests)
    BY <1>1 DEF KeepChannels, chanVars
  <2> QED BY <1>0, <1>1, <2>1, JobsNow
<1>2. CASE Working(w)
  <2>1. KeepChannels /\ Busy' = Busy
    BY <1>2, WorkSteps DEF Working
  <2>2. \A v \in Worker \ {w} : job'[v] = job[v] /\ wpc'[v] = wpc[v]
    BY <1>0, <1>2 DEF Working, PassThrough, SkipIgnored, UseCached, BuildSRPMFile, TestSRPMFile,
       Goto, KeepWork
  <2>3. w \in Busy
    BY <1>2 DEF Busy, Working, PassThrough, SkipIgnored, UseCached, BuildSRPMFile, TestSRPMFile, WorkerAt
  <2>4. JobsIn(results') = JobsIn(results) /\ JobsIn(requests') = JobsIn(requests)
        /\ JobsIn(priorityRequests') = JobsIn(priorityRequests)
    BY <2>1 DEF KeepChannels, chanVars
  <2>5. {job'[v] : v \in Busy'} \subseteq {job[v] : v \in Busy} \cup {job'[w]}
    BY <2>1, <2>2, JobsNow
  <2>6. {job'[v] : v \in {u \in Worker : wpc'[u] \in {"status", "publish"}}}
          \subseteq {job[v] : v \in {u \in Worker : wpc[u] \in {"status", "publish"}}} \cup {job'[w]}
    BY <2>2
  <2>7. AllJobs' \subseteq AllJobs \cup {job'[w]}
    BY <1>0, <2>4, <2>5, JobsNow
  <2>8. Ended' \subseteq Ended \cup {job'[w]}
    BY <2>4, <2>6, JobsNow
  <2>9. job[w] \in AllJobs
    BY <2>3, JobsNow
  <2> QED BY <1>2, <2>7, <2>8, <2>9
<1>3. CASE StartBuild(w) \/ SetAncillaryBuildNodesStatus(w)
  <2>1. KeepChannels /\ job' = job /\ \E at, to : wpc[w] = at /\ Goto(w, to)
           /\ <<at, to>> \in {<<"work", "build">>, <<"status", "publish">>}
    BY <1>3 DEF StartBuild, SetAncillaryBuildNodesStatus, KeepWork, WorkerAt
  <2>2. Busy' = Busy
    BY <1>3, WorkSteps
  <2>3. \A v \in Worker : wpc'[v] \in {"status", "publish"} => wpc[v] \in {"status", "publish"}
    BY <1>0, <2>1 DEF Goto
  <2> QED BY <1>1, <2>1, <2>2, <2>3
<1>4. ASSUME wpc[w] \in {"pollPriority", "select"}, AcceptPriority(w) \/ AcceptNormal(w)
      PROVE  AllJobs' \subseteq AllJobs /\ Ended' \subseteq Ended
  <2>1. PICK req : Accept(w, req) /\ \/ req = Head(priorityRequests) /\ priorityRequests # <<>>
                                        /\ priorityRequests' = Tail(priorityRequests) /\ requests' = requests
                                     \/ req = Head(requests) /\ requests # <<>>
                                        /\ requests' = Tail(requests) /\ priorityRequests' = priorityRequests
    BY <1>4 DEF AcceptPriority, AcceptNormal
  <2>2. /\ JobsIn(requests') \subseteq JobsIn(requests) /\ results' = results
        /\ JobsIn(priorityRequests') \subseteq JobsIn(priorityRequests)
        /\ req \in JobsIn(requests) \cup JobsIn(priorityRequests)
    BY <1>0, <1>4, <2>1, JobsOfQueue DEF ChannelsOK, AcceptPriority, AcceptNormal
  <2>3. job'[w] = req /\ wpc'[w] = "work" /\ \A v \in Worker \ {w} : job'[v] = job[v] /\ wpc'[v] = wpc[v]
    BY <1>0, <2>1 DEF Accept, Goto
  <2>4. {job'[v] : v \in Busy'} \subseteq {job[v] : v \in Busy} \cup {req}
    BY <2>3, JobsNow
  <2>5. Ended' \subseteq Ended
    BY <2>2, <2>3, JobsNow
  <2>6. AllJobs' \subseteq AllJobs
    BY <1>0, <2>2, <2>4, JobsNow
  <2> QED BY <2>5, <2>6
<1>5. ASSUME wpc[w] \in {"poll", "pollPriority", "select"},
             NEW to \in {"pollPriority", "select", "stopped"}, Goto(w, to), KeepWork, KeepChannels
      PROVE  AllJobs' \subseteq AllJobs /\ Ended' \subseteq Ended
  <2>1. job' = job /\ Busy' \subseteq Busy
        /\ \A v \in Worker : wpc'[v] \in {"status", "publish"} => wpc[v] \in {"status", "publish"}
    BY <1>0, <1>5 DEF Goto, KeepWork, Busy
  <2> QED BY <1>1, <1>5, <2>1
<1>6. CASE PollCancel(w)
  BY <1>5, <1>6 DEF PollCancel, WorkerAt, Leave
<1>7. CASE PollPriority(w)
  BY <1>4, <1>5, <1>7 DEF PollPriority, WorkerAt, Leave
<1>8. CASE Select(w)
  BY <1>4, <1>5, <1>8 DEF Select, WorkerAt, Leave
<1>9. CASE PublishResult(w)
  <2>1. /\ results' = Append(results, job[w]) /\ UNCHANGED <<requests, priorityRequests>>
        /\ wpc[w] = "publish" /\ wpc'[w] = "poll"
        /\ \A v \in Worker \ {w} : job'[v] = job[v] /\ wpc'[v] = wpc[v]
    BY <1>0, <1>9 DEF PublishResult, Goto, WorkerAt
  <2>2. JobsIn(results') = JobsIn(results) \cup {job[w]}
    BY <1>0, <2>1, JobsOfQueue DEF ChannelsOK
  <2>3. {job'[v] : v \in Busy'} \subseteq {job[v] : v \in Busy} /\ w \in Busy
    BY <2>1, JobsNow
  <2>4. AllJobs' \subseteq AllJobs
    BY <1>0, <2>1, <2>2, <2>3, JobsNow
  <2>5. Ended' \subseteq Ended
    BY <2>1, <2>2, JobsNow
  <2> QED BY <2>4, <2>5
<1> QED BY <1>2, <1>3, <1>6, <1>7, <1>8, <1>9 DEF WorkerStep, Working

\* Apart from the requests that ConvertNodesToRequests makes, and what a worker
\* adds to its own, requests and results only change places.
LEMMA JobsMove ==
  ASSUME TypeInv, [Next]_vars, ~ConvertNodesToRequests
  PROVE  \/ AllJobs' \subseteq AllJobs /\ Ended' \subseteq Ended
         \/ \E w \in Worker :
               /\ Working(w) /\ job[w] \in AllJobs
               /\ AllJobs' \subseteq AllJobs \cup {job'[w]} /\ Ended' \subseteq Ended \cup {job'[w]}
<1>0. ChannelsOK /\ newRequests \in Seq(AcceptedJob)
  BY DEF TypeInv, LoopOK
<1>1. CASE Quiet
  <2>1. Busy' = Busy
    BY <1>1 DEF Quiet, Busy
  <2> QED BY <1>1, <2>1, JobsNow DEF Quiet
<1>2. CASE SubmitRequest
  <2>1. /\ newRequests # <<>> /\ newRequests' = Tail(newRequests) /\ UNCHANGED <<results, wpc, job>>
        /\ \/ requests' = Append(requests, Head(newRequests)) /\ priorityRequests' = priorityRequests
           \/ priorityRequests' = Append(priorityRequests, Head(newRequests)) /\ requests' = requests
    BY <1>2 DEF SubmitRequest, workerVars
  <2>2. Head(newRequests) \in AcceptedJob /\ JobsIn(newRequests) = {Head(newRequests)} \cup JobsIn(newRequests')
    BY <1>0, <2>1, JobsOfQueue, Queues
  <2>3. JobsIn(requests') \cup JobsIn(priorityRequests')
          = JobsIn(requests) \cup JobsIn(priorityRequests) \cup {Head(newRequests)}
    <3>1. /\ JobsIn(Append(requests, Head(newRequests))) = JobsIn(requests) \cup {Head(newRequests)}
          /\ JobsIn(Append(priorityRequests, Head(newRequests)))
                = JobsIn(priorityRequests) \cup {Head(newRequests)}
      BY <1>0, <2>2, JobsOfQueue DEF ChannelsOK
    <3> QED BY <2>1, <3>1
  <2>4. Busy' = Busy
    BY <2>1 DEF Busy
  <2> QED BY <2>1, <2>2, <2>3, <2>4, JobsNow
<1>3. CASE LicenseCheckerFails \/ ReceiveResult
  <2>1. /\ results # <<>> /\ results' = Tail(results)
        /\ UNCHANGED <<newRequests, requests, priorityRequests, wpc, job>>
    BY <1>3 DEF LicenseCheckerFails, ReceiveResult, workerVars
  <2>2. JobsIn(results') \subseteq JobsIn(results) /\ Busy' = Busy
    BY <1>0, <2>1, JobsOfQueue DEF ChannelsOK, Busy
  <2> QED BY <2>1, <2>2, JobsNow
<1>4. CASE DrainPriority \/ DrainRequests
  <2>1. /\ priorityRequests' # priorityRequests
              => (priorityRequests # <<>> /\ priorityRequests' = Tail(priorityRequests))
        /\ requests' # requests => (requests # <<>> /\ requests' = Tail(requests))
        /\ UNCHANGED <<newRequests, results, wpc, job>>
    <3>1. CASE DrainPriority
      BY <3>1 DEF DrainPriority, workerVars
    <3>2. CASE DrainRequests
      BY <3>2 DEF DrainRequests, workerVars
    <3> QED BY <1>4, <3>1, <3>2
  <2>2. /\ JobsIn(priorityRequests') \subseteq JobsIn(priorityRequests)
        /\ JobsIn(requests') \subseteq JobsIn(requests) /\ Busy' = Busy
    BY <1>0, <2>1, JobsOfQueue DEF ChannelsOK, Busy
  <2> QED BY <2>1, <2>2, JobsNow
<1>5. ASSUME NEW w \in Worker, WorkerStep(w)
      PROVE  \/ AllJobs' \subseteq AllJobs /\ Ended' \subseteq Ended
             \/ /\ Working(w) /\ job[w] \in AllJobs
                /\ AllJobs' \subseteq AllJobs \cup {job'[w]} /\ Ended' \subseteq Ended \cup {job'[w]}
  BY <1>5, WorkerJobs
<1> QED BY <1>1, <1>2, <1>3, <1>4, <1>5, MovingSteps

\* All requests and results are jobs for nodes of the graph.
LEMMA JobsForNodes ==
  ASSUME TypeInv, OrderInv, NEW j \in AllJobs
  PROVE  /\ j \in Job /\ j.node \in j.ancillary /\ j.ancillary \subseteq graph[0].nodes
         /\ j.ancillary \subseteq Held
<1>1. ForNodes(Line, graph[0].nodes)
  BY DEF OrderInv, OneRequestPerNode
<1>2. \E p \in Places(Line) : At(Line, p) = j
  <2>1. CASE j \in Outstanding
    BY <2>1, PlacesHold
  <2>2. CASE j \in JobsIn(newRequests)
    <3>1. PICK i \in DOMAIN newRequests : j = newRequests[i]
      BY <2>2 DEF JobsIn
    <3>2. <<Queue("new"), i>> \in Places(Line) /\ At(Line, <<Queue("new"), i>>) = j
      BY <3>1, LineNow, LineName DEF Places, At
    <3> QED BY <3>2
  <2> QED BY <2>1, <2>2 DEF AllJobs
<1>3. j \in Job
  <2>1. PICK p \in Places(Line) : At(Line, p) = j
    BY <1>2
  <2>2. p[1] \in LineNames /\ p[2] \in DOMAIN Line[p[1]]
    BY <2>1 DEF Places
  <2>3. Line[p[1]] \in Seq(AcceptedJob)
    BY <2>2, LineTyped
  <2> QED BY <2>1, <2>2, <2>3 DEF At, AcceptedJob
<1> QED BY <1>1, <1>2, <1>3 DEF ForNodes, Held, HeldIn

\* A build that succeeds leaves all the RPMs of its SRPM: those that the graph says
\* it builds, and those that were there.
LEMMA BuildLeavesAll ==
  ASSUME FilledGraph(graph[0], attr, disk), NEW s
  PROVE  RPMsOf(graph[0], attr, s) \subseteq disk \cup OutputOf(s)
<1>1. ASSUME NEW f \in RPMsOf(graph[0], attr, s) PROVE f \in disk \cup OutputOf(s)
  <2>1. PICK n \in graph[0].nodes : attr[n].srpm = s /\ attr[n].rpm = f
    BY <1>1, RPMsAre
  <2>2. f # NoRPM
    BY <1>1, RPMsAre
  <2> QED BY <2>1, <2>2 DEF FilledGraph
<1> QED BY <1>1

\* What a worker adds to its result exists.
LEMMA WorkFiled ==
  ASSUME TypeInv, OrderInv, FileInv, NEW w \in Worker, Working(w), job[w] \in AllJobs
  PROVE  Filed(job'[w], graph'[0], attr', disk') /\ Left(job'[w], graph'[0], attr', disk')
<1> DEFINE j == job[w]
           s == attr[j.node].srpm
<1>0. job \in [Worker -> AcceptedJob] /\ wpc \in [Worker -> WorkerControl]
  BY DEF TypeInv, WorkersOK
<1>1. graph' = graph /\ attr' = attr /\ disk \subseteq disk'
  BY DEF Working, PassThrough, SkipIgnored, UseCached, BuildSRPMFile, TestSRPMFile, KeepScheduler
<1>2. j \in Job /\ j.node \in graph[0].nodes /\ Filed(j, graph[0], attr, disk)
  BY JobsForNodes DEF FileInv
<1>3. IsIgnored(w) /\ IsBuild(attr, j) => RPMsOf(graph[0], attr, s) \subseteq disk
  BY <1>2 DEF IsIgnored, IsBuild, FileInv, IgnoredExist, TypeOf
<1>4. ASSUME NEW fl, NEW bu, job' = [job EXCEPT ![w] = [j EXCEPT !.flags = fl, !.built = bu]],
             "UseCache" \in fl => "UseCache" \in j.flags, bu \subseteq disk',
             IsBuild(attr, j) /\ "Err" \notin fl => RPMsOf(graph[0], attr, s) \subseteq disk'
      PROVE  Filed(job'[w], graph'[0], attr', disk') /\ Left(job'[w], graph'[0], attr', disk')
  <2>1. job'[w] = [j EXCEPT !.flags = fl, !.built = bu]
    BY <1>0, <1>4
  <2>2. /\ job'[w].graph = j.graph /\ job'[w].built = bu /\ job'[w].flags = fl
        /\ job'[w].ancillary = j.ancillary /\ job'[w].node = j.node
    BY <1>2, <2>1 DEF Job
  <2> HIDE DEF j
  <2>3. IsBuild(attr, job'[w]) <=> IsBuild(attr, j)
    BY <2>2 DEF IsBuild
  <2>4. Left(job'[w], graph[0], attr, disk')
    BY <1>4, <2>2, <2>3 DEF Left
  <2>5. Filed(job'[w], graph[0], attr, disk')
    BY <1>1, <1>2, <1>4, <2>2, <2>3 DEF Filed
  <2> QED BY <1>1, <2>4, <2>5
<1>5. j.built \subseteq disk
  BY <1>2 DEF Filed
<1>6. CASE PassThrough(w)
  <2>1. job' = job /\ ~IsBuild(attr, j)
    BY <1>6 DEF PassThrough, KeepWork, IsBuildOrTest, TypeOf, IsBuild
  <2>2. Filed(j, graph[0], attr, disk') /\ Left(j, graph[0], attr, disk')
    BY <1>1, <1>2, <2>1 DEF Filed, Left
  <2> QED BY <1>1, <2>1, <2>2
<1>7. CASE SkipIgnored(w)
  <2>1. job' = [job EXCEPT ![w] = [j EXCEPT !.flags = j.flags \cup {"Ignored"}, !.built = j.built]]
    BY <1>0, <1>2, <1>7 DEF SkipIgnored, Job
  <2> DEFINE fl == j.flags \cup {"Ignored"}
  <2>2. ("UseCache" \in fl => "UseCache" \in j.flags) /\ IsIgnored(w)
    BY <1>7 DEF SkipIgnored
  <2>3. job' = [job EXCEPT ![w] = [j EXCEPT !.flags = fl, !.built = j.built]]
    BY <2>1
  <2> HIDE DEF fl, j
  <2> QED BY <1>1, <1>3, <1>4, <1>5, <2>2, <2>3
<1>8. CASE UseCached(w)
  <2>1. CASE IsBuild(attr, j)
    <3>1. RPMsOf(graph[0], attr, s) \subseteq disk /\ j.graph = 0
      BY <1>2, <1>8, <2>1 DEF Filed, UseCached
    <3>2. job' = [job EXCEPT ![w] = [j EXCEPT !.flags = j.flags, !.built = RPMsOf(graph[0], attr, s)]]
      BY <1>0, <1>2, <1>8, <2>1, <3>1 DEF UseCached, Job, IsBuild, TypeOf
    <3> QED BY <1>1, <1>4, <3>1, <3>2
  <2>2. CASE ~IsBuild(attr, j)
    <3>1. job' = job
      BY <1>8, <2>2 DEF UseCached, IsBuild, TypeOf
    <3>2. Filed(j, graph[0], attr, disk') /\ Left(j, graph[0], attr, disk')
      BY <1>1, <1>2, <2>2 DEF Filed, Left
    <3> QED BY <1>1, <3>1, <3>2
  <2> QED BY <2>1, <2>2
<1>9. CASE BuildSRPMFile(w)
  <2>1. \/ job' = [job EXCEPT ![w].built = OutputOf(s)] /\ disk' = disk \cup OutputOf(s)
        \/ job' = [job EXCEPT ![w].flags = @ \cup {"Err"}]
    BY <1>9 DEF BuildSRPMFile, OutputOf
  <2>2. CASE job' = [job EXCEPT ![w].built = OutputOf(s)] /\ disk' = disk \cup OutputOf(s)
    <3>1. job' = [job EXCEPT ![w] = [j EXCEPT !.flags = j.flags, !.built = OutputOf(s)]]
      BY <1>0, <1>2, <2>2 DEF Job
    <3>2. RPMsOf(graph[0], attr, s) \subseteq disk'
      BY <2>2, BuildLeavesAll DEF FileInv
    <3> HIDE DEF s
    <3> QED BY <1>4, <2>2, <3>1, <3>2 DEF s
  <2>3. CASE job' = [job EXCEPT ![w].flags = @ \cup {"Err"}]
    <3>1. job' = [job EXCEPT ![w] = [j EXCEPT !.flags = j.flags \cup {"Err"}, !.built = j.built]]
      BY <1>0, <1>2, <2>3 DEF Job
    <3> DEFINE fl == j.flags \cup {"Err"}
    <3>2. ("UseCache" \in fl => "UseCache" \in j.flags) /\ "Err" \in fl
      OBVIOUS
    <3>3. job' = [job EXCEPT ![w] = [j EXCEPT !.flags = fl, !.built = j.built]]
      BY <3>1
    <3> HIDE DEF fl, j
    <3> QED BY <1>1, <1>4, <1>5, <3>2, <3>3
  <2> QED BY <2>1, <2>2, <2>3
<1>10. CASE TestSRPMFile(w)
  <2>1. PICK x \in SUBSET {"Err", "CheckFailed"} : job' = [job EXCEPT ![w].flags = @ \cup x]
    BY <1>10 DEF TestSRPMFile
  <2>2. job' = [job EXCEPT ![w] = [j EXCEPT !.flags = j.flags \cup x, !.built = j.built]]
    BY <1>0, <1>2, <2>1 DEF Job
  <2>3. ~IsBuild(attr, j)
    BY <1>10 DEF TestSRPMFile, TypeOf, IsBuild
  <2> DEFINE fl == j.flags \cup x
  <2>4. "UseCache" \in fl => "UseCache" \in j.flags
    OBVIOUS
  <2>5. job' = [job EXCEPT ![w] = [j EXCEPT !.flags = fl, !.built = j.built]]
    BY <2>2
  <2> HIDE DEF fl, j
  <2> QED BY <1>1, <1>4, <1>5, <2>3, <2>4, <2>5
<1> QED BY <1>6, <1>7, <1>8, <1>9, <1>10 DEF Working

\* A request that may use the cache is for a node with all its RPMs.
LEMMA RequestFields ==
  ASSUME NEW g, NEW n, NEW ancillary, NEW rebuild, NEW cacheAllowed, NEW delta, NEW r,
         r = BuildRequest(g, n, ancillary, rebuild, cacheAllowed, delta)
  PROVE  /\ r.node = n /\ r.ancillary = ancillary /\ r.graph = Current /\ r.built = {}
         /\ "UseCache" \in r.flags => ~NodeHasMissingRPMs(g, n)
<1>1. /\ r.node = n /\ r.ancillary = ancillary /\ r.graph = Current /\ r.built = {}
  BY DEF BuildRequest
<1>2. "UseCache" \in r.flags => ~IsRequiredRebuild(g, n, rebuild)
  BY DEF BuildRequest
<1> QED BY <1>1, <1>2 DEF IsRequiredRebuild

\* So the requests of ConvertNodesToRequests are well filed.
LEMMA ConvertFiled ==
  ASSUME TypeInv, OrderInv, FileInv, ConvertNodesToRequests
  PROVE  \A j \in JobsIn(newRequests') : Filed(j, graph'[0], attr', disk')
<1>0. /\ nodesToBuild \subseteq Node /\ G \in Graph /\ G = graph[0] /\ Current = 0
      /\ graph \in [{0, 1} -> Graph] /\ pc = "convert" /\ attr' = attr /\ disk' = disk
      /\ nodesToBuild \subseteq graph[0].nodes
  BY DEF TypeInv, LoopOK, GraphsOK, G, Current, OrderInv, Orderly, OrderlyBuild, ConvertNodesToRequests,
     ReadyToStart
<1>1. PICK first \in Choices(Groups("LocalBuild")), last \in Choices(Groups("LocalBuild")),
           firstTest \in Choices(Groups("Test")) :
        LET tested   == TestedGroups(first)
            pruned   == RemoveEdges(G, {<<PartnerTest(G, b), b>> : b \in UNION tested})
            builds   == {BuildGroupRequest(first, gr) : gr \in NewBuildGroups(first)}
            partners == {PartnerRequest(pruned, first, last, gr) :
                            gr \in ReadyPartners(pruned, tested, last)}
            tests    == {TestGroupRequest(pruned, firstTest, gr) :
                            gr \in NewTestGroups(firstTest)}
        IN  /\ \A b \in UNION tested : PartnerTests(G, b) # {}
            /\ graph' = [graph EXCEPT ![Current] = pruned]
            /\ \E q \in Orders(OtherRequests \cup builds \cup partners \cup tests) :
                   newRequests' = q
  BY Zenon DEF ConvertNodesToRequests
<1> DEFINE tested   == TestedGroups(first)
           pruned   == RemoveEdges(G, {<<PartnerTest(G, b), b>> : b \in UNION tested})
           builds   == {BuildGroupRequest(first, gr) : gr \in NewBuildGroups(first)}
           partners == {PartnerRequest(pruned, first, last, gr) :
                            gr \in ReadyPartners(pruned, tested, last)}
           tests    == {TestGroupRequest(pruned, firstTest, gr) :
                            gr \in NewTestGroups(firstTest)}
           All == OtherRequests \cup builds \cup partners \cup tests
<1>2. \A b \in UNION tested : PartnerTests(G, b) # {}
  BY <1>1, Zenon
<1>3. PICK q \in Orders(All) : newRequests' = q
  BY <1>1, Zenon
<1>4. \A j \in JobsIn(newRequests') : j \in All
  BY <1>3 DEF Orders, JobsIn
<1>5. \A s : RPMsOf(graph'[0], attr, s) = RPMsOf(graph[0], attr, s)
  <2>1. graph'[0].nodes = graph[0].nodes
    BY FieldsMove DEF Next, SchedulerStep
  <2> QED BY <2>1 DEF RPMsOf
<1>6. ASSUME NEW type, NEW c \in Choices(Groups(type)), NEW gr \in DOMAIN c
      PROVE  /\ c[gr] \in gr /\ gr \subseteq nodesToBuild
             /\ \A n \in gr : attr[n].type = type /\ attr[n].srpm = attr[c[gr]].srpm
  <2>1. gr \in Groups(type) /\ c[gr] \in gr
    BY DEF Choices
  <2> QED BY <2>1 DEF Groups, NodesOfType
<1> HIDE DEF pruned, tested
<1>7. ASSUME NEW j, j.graph = 0, j.built = {}, ~IsBuild(attr, j),
             \A n \in j.ancillary : attr[n].type # "LocalBuild"
      PROVE  Filed(j, graph'[0], attr', disk')
  BY <1>0, <1>7 DEF Filed
<1>8. ASSUME NEW j \in OtherRequests PROVE Filed(j, graph'[0], attr', disk')
  <2>1. PICK n \in nodesToBuild :
           /\ attr[n].type \notin {"LocalBuild", "Test"}
           /\ j = BuildRequest(G, n, {n}, PackagesToRebuild, CanUseCache, attr[n].state = "Delta")
    BY <1>8 DEF OtherRequests
  <2>2. j.node = n /\ j.ancillary = {n} /\ j.graph = 0 /\ j.built = {}
    BY <1>0, <2>1 DEF BuildRequest
  <2> QED BY <1>7, <2>1, <2>2 DEF IsBuild
<1>9. ASSUME NEW j \in builds PROVE Filed(j, graph'[0], attr', disk')
  <2>1. PICK gr \in NewBuildGroups(first) : j = BuildGroupRequest(first, gr)
    BY <1>9
  <2>2. /\ j.node = first[gr] /\ j.ancillary = gr /\ j.graph = 0 /\ j.built = {}
        /\ "UseCache" \in j.flags => ~NodeHasMissingRPMs(G, first[gr])
    BY <1>0, <2>1, RequestFields DEF BuildGroupRequest
  <2>3. /\ first[gr] \in gr /\ gr \subseteq nodesToBuild
        /\ \A n \in gr : attr[n].type = "LocalBuild" /\ attr[n].srpm = attr[first[gr]].srpm
    BY <1>6, <2>1 DEF NewBuildGroups
  <2>4. attr[first[gr]].srpm # NoSRPM
    BY <1>0, <2>3 DEF FileInv, FilledGraph
  <2>5. "UseCache" \in j.flags => RPMsOf(graph'[0], attr, attr[j.node].srpm) \subseteq disk
    BY <1>0, <1>5, <2>2, <2>4 DEF NodeHasMissingRPMs
  <2> QED BY <1>0, <2>2, <2>3, <2>5 DEF Filed, IsBuild
<1>10. ASSUME NEW j \in tests PROVE Filed(j, graph'[0], attr', disk')
  <2>1. PICK gr \in NewTestGroups(firstTest) : j = TestGroupRequest(pruned, firstTest, gr)
    BY <1>10
  <2>2. /\ j.node = firstTest[gr] /\ j.ancillary = gr /\ j.graph = 0 /\ j.built = {}
    BY <1>0, <2>1 DEF TestGroupRequest, BuildRequest
  <2>3. firstTest[gr] \in gr /\ \A n \in gr : attr[n].type = "Test"
    BY <1>6, <2>1 DEF NewTestGroups
  <2> QED BY <1>7, <2>2, <2>3 DEF IsBuild
<1>11. ASSUME NEW j \in partners PROVE Filed(j, graph'[0], attr', disk')
  <2>1. PICK gr \in ReadyPartners(pruned, tested, last) : j = PartnerRequest(pruned, first, last, gr)
    BY <1>11
  <2>2. /\ j.node = PartnerTest(G, last[gr]) /\ j.ancillary = {PartnerTest(G, b) : b \in gr}
        /\ j.graph = 0 /\ j.built = {}
    BY <1>0, <2>1 DEF PartnerRequest, BuildRequest
  <2>3. gr \in tested /\ gr \in DOMAIN last
    BY <2>1 DEF ReadyPartners, TestedGroups, NewBuildGroups, Choices, tested
  <2>4. last[gr] \in gr
    BY <1>6, <2>3
  <2>5. ASSUME NEW b \in gr PROVE attr[PartnerTest(G, b)].type = "Test"
    <3>1. PartnerTests(G, b) # {}
      BY <1>2, <2>3
    <3>2. PartnerTest(G, b) \in PartnerTests(G, b)
      BY <3>1 DEF PartnerTest
    <3> QED BY <3>2 DEF PartnerTests
  <2> QED BY <1>7, <2>2, <2>4, <2>5 DEF IsBuild
<1> QED BY <1>4, <1>8, <1>9, <1>10, <1>11

\* Every request and every result stays well filed, and what has ended has left
\* what it should.
LEMMA FiledStep ==
  ASSUME TypeInv, OrderInv, FileInv, [Next]_vars
  PROVE  /\ \A j \in AllJobs' : Filed(j, graph'[0], attr', disk')
         /\ \A j \in Ended' : Left(j, graph'[0], attr', disk')
<1>1. ASSUME NEW j \in AllJobs PROVE Filed(j, graph'[0], attr', disk')
  <2>1. j \in Job /\ Filed(j, graph[0], attr, disk)
    BY JobsForNodes DEF FileInv
  <2> QED BY <2>1, FiledStays
<1>2. ASSUME NEW j \in Ended PROVE Left(j, graph'[0], attr', disk')
  <2>1. j \in Job /\ j.node \in Node
    BY JobsForNodes, JobsNow DEF Job
  <2>2. /\ SameNodes(attr, attr')
    BY FieldsMove
  <2>3. ASSUME IsBuild(attr', j), "Err" \notin j.flags
        PROVE  RPMsOf(graph'[0], attr', attr'[j.node].srpm) \subseteq disk'
    <3>1. IsBuild(attr, j) /\ attr'[j.node].srpm = attr[j.node].srpm
      BY <2>1, <2>2, <2>3 DEF SameNodes, IsBuild
    <3>2. Present(attr[j.node].srpm)
      BY <2>3, <3>1 DEF FileInv, BuiltMeansPresent, Left, Present
    <3>3. ASSUME NEW s, s = attr[j.node].srpm PROVE RPMsOf(graph'[0], attr', s) \subseteq disk'
      BY <3>2, <3>3, PresentStays DEF Present
    <3> QED BY <3>1, <3>3
  <2> QED BY <2>3 DEF Left
<1>3. CASE ConvertNodesToRequests
  <2>1. UNCHANGED <<requests, priorityRequests, results, job, wpc>>
    BY <1>3 DEF ConvertNodesToRequests, chanVars, workerVars
  <2>2. Busy' = Busy
    BY <2>1 DEF Busy
  <2>3. AllJobs' \subseteq AllJobs \cup JobsIn(newRequests') /\ Ended' = Ended
    BY <2>1, <2>2, JobsNow
  <2> QED BY <1>1, <1>2, <1>3, <2>3, ConvertFiled
<1>4. CASE ~ConvertNodesToRequests
  BY <1>1, <1>2, <1>4, JobsMove, WorkFiled
<1> QED BY <1>3, <1>4

\* What a node that has been done, or is not built at all, names is there.
LEMMA AvailableFiles ==
  ASSUME TypeInv, OrderInv, FileInv, NEW n \in graph[0].nodes, attr[n].type # "LocalBuild",
         IsNodeAvailable(n), attr[n].rpm # NoRPM
  PROVE  attr[n].rpm \in disk
<1>1. CASE attr[n].type # "LocalRun"
  BY <1>1 DEF FileInv, FilledGraph
<1>2. CASE attr[n].type = "LocalRun"
  <2>1. PICK b \in From(graph[0], n) : attr[b].type = "LocalBuild" /\ attr[b].srpm = attr[n].srpm
    BY <1>2 DEF FileInv, FilledGraph
  <2>2. n \in Node /\ n \in Started
    <3>1. n \in Node
      BY GraphFields DEF TypeInv, GraphsOK
    <3> QED BY <3>1 DEF OrderInv, OneRequestPerNode, Started, Processed
  <2>3. b \in graph[0].nodes /\ IsNodeAvailable(b)
    BY <2>1, <2>2 DEF OrderInv, DepsFirst, AllAvailable, Orderly, OrderlyBuild, OrderlyGraph
  <2>4. Present(attr[n].srpm)
    BY <2>1, <2>3 DEF FileInv, BuiltMeansPresent
  <2>5. attr[n].rpm \in RPMsOf(graph[0], attr, attr[n].srpm)
    BY RPMsAre
  <2> QED BY <2>4, <2>5 DEF Present
<1> QED BY <1>1, <1>2

\* The dependencies that a worker installs are named by nodes that are available.
LEMMA DependenciesNamed ==
  ASSUME TypeInv, OrderInv, FileInv, NEW n \in Started, n \in graph[0].nodes,
         NEW f \in BuildDependencies(graph[0], n)
  PROVE  \E m \in graph[0].nodes : /\ attr[m].type # "LocalBuild" /\ IsNodeAvailable(m)
                                   /\ attr[m].rpm = f /\ f # NoRPM
<1> DEFINE S == {n} \cup {m \in graph[0].nodes : IsNodeAvailable(m) /\ attr[m].type # "LocalBuild"}
           D == [m \in Node |-> {d \in From(graph[0], m) : attr[d].type # "LocalBuild"}]
           h == [graph[0] EXCEPT !.deps = D]
<1>0. graph[0] \in Graph /\ graph[0].nodes \subseteq Node
  BY GraphFields DEF TypeInv, GraphsOK
<1>1. D \in [Node -> SUBSET Node]
  BY <1>0, GraphFields
<1>2. h.deps = D /\ h.nodes = graph[0].nodes
  BY <1>0 DEF Graph
<1>3. ASSUME NEW m \in S PROVE From(h, m) \subseteq S
  <2>1. m \in graph[0].nodes /\ m \in Node /\ m \in Started
    BY <1>0, <1>3 DEF OrderInv, OneRequestPerNode, Started, Processed
  <2>2. \A d \in From(graph[0], m) : d \in graph[0].nodes /\ IsNodeAvailable(d)
    BY <2>1 DEF OrderInv, DepsFirst, AllAvailable, Orderly, OrderlyBuild, OrderlyGraph
  <2>3. From(h, m) = {d \in From(graph[0], m) : attr[d].type # "LocalBuild"}
    BY <1>2, <2>1 DEF From
  <2> QED BY <2>2, <2>3
<1>4. RuntimeClosure(graph[0], n) = Reach(h, n)
  BY DEF RuntimeClosure
<1>5. S \in SUBSET Node /\ n \in S
  BY <1>0
<1>6. RuntimeClosure(graph[0], n) \subseteq S
  <2> HIDE DEF h, D, S
  <2> QED BY <1>0, <1>1, <1>2, <1>3, <1>4, <1>5, ReachWithin
<1>7. f # NoRPM /\ f # attr[n].rpm /\ \E m \in RuntimeClosure(graph[0], n) : f = attr[m].rpm
  BY DEF BuildDependencies
<1>8. PICK m \in RuntimeClosure(graph[0], n) : f = attr[m].rpm
  BY <1>7
<1>9. m \in graph[0].nodes /\ IsNodeAvailable(m) /\ attr[m].type # "LocalBuild"
  BY <1>6, <1>7, <1>8
<1> QED BY <1>7, <1>8, <1>9

\* So they exist.
LEMMA DependenciesExist ==
  ASSUME TypeInv, OrderInv, FileInv, NEW n \in Started, n \in graph[0].nodes
  PROVE  BuildDependencies(graph[0], n) \subseteq disk
<1>1. ASSUME NEW f \in BuildDependencies(graph[0], n) PROVE f \in disk
  <2>1. PICK m \in graph[0].nodes : /\ attr[m].type # "LocalBuild" /\ IsNodeAvailable(m)
                                    /\ attr[m].rpm = f /\ f # NoRPM
    BY <1>1, DependenciesNamed
  <2> QED BY <2>1, AvailableFiles
<1> QED BY <1>1

\* Only the start of a build gives a worker something to install.
LEMMA InstallsChange ==
  ASSUME TypeInv, [Next]_vars, NEW w \in Worker, wpc'[w] = "build"
  PROVE  \/ StartBuild(w)
         \/ wpc[w] = "build" /\ installs'[w] = installs[w]
<1>0. wpc \in [Worker -> WorkerControl] /\ installs \in [Worker -> SUBSET Path]
  BY DEF TypeInv, WorkersOK
<1>1. CASE UNCHANGED <<wpc, installs>>
  BY <1>1
<1>2. ASSUME NEW v \in Worker, WorkerStep(v)
      PROVE  \/ StartBuild(w)
             \/ wpc[w] = "build" /\ installs'[w] = installs[w]
  <2>1. CASE v = w
    <3>1. \/ StartBuild(w)
          \/ \E to \in {"pollPriority", "select", "stopped", "work", "status", "publish", "poll"} : Goto(w, to)
      BY <1>2, <2>1 DEF WorkerStep, PollCancel, PollPriority, Select, PassThrough, SkipIgnored,
         UseCached, BuildSRPMFile, TestSRPMFile, SetAncillaryBuildNodesStatus, PublishResult,
         Leave, AcceptPriority, AcceptNormal, Accept
    <3> QED BY <1>0, <3>1 DEF Goto
  <2>2. CASE v # w
    <3>1. \E to : Goto(v, to)
      BY <1>2 DEF WorkerStep, PollCancel, PollPriority, Select, PassThrough, SkipIgnored,
         UseCached, BuildSRPMFile, TestSRPMFile, SetAncillaryBuildNodesStatus, PublishResult,
         Leave, AcceptPriority, AcceptNormal, Accept, StartBuild
    <3>2. installs' = installs \/ \E x : installs' = [installs EXCEPT ![v] = x]
      BY <1>2 DEF WorkerStep, PollCancel, PollPriority, Select, PassThrough, SkipIgnored,
         UseCached, BuildSRPMFile, TestSRPMFile, SetAncillaryBuildNodesStatus, PublishResult,
         Leave, AcceptPriority, AcceptNormal, Accept, StartBuild, KeepWork
    <3> QED BY <1>0, <2>2, <3>1, <3>2 DEF Goto
  <2> QED BY <2>1, <2>2
<1>3. CASE SchedulerStep
  <2>1. UNCHANGED workerVars
    BY <1>3 DEF SchedulerStep, StartAtLeaves, ConvertNodesToRequests, ConvertPanics, SubmitRequest,
       EnableCachedImplicit, CouldNotBuildAll, LicenseCheckerFails, ReceiveResult,
       SetAssociatedDeltaPaths, InjectProvide, FinishFile, FinishInject, BreakCycle, NoMoreCycles,
       Optimize, Advance, StopBuild, DoneBuild, CloseRequests, ClosePriority, CloseChannel,
       DrainPriority, DrainRequests
  <2> QED BY <1>1, <2>1 DEF workerVars
<1>4. CASE Finished \/ UNCHANGED vars
  BY <1>1, <1>4 DEF Finished, vars, workerVars
<1> QED BY <1>2, <1>3, <1>4 DEF Next

\* What a worker installs is on disk.
LEMMA InstallsStep ==
  ASSUME TypeInv, OrderInv, FileInv, [Next]_vars
  PROVE  InstallsOnDisk'
<1>1. disk \subseteq disk'
  BY FieldsMove
<1>2. ASSUME NEW w \in Worker, wpc'[w] = "build" PROVE installs'[w] \subseteq disk'
  <2>1. CASE StartBuild(w)
    <3>1. w \in Busy
      BY <2>1 DEF StartBuild, WorkerAt, Busy
    <3>2. job[w] \in AllJobs
      BY <3>1, JobsNow
    <3>3. job[w].node \in graph[0].nodes /\ job[w].node \in Started /\ job[w].graph = 0
      BY <3>2, JobsForNodes DEF Started, FileInv, Filed
    <3>4. BuildDependencies(graph[0], job[w].node) \subseteq disk
      BY <3>3, DependenciesExist
    <3>5. installs'[w] = BuildDependencies(graph[0], job[w].node)
      BY <2>1, <3>3 DEF StartBuild, TypeInv, WorkersOK
    <3> QED BY <1>1, <3>4, <3>5
  <2>2. CASE wpc[w] = "build" /\ installs'[w] = installs[w]
    BY <1>1, <2>2 DEF FileInv, InstallsOnDisk
  <2> QED BY <1>2, <2>1, <2>2, InstallsChange
<1> QED BY <1>2 DEF InstallsOnDisk

\* The first of the results is one that ended.
LEMMA ResultEnded ==
  ASSUME TypeInv, results # <<>>
  PROVE  Head(results) \in Ended /\ Head(results) \in AllJobs
<1>1. Head(results) \in JobsIn(results)
  BY JobsOfQueue DEF TypeInv, ChannelsOK
<1> QED BY <1>1, JobsNow

\* The result that the scheduler holds names files that exist.
LEMMA ResultStep ==
  ASSUME TypeInv, OrderInv, FileInv, [Next]_vars
  PROVE  result'.built \subseteq disk'
<1>1. disk \subseteq disk' /\ result.built \subseteq disk
  BY FieldsMove DEF FileInv
<1>2. CASE result' = result
  BY <1>1, <1>2
<1>3. CASE LicenseCheckerFails \/ ReceiveResult
  <2>1. results # <<>> /\ result' = Head(results)
    BY <1>3 DEF LicenseCheckerFails, ReceiveResult
  <2>2. Head(results).built \subseteq disk
    BY <2>1, ResultEnded DEF FileInv, Filed
  <2> QED BY <1>1, <2>1, <2>2
<1>4. Quiet => result' = result
  BY DEF Quiet
<1>5. SubmitRequest \/ DrainPriority \/ DrainRequests => result' = result
  BY DEF SubmitRequest, DrainPriority, DrainRequests
<1>6. ASSUME NEW w \in Worker, WorkerStep(w) PROVE result' = result
  BY <1>6, WorkerKeepsScheduler DEF KeepScheduler, schedVars
<1> QED BY <1>2, <1>3, <1>4, <1>5, <1>6, MovingSteps

\* A build node that becomes available has all the RPMs of its SRPM.
LEMMA RecordedStep ==
  ASSUME TypeInv, OrderInv, FileInv, [Next]_vars, NEW n \in graph'[0].nodes,
         attr'[n].type = "LocalBuild", IsNodeAvailable(n)'
  PROVE  RPMsOf(graph'[0], attr', attr'[n].srpm) \subseteq disk'
<1>1. /\ n \in graph[0].nodes /\ n \in Node /\ attr[n].type = "LocalBuild"
      /\ attr'[n].srpm = attr[n].srpm
  <2>1. graph'[0].nodes = graph[0].nodes /\ SameNodes(attr, attr')
    BY FieldsMove
  <2>2. n \in graph[0].nodes /\ n \in Node
    BY <2>1, GraphFields DEF TypeInv, GraphsOK
  <2> QED BY <2>1, <2>2 DEF SameNodes
<1>2. Present(attr[n].srpm)
  <2>1. CASE IsNodeAvailable(n)
    BY <1>1, <2>1 DEF FileInv, BuiltMeansPresent
  <2>2. CASE ~IsNodeAvailable(n)
    <3>1. ReceiveResult
      BY <2>2, OnwardStep DEF Onward, IsNodeAvailable
    <3>2. /\ results # <<>>
          /\ \/ nodeToState' = nodeToState
             \/ nodeToState' = [m \in Node |-> IF m \in Head(results).ancillary
                                               THEN StateOf(Head(results)) ELSE nodeToState[m]]
      BY <3>1 DEF ReceiveResult, RecordBuildResult
    <3>3. n \in Head(results).ancillary /\ "Err" \notin Head(results).flags
      BY <1>1, <2>2, <3>2 DEF IsNodeAvailable, StateOf
    <3>4. Head(results) \in Ended /\ Filed(Head(results), graph[0], attr, disk)
      BY <3>2, ResultEnded DEF FileInv
    <3>5. IsBuild(attr, Head(results)) /\ attr[n].srpm = attr[Head(results).node].srpm
      BY <1>1, <3>3, <3>4 DEF Filed
    <3> QED BY <3>3, <3>4, <3>5 DEF FileInv, BuiltMeansPresent, Left, Present
  <2> QED BY <2>1, <2>2
<1>3. ASSUME NEW s, s = attr[n].srpm PROVE RPMsOf(graph'[0], attr', s) \subseteq disk'
  BY <1>2, <1>3, PresentStays DEF Present
<1> QED BY <1>1, <1>3

\* The step of the invariant of files.
LEMMA FileStep ==
  ASSUME TypeInv, OrderInv, FileInv, [Next]_vars
  PROVE  FileInv'
<1>1. FilledGraph(graph[0], attr, disk)' /\ IgnoredExist(graph[0], attr, disk)'
  BY FilledStays
<1>2. (\A j \in AllJobs : Filed(j, graph[0], attr, disk))'
  BY FiledStep DEF Filed, IsBuild, RPMsOf
<1>3. (\A j \in Ended : Left(j, graph[0], attr, disk))'
  BY FiledStep DEF Left, IsBuild, RPMsOf
<1>4. (\A n \in graph[0].nodes :
          attr[n].type = "LocalBuild" /\ IsNodeAvailable(n) => Present(attr[n].srpm))'
  BY RecordedStep DEF Present, IsNodeAvailable, RPMsOf
<1>5. BuiltMeansPresent'
  BY <1>3, <1>4 DEF BuiltMeansPresent
<1>6. (result.built \subseteq disk)'
  BY ResultStep
<1>7. InstallsOnDisk'
  BY InstallsStep
<1> QED BY <1>1, <1>2, <1>5, <1>6, <1>7 DEF FileInv

\* At first nothing is requested, available or installed.
LEMMA FileInit ==
  ASSUME Init, FilledBuild
  PROVE  FileInv
<1>1. /\ newRequests = <<>> /\ requests = <<>> /\ priorityRequests = <<>> /\ results = <<>>
      /\ result = NoJob /\ nodeToState = [n \in Node |-> Unprocessed]
      /\ wpc = [w \in Worker |-> "poll"]
  BY DEF Init
<1>2. AllJobs = {} /\ Ended = {}
  BY <1>1 DEF AllJobs, Outstanding, JobsIn, Busy, Ended
<1>3. graph[0].nodes \subseteq Node
  BY InitInv, GraphFields DEF TypeInv, GraphsOK
<1>4. \A n \in graph[0].nodes : ~IsNodeAvailable(n)
  BY <1>1, <1>3 DEF IsNodeAvailable, Unprocessed
<1>5. result.built = {}
  BY <1>1 DEF NoJob
<1>6. InstallsOnDisk
  BY <1>1 DEF InstallsOnDisk
<1> QED BY <1>2, <1>4, <1>5, <1>6 DEF FileInv, BuiltMeansPresent, FilledBuild

\* The three invariants hold together.
LEMMA FilesHold == Spec /\ FilledBuild => [](TypeInv /\ OrderInv /\ FileInv)
<1>1. Init /\ FilledBuild => TypeInv /\ OrderInv /\ FileInv
  BY InitInv, OrderInit, FileInit DEF FilledBuild
<1>2. TypeInv /\ OrderInv /\ FileInv /\ [Next]_vars => TypeInv' /\ OrderInv' /\ FileInv'
  BY TypeStep, OrderStep, FileStep
<1> QED BY <1>1, <1>2, PTL DEF Spec

\* The package manager is never asked to install an RPM that does not exist.
THEOREM InstallsExist == Spec /\ FilledBuild => []InstallsOnDisk
<1>1. FileInv => InstallsOnDisk
  BY DEF FileInv
<1> QED BY <1>1, FilesHold, PTL

\* A walk visits what its first node has edges to.
LEMMA ReachNext ==
  ASSUME NEW g \in Graph, NEW n \in g.nodes
  PROVE  {n} \cup From(g, n) \subseteq Reach(g, n)
<1>0. g.nodes \in SUBSET Node /\ g.deps \in [Node -> SUBSET Node] /\ n \in Node
  BY GraphFields
<1>1. PICK W : Reach(g, n) = W[Cardinality(g.nodes)] /\ IsWalk(g, n, W)
  BY <1>0, ReachSteps
<1>2. Cardinality(g.nodes) \in Nat \ {0}
  <2>1. IsFiniteSet(g.nodes)
    BY <1>0, FS_Subset, SchedulerAssumption
  <2> QED BY <2>1, FS_EmptySet, FS_CardinalityType
<1>3. \A k \in Nat \ {0} : {n} \cup From(g, n) \subseteq W[k]
  <2> DEFINE Bad == {k \in Nat : k # 0 /\ ~({n} \cup From(g, n) \subseteq W[k])}
  <2> SUFFICES ASSUME Bad # {} PROVE FALSE
    OBVIOUS
  <2>1. PICK k \in Bad : \A i \in Bad : k <= i
    BY LeastNat
  <2>2. k \in Nat /\ k # 0 /\ k - 1 \in Nat /\ ~(k <= k - 1)
    BY <2>1
  <2>3. W[k] = UNION {{m} \cup From(g, m) : m \in W[k - 1]}
    BY <1>1, <2>2 DEF IsWalk
  <2>4. CASE k - 1 = 0
    <3>1. W[k - 1] = {n}
      BY <1>1, <2>4 DEF IsWalk
    <3> QED BY <2>1, <2>3, <3>1
  <2>5. CASE k - 1 # 0
    <3>1. {n} \cup From(g, n) \subseteq W[k - 1]
      BY <2>1, <2>2, <2>5
    <3>2. W[k - 1] \subseteq W[k]
      BY <2>3
    <3> QED BY <2>1, <3>1, <3>2
  <2> QED BY <2>4, <2>5
<1> QED BY <1>1, <1>2, <1>3

\* The run nodes that the subgraph is made for are dependencies of its goal.
LEMMA OptimizedGoal ==
  ASSUME NEW g \in Graph, NEW a \in [Node -> PkgNode], NEW used, ~(Spare \subseteq used),
         NEW root \in g.nodes, FindGoalNode(g, a, "PackagesToBuild") = {root},
         NEW o \in Optimized(g, a, used)
  PROVE  /\ o.attr[o.goal].type = "Goal"
         /\ \A n \in From(g, root) : a[n].type = "LocalRun" => n \in From(o.graph, o.goal)
<1> DEFINE made == CreateSubGraph(g, a, root)
           sub == DropOrphanBuilds(made, a)
           goal == NewNode(used)
           all == AllPreferredRunNodes(sub, a) \cup AllTestNodes(sub, a)
<1>0. goal \in Node /\ root \in Node
  BY NewNodeType, GraphFields
<1>1. root = CHOOSE n \in FindGoalNode(g, a, "PackagesToBuild") : TRUE
  OBVIOUS
<1>2. sub \in Graph
  BY <1>0, SubGraphType
<1>3. all \in SUBSET Node
  BY <1>2, GraphFields DEF AllPreferredRunNodes, AllTestNodes
<1>4. ASSUME NEW n \in From(g, root), a[n].type = "LocalRun" PROVE n \in all
  <2>1. n \in Reach(g, root)
    BY <1>4, ReachNext
  <2>2. n \in made.nodes
    BY <2>1 DEF CreateSubGraph
  <2> HIDE DEF made
  <2>3. n \in sub.nodes
    BY <1>4, <2>2 DEF DropOrphanBuilds, RemoveNodes
  <2> HIDE DEF sub
  <2> QED BY <1>4, <2>3 DEF AllPreferredRunNodes
<1>5. PICK id \in NewIDs(sub) :
         o = [graph |-> AddGoalNode(sub, a, goal, id, all, 0),
              attr |-> [a EXCEPT ![goal] = GoalNode("ALL", id)], goal |-> goal]
  BY <1>1 DEF Optimized
<1> HIDE DEF made, sub, goal, all
<1>6. id \in Nat
  BY <1>2, NewIDType
<1>7. From(o.graph, o.goal) = all
  <2>1. AddGoalNodeLayers(sub, a, all, 0) = all
    <3>1. sub.nodes \in SUBSET Node
      BY <1>2, GraphFields
    <3>2. ASSUME NEW layers \in Nat, layers = 0 PROVE AddGoalNodeLayers(sub, a, all, layers) = all
      BY <1>3, <3>1, <3>2, LayerNodes
    <3> QED BY <3>2
  <2>2. AddNode(sub, goal, id) \in Graph /\ AddNode(sub, goal, id).deps \in [Node -> SUBSET Node]
    BY <1>0, <1>2, <1>6, AddNodeType, GraphFields
  <2>3. AddGoalNode(sub, a, goal, id, all, 0) = [AddNode(sub, goal, id) EXCEPT !.deps[goal] = all]
    BY <2>1 DEF AddGoalNode
  <2>4. AddGoalNode(sub, a, goal, id, all, 0).deps[goal] = all
    BY <1>0, <2>2, <2>3 DEF Graph
  <2> QED BY <1>5, <2>4 DEF From
<1>8. o.attr[o.goal].type = "Goal"
  BY <1>0, <1>5 DEF GoalNode
<1> QED BY <1>4, <1>7, <1>8

\* Without implicit packages the graph can be made smaller, and the goal of the
\* build needs every wanted run node.
LEMMA GoalInit ==
  ASSUME Init, OrderlyBuild
  PROVE  GoalInv
<1> DEFINE goal == NewNode(FileGraph.nodes)
           id == FileGraph.maxID + 1
           a == [FileAttr EXCEPT ![goal] = GoalNode("PackagesToBuild", id)]
           linked == AddGoalNodeLayers(FileGraph, FileAttr, WantedNodes, ExtraLayers)
           g == AddGoalNode(FileGraph, FileAttr, goal, id, WantedNodes, ExtraLayers)
<1>0. input \in DOMAIN Inputs /\ pc = "start" /\ flags = {}
  BY DEF Init
<1>1. /\ FileGraph \in Graph /\ FileAttr \in [Node -> PkgNode] /\ ExtraLayers \in Nat
      /\ \E m, n \in Spare \ FileGraph.nodes : m # n
      /\ FindGoalNode(FileGraph, FileAttr, "PackagesToBuild") = {}
  BY <1>0, InputTypes, SchedulerAssumption DEF FileGraph, FileAttr
<1>2. goal \in Spare \ FileGraph.nodes /\ goal \in Node
  BY <1>1, NewNodeType
<1>3. id \in Nat
  BY <1>1, GraphFields
<1>4. WantedNodes \in SUBSET Node /\ WantedNodes \subseteq FileGraph.nodes
  BY <1>1, GraphFields DEF WantedNodes, AllPreferredRunNodes, AllTestNodes
<1>5. g \in Graph
  BY <1>1, <1>2, <1>3, <1>4, GoalType
<1>6. linked \in SUBSET Node /\ WantedNodes \subseteq linked
  BY <1>1, <1>4, LayerNodes, GraphFields
<1>7. GoalNode("PackagesToBuild", id) \in PkgNode
  BY <1>3 DEF GoalNode, PkgNode, NodeTypes, NodeStates, GoalNames
<1>8. /\ a \in [Node -> PkgNode] /\ a[goal].type = "Goal" /\ a[goal].goal = "PackagesToBuild"
      /\ \A n \in FileGraph.nodes : n \in Node /\ a[n] = FileAttr[n]
  <2>1. FileGraph.nodes \subseteq Node
    BY <1>1, GraphFields
  <2> QED BY <1>1, <1>2, <1>7, <2>1 DEF GoalNode
<1>9. g.nodes = FileGraph.nodes \cup {goal} /\ From(g, goal) = linked
  <2> HIDE DEF linked, goal, id
  <2>1. AddNode(FileGraph, goal, id).nodes = FileGraph.nodes \cup {goal}
    BY <1>1, GraphFields DEF AddNode, Graph
  <2>2. AddNode(FileGraph, goal, id) \in Graph
    BY <1>1, <1>2, <1>3, AddNodeType, GraphFields
  <2>3. g = [AddNode(FileGraph, goal, id) EXCEPT !.deps[goal] = linked]
    BY DEF AddGoalNode, linked
  <2> HIDE DEF g
  <2> QED BY <1>2, <2>1, <2>2, <2>3 DEF Graph, From
<1>10. PICK p \in Prepared : graph[0] = p.graph /\ attr = p.attr /\ goalNode = p.goal
  BY DEF Init
<1>11. IF CanSubGraph(g, a, goal, CanUseCache /\ OptimizeWithCachedImplicit)
       THEN p \in Optimized(g, a, g.nodes)
       ELSE p \in {[graph |-> g, attr |-> a, goal |-> n] : n \in FindGoalNode(g, a, "ALL")}
  BY <1>10 DEF Prepared
<1>12. FindGoalNode(g, a, "PackagesToBuild") = {goal}
  <2> HIDE DEF g, a, goal
  <2> QED BY <1>1, <1>8, <1>9 DEF FindGoalNode
<1>13. ~(Spare \subseteq g.nodes)
  <2> HIDE DEF g, a, goal
  <2> QED BY <1>1, <1>9
<1> HIDE DEF goal, id, a, g, linked
<1>14. CASE p \in Optimized(g, a, g.nodes)
  <2>1. /\ p.attr[p.goal].type = "Goal" /\ goal \in g.nodes
        /\ \A n \in From(g, goal) : a[n].type = "LocalRun" => n \in From(p.graph, p.goal)
    BY <1>5, <1>8, <1>9, <1>12, <1>13, <1>14, OptimizedGoal
  <2>2. /\ p.goal = NewNode(g.nodes) /\ p.goal \in Node
        /\ \E i \in Nat : p.attr = [a EXCEPT ![p.goal] = GoalNode("ALL", i)]
    BY <1>5, <1>8, <1>12, <1>13, <1>14, OptimizedType
  <2>3. p.goal \notin g.nodes
    BY <1>13, <2>2, NewNodeType
  <2>4. \A n \in WantedNodes : p.attr[n] = a[n] /\ n \in From(g, goal)
    BY <1>4, <1>6, <1>8, <1>9, <2>2, <2>3
  <2>5. \A n \in WantedNodes : attr[n].type = "LocalRun" => n \in From(graph[0], goalNode)
    BY <1>10, <2>1, <2>4
  <2> QED BY <1>0, <1>10, <2>1, <2>5 DEF GoalInv, Closing
<1>15. CASE p \notin Optimized(g, a, g.nodes)
  <2>1. /\ ~CanSubGraph(g, a, goal, CanUseCache /\ OptimizeWithCachedImplicit)
        /\ graph[0] = g /\ attr = a
    BY <1>10, <1>11, <1>15
  <2>2. \A m \in g.nodes : From(g, m) \subseteq g.nodes /\ ~IsImplicit(a, m)
    BY <2>1 DEF OrderlyBuild, OrderlyGraph
  <2>3. Reach(g, goal) \subseteq g.nodes
    BY <1>5, <1>9, <2>2, GraphFields, ReachWithin
  <2> QED BY <2>1, <2>2, <2>3 DEF CanSubGraph
<1> QED BY <1>14, <1>15

\* When the loop is left.
Leaving ==
    /\ "stopBuilding" \in flags' => "stopBuilding" \in flags \/ IsNodeAvailable(goalNode)
    /\ pc' \in {"doneBuild"} \cup Closing /\ err' = {}
          => "stopBuilding" \in flags' \/ (pc \in {"doneBuild"} \cup Closing /\ err = {})

\* The loop is left without an error only from Advance, once stopBuilding is set.
LEMMA LeavingStep ==
  ASSUME TypeInv, OrderInv, [Next]_vars
  PROVE  Leaving
<1> USE DEF Leaving, Closing
<1>1. CASE UNCHANGED vars
  BY <1>1 DEF vars, schedVars
<1>2. CASE StartAtLeaves
  BY <1>2 DEF StartAtLeaves
<1>3. CASE ConvertNodesToRequests
  BY <1>3 DEF ConvertNodesToRequests
<1>4. CASE ConvertPanics
  BY <1>4 DEF ConvertPanics
<1>5. CASE SubmitRequest
  BY <1>5 DEF SubmitRequest
<1>6. CASE EnableCachedImplicit
  BY <1>6 DEF EnableCachedImplicit
<1>7. CASE CouldNotBuildAll
  BY <1>7 DEF CouldNotBuildAll
<1>8. CASE LicenseCheckerFails
  BY <1>8 DEF LicenseCheckerFails
<1>9. CASE ReceiveResult
  BY <1>9 DEF ReceiveResult, AfterRecording
<1>10. CASE SetAssociatedDeltaPaths
  BY <1>10 DEF SetAssociatedDeltaPaths
<1>11. CASE FinishFile
  BY <1>11 DEF FinishFile, GraphFails
<1>12. CASE FinishInject
  BY <1>12 DEF FinishInject
<1>13. CASE Advance
  BY <1>13 DEF Advance
<1>14. CASE StopBuild
  BY <1>14 DEF StopBuild, CloseChannel
<1>15. CASE DoneBuild \/ CloseRequests \/ ClosePriority
  BY <1>15 DEF DoneBuild, CloseRequests, ClosePriority, CloseChannel
<1>16. CASE DrainPriority
  BY <1>16 DEF DrainPriority
<1>17. CASE DrainRequests
  BY <1>17 DEF DrainRequests
<1>18. ASSUME NEW w \in Worker, WorkerStep(w) PROVE Leaving
  BY <1>18, WorkerKeepsScheduler DEF KeepScheduler, schedVars
<1>19. CASE Finished
  BY <1>1, <1>19 DEF Finished
<1> HIDE DEF Leaving, Closing
<1>20. CASE SchedulerStep
  BY <1>2, <1>3, <1>4, <1>5, <1>6, <1>7, <1>8, <1>9, <1>10, <1>11, <1>12, <1>13, <1>14, <1>15, <1>16,
     <1>17, <1>20, NothingInjected, Zenon DEF SchedulerStep
<1> QED BY <1>1, <1>18, <1>19, <1>20, Zenon DEF Next

\* The goal keeps its dependencies, and the loop is not left without it.
LEMMA GoalStep ==
  ASSUME TypeInv, OrderInv, FileInv, GoalInv, [Next]_vars
  PROVE  GoalInv'
<1>1. /\ input' = input /\ goalNode' = goalNode /\ graph'[0].nodes = graph[0].nodes
      /\ SameNodes(attr, attr')
      /\ \A n \in graph[0].nodes : \A d \in From(graph[0], n) :
               attr[n].type # "Test" => d \in From(graph'[0], n)
  BY FieldsMove
<1>2. goalNode \in graph[0].nodes /\ goalNode \in Node
  BY DEF OrderInv, Orderly, OrderlyBuild, TypeInv, GraphsOK
<1>3. attr[goalNode].type = "Goal" /\ attr'[goalNode].type = "Goal"
  BY <1>1, <1>2 DEF GoalInv, SameNodes
<1>4. WantedNodes' = WantedNodes
  BY <1>1 DEF WantedNodes, FileGraph, FileAttr, PackagesToBuild, TestsToRun
<1>5. WantedNodes \subseteq Node
  <2>1. FileGraph \in Graph
    BY InputTypes DEF TypeInv, GraphsOK
  <2>2. FileGraph.nodes \subseteq Node
    BY <2>1, GraphFields
  <2> QED BY <2>2 DEF WantedNodes, AllPreferredRunNodes, AllTestNodes
<1>6. \A n \in WantedNodes : attr'[n].type = "LocalRun" => n \in From(graph'[0], goalNode)
  BY <1>1, <1>2, <1>3, <1>5 DEF GoalInv, SameNodes
<1>7. IsNodeAvailable(goalNode) => IsNodeAvailable(goalNode)'
  <2>1. IsNodeAvailable(goalNode) => "available" \in nodeToState'[goalNode].flags
    BY <1>2, OrderStep DEF IsNodeAvailable
  <2> QED BY <1>1, <2>1 DEF IsNodeAvailable
<1>8. "stopBuilding" \in flags' => IsNodeAvailable(goalNode)'
  BY <1>7, LeavingStep DEF Leaving, GoalInv
<1>9. pc' \in {"doneBuild"} \cup Closing /\ err' = {} => IsNodeAvailable(goalNode)'
  BY <1>7, <1>8, LeavingStep DEF Leaving, GoalInv
<1>10. Closing' = Closing
  BY DEF Closing
<1> QED BY <1>1, <1>3, <1>4, <1>6, <1>8, <1>9, <1>10 DEF GoalInv

\* The RPM of a run node has a name.
LEMMA RunHasRPM ==
  ASSUME TypeInv, FileInv, NEW n \in graph[0].nodes, attr[n].type = "LocalRun"
  PROVE  attr[n].rpm # NoRPM
<1>1. attr[n].srpm \in SRPM /\ attr[n].rpm \in disk \cup OutputOf(attr[n].srpm)
  BY DEF FileInv, FilledGraph
<1>2. disk \subseteq Path /\ NoRPM \notin Path
  BY SchedulerAssumption DEF TypeInv, WorkersOK
<1>3. RpmsBuiltBy \in [SRPM -> SUBSET RPM]
  BY InputTypes DEF TypeInv, GraphsOK
<1>4. OutputOf(attr[n].srpm) \subseteq Path
  BY <1>1, <1>3 DEF OutputOf, Path
<1> QED BY <1>1, <1>2, <1>4

\* A build that returns no error has put the RPM of every wanted package where
\* its node says it is.
THEOREM SuccessLeavesRPMs == Spec /\ FilledBuild => []SuccessMeansRPMsExist
<1>1. Init /\ FilledBuild => GoalInv
  BY GoalInit DEF FilledBuild
<1>2. TypeInv /\ OrderInv /\ FileInv /\ GoalInv /\ [Next]_vars => GoalInv'
  BY GoalStep
<1>3. ASSUME TypeInv, OrderInv, FileInv, GoalInv PROVE SuccessMeansRPMsExist
  <2> SUFFICES ASSUME pc = "returned", err = {}, NEW n \in WantedNodes, attr[n].type = "LocalRun"
               PROVE  IsNodeAvailable(n) /\ attr[n].rpm \in disk
    BY DEF SuccessMeansRPMsExist
  <2>1. IsNodeAvailable(goalNode) /\ n \in From(graph[0], goalNode)
    BY <1>3 DEF GoalInv, Closing
  <2>2. goalNode \in graph[0].nodes /\ goalNode \in Started
    BY <1>3, <2>1 DEF OrderInv, Orderly, OrderlyBuild, OneRequestPerNode, Started, Processed, TypeInv, GraphsOK
  <2>3. n \in graph[0].nodes /\ IsNodeAvailable(n)
    BY <1>3, <2>1, <2>2 DEF OrderInv, Orderly, OrderlyBuild, OrderlyGraph, DepsFirst, AllAvailable
  <2>4. attr[n].rpm # NoRPM
    BY <1>3, <2>3, RunHasRPM
  <2> QED BY <1>3, <2>3, <2>4, AvailableFiles
<1> QED BY <1>1, <1>2, <1>3, FilesHold, PTL DEF Spec
-----------------------------------------------------------------------------
(* The preparation of the graph.                                           *)

\* A walk of as many steps as there are nodes goes everywhere: no edge leaves it.
LEMMA ReachClosed ==
  ASSUME NEW g \in Graph, \A m \in g.nodes : From(g, m) \subseteq g.nodes, NEW n \in g.nodes
  PROVE  \A m \in Reach(g, n) : From(g, m) \subseteq Reach(g, n)
<1> DEFINE N == Cardinality(g.nodes)
<1>0. g.nodes \in SUBSET Node /\ g.deps \in [Node -> SUBSET Node] /\ n \in Node
  BY GraphFields
<1>1. PICK W : Reach(g, n) = W[N] /\ IsWalk(g, n, W)
  BY <1>0, ReachSteps
<1>2. IsFiniteSet(g.nodes) /\ N \in Nat
  BY <1>0, FS_Subset, FS_CardinalityType, SchedulerAssumption
<1>3. ASSUME NEW k \in Nat
      PROVE  W[k + 1] = UNION {{m} \cup From(g, m) : m \in W[k]}
  <2>1. k + 1 \in Nat /\ k + 1 # 0 /\ (k + 1) - 1 = k
    OBVIOUS
  <2> QED BY <1>1, <2>1 DEF IsWalk
<1>4. W[0] = {n}
  BY <1>1 DEF IsWalk
<1>5. \A k \in Nat : W[k] \subseteq g.nodes
  <2> DEFINE Bad == {k \in Nat : ~(W[k] \subseteq g.nodes)}
  <2> SUFFICES ASSUME Bad # {} PROVE FALSE
    OBVIOUS
  <2>1. PICK k \in Bad : \A i \in Bad : k <= i
    BY LeastNat
  <2>2. CASE k = 0
    BY <1>4, <2>1, <2>2
  <2>3. CASE k # 0
    <3>1. k - 1 \in Nat /\ ~(k <= k - 1) /\ (k - 1) + 1 = k
      BY <2>3
    <3>2. W[k - 1] \subseteq g.nodes
      BY <2>1, <3>1
    <3>3. W[k] = UNION {{m} \cup From(g, m) : m \in W[k - 1]}
      BY <1>3, <3>1
    <3> QED BY <2>1, <3>2, <3>3
  <2> QED BY <2>2, <2>3
<1>6. \A k \in Nat : W[k] \subseteq W[k + 1]
  BY <1>3
<1>7. \A k \in Nat : IsFiniteSet(W[k]) /\ Cardinality(W[k]) \in Nat /\ Cardinality(W[k]) <= N
  BY <1>2, <1>5, FS_Subset, FS_CardinalityType
<1>8. \E k \in Nat : k < N /\ W[k + 1] = W[k]
  <2> SUFFICES ASSUME \A k \in Nat : k < N => W[k + 1] # W[k] PROVE FALSE
    OBVIOUS
  <2> DEFINE Bad == {k \in Nat : k <= N /\ ~(k < Cardinality(W[k]))}
  <2>1. Bad = {}
    <3> SUFFICES ASSUME Bad # {} PROVE FALSE
      OBVIOUS
    <3>1. PICK k \in Bad : \A i \in Bad : k <= i
      BY LeastNat
    <3>2. CASE k = 0
      BY <1>4, <3>1, <3>2, FS_Singleton
    <3>3. CASE k # 0
      <4>1. k - 1 \in Nat /\ ~(k <= k - 1) /\ (k - 1) + 1 = k /\ k - 1 < N
        BY <1>2, <3>1, <3>3
      <4>2. k - 1 < Cardinality(W[k - 1])
        BY <1>2, <3>1, <4>1
      <4>3. W[k - 1] \subseteq W[k] /\ W[k - 1] # W[k]
        BY <1>6, <4>1
      <4>4. Cardinality(W[k - 1]) < Cardinality(W[k])
        <5>1. /\ Cardinality(W[k - 1]) <= Cardinality(W[k])
              /\ (Cardinality(W[k - 1]) = Cardinality(W[k]) => W[k - 1] = W[k])
          BY <1>7, <4>3, FS_Subset
        <5> QED BY <1>7, <4>1, <4>3, <5>1
      <4> QED BY <1>7, <3>1, <4>1, <4>2, <4>4
    <3> QED BY <3>2, <3>3
  <2>2. N < Cardinality(W[N])
    BY <1>2, <2>1
  <2> QED BY <1>2, <1>7, <2>2
<1>9. PICK k \in Nat : k < N /\ W[k + 1] = W[k]
  BY <1>8
<1>10. \A j \in Nat : k <= j => W[j] = W[k]
  <2> DEFINE Bad == {j \in Nat : k <= j /\ W[j] # W[k]}
  <2> SUFFICES ASSUME Bad # {} PROVE FALSE
    OBVIOUS
  <2>1. PICK j \in Bad : \A i \in Bad : j <= i
    BY LeastNat
  <2>2. j \in Nat /\ k <= j /\ j # k /\ W[j] # W[k]
    BY <2>1
  <2>3. j - 1 \in Nat /\ k <= j - 1 /\ ~(j <= j - 1) /\ (j - 1) + 1 = j
    BY <2>2
  <2>4. W[j - 1] = W[k]
    BY <2>1, <2>3
  <2>5. W[j] = W[k + 1]
    BY <1>3, <2>3, <2>4
  <2> QED BY <1>9, <2>2, <2>5
<1>11. W[N] = W[k] /\ W[k + 1] = W[N]
  BY <1>2, <1>9, <1>10
<1> QED BY <1>1, <1>3, <1>11

\* h and b are g and a with a goal for the wanted nodes.
AddsGoal(g, a, goal, id, wanted, layers, name, h, b) ==
    /\ g \in Graph /\ a \in [Node -> PkgNode] /\ goal \in Node \ g.nodes /\ id \in Nat
    /\ wanted \subseteq g.nodes /\ layers \in Nat
    /\ h = AddGoalNode(g, a, goal, id, wanted, layers)
    /\ b = [a EXCEPT ![goal] = GoalNode(name, id)]

LEMMA GoalAdded ==
  ASSUME NEW g, NEW a, NEW goal, NEW id, NEW wanted, NEW layers, NEW name, NEW h, NEW b,
         AddsGoal(g, a, goal, id, wanted, layers, name, h, b)
  PROVE  /\ h.nodes = g.nodes \cup {goal} /\ From(h, goal) \subseteq g.nodes
         /\ \A n \in g.nodes : From(h, n) = From(g, n) /\ b[n] = a[n]
         /\ b[goal] = GoalNode(name, id)
<1> DEFINE linked == AddGoalNodeLayers(g, a, wanted, layers)
           more == AddNode(g, goal, id)
<1> USE DEF AddsGoal
<1>1. g.nodes \in SUBSET Node /\ goal \in Node /\ wanted \in SUBSET Node
  BY GraphFields
<1>2. linked \in SUBSET Node /\ linked \subseteq g.nodes
  BY <1>1, LayerNodes
<1>3. h = [more EXCEPT !.deps[goal] = linked]
  BY DEF AddGoalNode
<1>4. more \in Graph /\ more.deps = g.deps /\ more.nodes = g.nodes \cup {goal}
  <2>1. more.nodes = g.nodes \cup {goal}
    BY GraphFields DEF AddNode, Graph
  <2>2. g.deps \in [Node -> SUBSET Node]
    BY GraphFields
  <2> QED BY <1>1, <2>1, <2>2, AddNodeType
<1> HIDE DEF linked, more
<1>5. h.nodes = more.nodes /\ h.deps = [more.deps EXCEPT ![goal] = linked]
  BY <1>3, <1>4 DEF Graph
<1>6. more.deps \in [Node -> SUBSET Node]
  BY <1>4, GraphFields
<1> QED BY <1>1, <1>2, <1>4, <1>5, <1>6 DEF From

\* h is g with a goal added.
GoalOf(h, b, g, a, goal, id, name) ==
    /\ h.nodes = g.nodes \cup {goal} /\ goal \notin g.nodes /\ From(h, goal) \subseteq g.nodes
    /\ \A n \in g.nodes : From(h, n) = From(g, n) /\ b[n] = a[n]
    /\ b[goal] = GoalNode(name, id)
    /\ \A n \in g.nodes : a[n].id # id

\* A goal does not make a graph less orderly: nothing depends on it.
LEMMA GoalOrderly ==
  ASSUME NEW g, NEW a, NEW h, NEW b, NEW goal, NEW id, NEW name,
         GoalOf(h, b, g, a, goal, id, name), OrderlyGraph(g, a)
  PROVE  OrderlyGraph(h, b)
<1>1. /\ b[goal].type = "Goal" /\ b[goal].id = id /\ b[goal].pkg = NoPkg
      /\ ~IsImplicit(b, goal)
  BY SchedulerAssumption DEF GoalOf, GoalNode, IsImplicit
<1>2. \A n \in h.nodes : From(h, n) \subseteq g.nodes /\ From(h, n) \subseteq h.nodes
  BY DEF GoalOf, OrderlyGraph
<1>3. \A n \in h.nodes : ~IsImplicit(b, n)
  BY <1>1 DEF GoalOf, OrderlyGraph, IsImplicit
<1>4. \A m, n \in h.nodes : b[m].id = b[n].id => m = n
  BY <1>1 DEF GoalOf, OrderlyGraph
<1>5. ASSUME NEW t \in h.nodes, NEW v \in h.nodes, NEW c \in h.nodes,
             b[t].type = "Test", {v, c} \subseteq From(h, t),
             b[v].type = "LocalBuild", b[c].type = "LocalBuild"
      PROVE  v = c /\ b[v].srpm = b[t].srpm
  <2>1. t \in g.nodes /\ v \in g.nodes /\ c \in g.nodes
    BY <1>1, <1>5 DEF GoalOf
  <2>2. /\ a[t].type = "Test" /\ {v, c} \subseteq From(g, t) /\ a[v].type = "LocalBuild"
        /\ a[c].type = "LocalBuild" /\ b[v] = a[v] /\ b[t] = a[t]
    BY <1>5, <2>1 DEF GoalOf
  <2> QED BY <2>1, <2>2 DEF OrderlyGraph
<1>6. ASSUME NEW t \in h.nodes, NEW u \in h.nodes, NEW d \in h.nodes,
             b[t].type = "Test", b[u].type = "Test", b[t].srpm = b[u].srpm,
             b[d].type # "LocalBuild"
      PROVE  d \in From(h, t) <=> d \in From(h, u)
  <2>1. t \in g.nodes /\ u \in g.nodes
    BY <1>1, <1>6 DEF GoalOf
  <2>2. /\ a[t].type = "Test" /\ a[u].type = "Test" /\ a[t].srpm = a[u].srpm
        /\ From(h, t) = From(g, t) /\ From(h, u) = From(g, u)
    BY <1>6, <2>1 DEF GoalOf
  <2>3. CASE d = goal
    <3>1. d \notin From(h, t) /\ d \notin From(h, u)
      BY <1>2, <2>1, <2>3 DEF GoalOf
    <3> QED BY <3>1
  <2>4. CASE d # goal
    <3>1. d \in g.nodes /\ a[d].type # "LocalBuild"
      BY <1>6, <2>4 DEF GoalOf
    <3> QED BY <2>1, <2>2, <3>1 DEF OrderlyGraph
  <2> QED BY <2>3, <2>4
<1> QED BY <1>2, <1>3, <1>4, <1>5, <1>6 DEF OrderlyGraph

\* Nor does it name a file.
LEMMA GoalFilled ==
  ASSUME NEW g, NEW a, NEW h, NEW b, NEW goal, NEW id, NEW name, NEW files,
         GoalOf(h, b, g, a, goal, id, name), OrderlyGraph(g, a),
         FilledGraph(g, a, files), IgnoredExist(g, a, files)
  PROVE  FilledGraph(h, b, files) /\ IgnoredExist(h, b, files)
<1>1. b[goal].type = "Goal" /\ b[goal].rpm = NoRPM
  BY DEF GoalOf, GoalNode
<1>2. ASSUME NEW n \in h.nodes
      PROVE  /\ IF b[n].type \in {"LocalBuild", "LocalRun"}
                THEN b[n].srpm \in SRPM \ {NoSRPM} /\ b[n].rpm \in files \cup OutputOf(b[n].srpm)
                ELSE b[n].rpm \in files \cup {NoRPM}
             /\ (b[n].type = "LocalRun" =>
                  \E c \in From(h, n) :
                     b[c].type = "LocalBuild" /\ b[c].srpm = b[n].srpm /\ b[c].pkg = b[n].pkg)
  <2>1. CASE n = goal
    BY <1>1, <2>1
  <2>2. CASE n # goal
    <3>1. n \in g.nodes /\ b[n] = a[n] /\ From(h, n) = From(g, n) /\ From(g, n) \subseteq g.nodes
      BY <2>2 DEF GoalOf, OrderlyGraph
    <3>2. \A c \in From(g, n) : b[c] = a[c]
      BY <3>1 DEF GoalOf
    <3> QED BY <3>1, <3>2 DEF FilledGraph
  <2> QED BY <2>1, <2>2
<1>3. FilledGraph(h, b, files)
  BY <1>2 DEF FilledGraph
<1>4. ASSUME NEW n \in h.nodes, b[n].type = "LocalBuild", b[n].pkg \in IgnoredPackages
      PROVE  RPMsOf(h, b, b[n].srpm) \subseteq files
  <2>1. n \in g.nodes /\ b[n] = a[n]
    BY <1>1, <1>4 DEF GoalOf
  <2>2. RPMsOf(g, a, a[n].srpm) \subseteq files
    BY <1>4, <2>1 DEF IgnoredExist
  <2>3. RPMsOf(h, b, b[n].srpm) \subseteq RPMsOf(g, a, b[n].srpm)
    <3> SUFFICES ASSUME NEW r \in RPMsOf(h, b, b[n].srpm)
                 PROVE  r \in RPMsOf(g, a, b[n].srpm)
      OBVIOUS
    <3>1. PICK m \in h.nodes : b[m].srpm = b[n].srpm /\ r = b[m].rpm /\ r # NoRPM
      BY DEF RPMsOf
    <3>2. m \in g.nodes /\ b[m] = a[m]
      BY <1>1, <3>1 DEF GoalOf
    <3> QED BY <3>1, <3>2 DEF RPMsOf
  <2> QED BY <2>1, <2>2, <2>3
<1> QED BY <1>3, <1>4 DEF IgnoredExist

\* h is a part of g that lacks at most builds whose package is not run.
PartOf(h, g, a) ==
    /\ h.nodes \subseteq g.nodes
    /\ \A n \in h.nodes :
          /\ From(h, n) \subseteq h.nodes /\ From(h, n) \subseteq From(g, n)
          /\ \A d \in From(g, n) \ From(h, n) :
                /\ a[d].type = "LocalBuild"
                /\ \A m \in h.nodes : a[m].type = "LocalRun" => a[m].pkg # a[d].pkg

LEMMA PartOrderly ==
  ASSUME NEW g, NEW a, NEW h, PartOf(h, g, a), OrderlyGraph(g, a)
  PROVE  OrderlyGraph(h, a)
<1>1. \A n \in h.nodes : From(h, n) \subseteq h.nodes /\ ~IsImplicit(a, n)
  BY DEF PartOf, OrderlyGraph
<1>2. \A m, n \in h.nodes : a[m].id = a[n].id => m = n
  BY DEF PartOf, OrderlyGraph
<1>3. ASSUME NEW t \in h.nodes, NEW v \in h.nodes, NEW c \in h.nodes,
             a[t].type = "Test", {v, c} \subseteq From(h, t),
             a[v].type = "LocalBuild", a[c].type = "LocalBuild"
      PROVE  v = c /\ a[v].srpm = a[t].srpm
  <2>1. t \in g.nodes /\ v \in g.nodes /\ c \in g.nodes /\ {v, c} \subseteq From(g, t)
    BY <1>3 DEF PartOf
  <2> QED BY <1>3, <2>1 DEF OrderlyGraph
<1>4. ASSUME NEW t \in h.nodes, NEW u \in h.nodes, NEW d \in h.nodes,
             a[t].type = "Test", a[u].type = "Test", a[t].srpm = a[u].srpm,
             a[d].type # "LocalBuild"
      PROVE  d \in From(h, t) <=> d \in From(h, u)
  <2>1. t \in g.nodes /\ u \in g.nodes /\ d \in g.nodes
    BY DEF PartOf
  <2>2. (d \in From(h, t) <=> d \in From(g, t)) /\ (d \in From(h, u) <=> d \in From(g, u))
    BY <1>4 DEF PartOf
  <2>3. d \in From(g, t) <=> d \in From(g, u)
    BY <1>4, <2>1 DEF OrderlyGraph
  <2> QED BY <2>2, <2>3
<1> QED BY <1>1, <1>2, <1>3, <1>4 DEF OrderlyGraph

LEMMA PartFilled ==
  ASSUME NEW g, NEW a, NEW h, NEW files, PartOf(h, g, a),
         FilledGraph(g, a, files), IgnoredExist(g, a, files)
  PROVE  FilledGraph(h, a, files) /\ IgnoredExist(h, a, files)
<1>1. ASSUME NEW n \in h.nodes
      PROVE  /\ IF a[n].type \in {"LocalBuild", "LocalRun"}
                THEN a[n].srpm \in SRPM \ {NoSRPM} /\ a[n].rpm \in files \cup OutputOf(a[n].srpm)
                ELSE a[n].rpm \in files \cup {NoRPM}
             /\ (a[n].type = "LocalRun" =>
                  \E c \in From(h, n) :
                     a[c].type = "LocalBuild" /\ a[c].srpm = a[n].srpm /\ a[c].pkg = a[n].pkg)
  <2>1. n \in g.nodes
    BY DEF PartOf
  <2>2. ASSUME a[n].type = "LocalRun"
        PROVE  \E c \in From(h, n) :
                  a[c].type = "LocalBuild" /\ a[c].srpm = a[n].srpm /\ a[c].pkg = a[n].pkg
    <3>1. PICK c \in From(g, n) :
             a[c].type = "LocalBuild" /\ a[c].srpm = a[n].srpm /\ a[c].pkg = a[n].pkg
      BY <2>1, <2>2 DEF FilledGraph
    <3>2. c \in From(h, n)
      BY <2>2, <3>1 DEF PartOf
    <3> QED BY <3>1, <3>2
  <2> QED BY <2>1, <2>2 DEF FilledGraph
<1>2. \A s : RPMsOf(h, a, s) \subseteq RPMsOf(g, a, s)
  BY DEF RPMsOf, PartOf
<1>3. IgnoredExist(h, a, files)
  <2>1. h.nodes \subseteq g.nodes
    BY DEF PartOf
  <2> QED BY <1>2, <2>1 DEF IgnoredExist
<1>4. FilledGraph(h, a, files)
  BY <1>1 DEF FilledGraph
<1> QED BY <1>3, <1>4

\* The subgraph below a goal is such a part, and no node of it has the next ID.
LEMMA SubGraphPart ==
  ASSUME NEW g \in Graph, NEW a \in [Node -> PkgNode], NEW root \in g.nodes, OrderlyGraph(g, a),
         NEW sub, sub = DropOrphanBuilds(CreateSubGraph(g, a, root), a)
  PROVE  /\ PartOf(sub, g, a)
         /\ \A id \in NewIDs(sub), n \in sub.nodes : a[n].id # id
<1> DEFINE inside == Reach(g, root)
           made == CreateSubGraph(g, a, root)
           partners == {n \in made.nodes : a[n].type \in {"LocalRun", "RemoteRun", "Test"}}
           S == {n \in made.nodes : /\ a[n].type = "LocalBuild"
                                    /\ a[n].pkg \notin {a[m].pkg : m \in partners}}
<1>0. g.nodes \in SUBSET Node /\ g.deps \in [Node -> SUBSET Node] /\ root \in Node
  BY GraphFields
<1>1. /\ \A m \in g.nodes : From(g, m) \subseteq g.nodes
      /\ \A m, n \in g.nodes : a[m].id = a[n].id => m = n
  BY DEF OrderlyGraph
<1>2. inside \subseteq g.nodes
  BY <1>0, <1>1, ReachWithin
<1>3. \A n \in inside : From(g, n) \subseteq inside
  BY <1>1, ReachClosed
<1>4. \A n \in inside : a[n].id <= made.maxID
  BY <1>0, SubGraphType
<1> HIDE DEF inside
<1>5. /\ made.nodes = inside /\ made.free = {}
      /\ made.deps = [n \in Node |-> IF n \in inside THEN From(g, n) ELSE {}]
  BY DEF CreateSubGraph, inside
<1> HIDE DEF made
<1>6. sub = RemoveNodes(made, a, S)
  BY DEF DropOrphanBuilds, made
<1>7. S \subseteq inside /\ inside \subseteq Node
  BY <1>0, <1>2, <1>5
<1>8. \A n \in S : /\ a[n].type = "LocalBuild"
                   /\ \A m \in inside : a[m].type = "LocalRun" => a[m].pkg # a[n].pkg
  BY <1>5
<1> HIDE DEF S
<1>9. /\ sub.nodes = inside \ S /\ sub.maxID = made.maxID
      /\ sub.free = {a[n].id : n \in S \cap inside}
      /\ \A n \in inside \ S : From(sub, n) = From(g, n) \ S
  BY <1>5, <1>6, <1>7 DEF RemoveNodes, From
<1>10. PartOf(sub, g, a)
  <2>1. \A n \in sub.nodes : From(sub, n) \subseteq sub.nodes /\ From(sub, n) \subseteq From(g, n)
    BY <1>3, <1>9
  <2>2. ASSUME NEW n \in sub.nodes, NEW d \in From(g, n) \ From(sub, n)
        PROVE  /\ a[d].type = "LocalBuild"
               /\ \A m \in sub.nodes : a[m].type = "LocalRun" => a[m].pkg # a[d].pkg
    <3>1. d \in S
      BY <1>9
    <3> QED BY <1>8, <1>9, <3>1
  <2> QED BY <1>2, <1>9, <2>1, <2>2 DEF PartOf
<1>11. ASSUME NEW id \in NewIDs(sub), NEW n \in sub.nodes PROVE a[n].id # id
  <2>1. CASE sub.free # {}
    <3>1. PICK m \in S : id = a[m].id
      BY <1>9, <2>1 DEF NewIDs
    <3> QED BY <1>1, <1>2, <1>7, <1>9, <3>1
  <2>2. CASE sub.free = {}
    <3>1. id = made.maxID + 1
      BY <1>9, <2>2 DEF NewIDs
    <3>2. a[n].id <= made.maxID /\ a[n].id \in Nat
      BY <1>4, <1>7, <1>9 DEF PkgNode
    <3>3. made.maxID \in Nat \cup {-1}
      <4>1. sub \in Graph
        BY <1>0, SubGraphType
      <4> QED BY <1>9, <4>1, GraphFields
    <3> QED BY <3>1, <3>2, <3>3
  <2> QED BY <2>1, <2>2
<1> QED BY <1>10, <1>11

\* OptimizeGraph keeps a graph orderly, and what its nodes say of files.
LEMMA OptimizedOrderly ==
  ASSUME NEW g \in Graph, NEW a \in [Node -> PkgNode], NEW files, OrderlyGraph(g, a),
         NEW used, g.nodes \subseteq used, ~(Spare \subseteq used),
         NEW root \in g.nodes, FindGoalNode(g, a, "PackagesToBuild") = {root},
         NEW o \in Optimized(g, a, used)
  PROVE  /\ OrderlyGraph(o.graph, o.attr) /\ o.goal \in o.graph.nodes
         /\ (FilledGraph(g, a, files) /\ IgnoredExist(g, a, files)
               => FilledGraph(o.graph, o.attr, files) /\ IgnoredExist(o.graph, o.attr, files))
<1> DEFINE sub == DropOrphanBuilds(CreateSubGraph(g, a, root), a)
           goal == NewNode(used)
           all == AllPreferredRunNodes(sub, a) \cup AllTestNodes(sub, a)
<1>0. goal \in Node /\ root \in Node /\ goal \notin used
  BY NewNodeType, GraphFields
<1>1. root = CHOOSE n \in FindGoalNode(g, a, "PackagesToBuild") : TRUE
  OBVIOUS
<1>2. sub \in Graph
  BY <1>0, SubGraphType
<1>3. all \subseteq sub.nodes
  BY DEF AllPreferredRunNodes, AllTestNodes
<1>4. PICK id \in NewIDs(sub) :
         o = [graph |-> AddGoalNode(sub, a, goal, id, all, 0),
              attr |-> [a EXCEPT ![goal] = GoalNode("ALL", id)], goal |-> goal]
  BY <1>1 DEF Optimized
<1>5. PartOf(sub, g, a) /\ \A n \in sub.nodes : a[n].id # id
  BY SubGraphPart
<1> HIDE DEF sub, goal, all
<1>6. id \in Nat
  BY <1>2, NewIDType
<1>7. goal \in Node \ sub.nodes
  BY <1>0, <1>5 DEF PartOf
<1>8. /\ o.graph = AddGoalNode(sub, a, goal, id, all, 0) /\ o.goal = goal
      /\ o.attr = [a EXCEPT ![goal] = GoalNode("ALL", id)]
  BY <1>4
<1>9. GoalOf(o.graph, o.attr, sub, a, goal, id, "ALL")
  <2>1. /\ o.graph.nodes = sub.nodes \cup {goal} /\ From(o.graph, goal) \subseteq sub.nodes
        /\ \A n \in sub.nodes : From(o.graph, n) = From(sub, n) /\ o.attr[n] = a[n]
        /\ o.attr[goal] = GoalNode("ALL", id)
    <3>1. AddsGoal(sub, a, goal, id, all, 0, "ALL", o.graph, o.attr)
      BY <1>2, <1>3, <1>6, <1>7, <1>8 DEF AddsGoal
    <3> QED BY <3>1, GoalAdded
  <2> QED BY <1>5, <1>7, <2>1 DEF GoalOf
<1>10. OrderlyGraph(sub, a)
  BY <1>5, PartOrderly
<1>11. OrderlyGraph(o.graph, o.attr)
  BY <1>9, <1>10, GoalOrderly
<1>12. ASSUME FilledGraph(g, a, files), IgnoredExist(g, a, files)
       PROVE  FilledGraph(o.graph, o.attr, files) /\ IgnoredExist(o.graph, o.attr, files)
  <2>1. FilledGraph(sub, a, files) /\ IgnoredExist(sub, a, files)
    BY <1>5, <1>12, PartFilled
  <2> QED BY <1>9, <1>10, <2>1, GoalFilled
<1>13. o.goal \in o.graph.nodes
  BY <1>8, <1>9 DEF GoalOf
<1> QED BY <1>11, <1>12, <1>13

\* PrepareGraphForBuild adds a goal, and then can always make the graph smaller.
LEMMA PreparedOrderly ==
  ASSUME Init, OrderlyFile
  PROVE  /\ OrderlyBuild
         /\ (FilledFile => FilledBuild)
<1> DEFINE goal == NewNode(FileGraph.nodes)
           id == FileGraph.maxID + 1
           a == [FileAttr EXCEPT ![goal] = GoalNode("PackagesToBuild", id)]
           g == AddGoalNode(FileGraph, FileAttr, goal, id, WantedNodes, ExtraLayers)
<1>0. input \in DOMAIN Inputs /\ disk = FileDisk
  BY DEF Init
<1>1. /\ FileGraph \in Graph /\ FileAttr \in [Node -> PkgNode] /\ ExtraLayers \in Nat
      /\ \E m, n \in Spare \ FileGraph.nodes : m # n
      /\ FindGoalNode(FileGraph, FileAttr, "PackagesToBuild") = {}
  BY <1>0, InputTypes, SchedulerAssumption DEF FileGraph, FileAttr
<1>2. goal \in Node \ FileGraph.nodes
  BY <1>1, NewNodeType
<1>3. id \in Nat
  BY <1>1, GraphFields
<1>4. WantedNodes \in SUBSET Node /\ WantedNodes \subseteq FileGraph.nodes
  BY <1>1, GraphFields DEF WantedNodes, AllPreferredRunNodes, AllTestNodes
<1>5. g \in Graph
  BY <1>1, <1>2, <1>3, <1>4, GoalType
<1>6. GoalNode("PackagesToBuild", id) \in PkgNode
  BY <1>3 DEF GoalNode, PkgNode, NodeTypes, NodeStates, GoalNames
<1>7. a \in [Node -> PkgNode]
  BY <1>1, <1>6
<1>8. PICK p \in Prepared : graph[0] = p.graph /\ attr = p.attr /\ goalNode = p.goal
  BY DEF Init
<1>9. IF CanSubGraph(g, a, goal, CanUseCache /\ OptimizeWithCachedImplicit)
      THEN p \in Optimized(g, a, g.nodes)
      ELSE p \in {[graph |-> g, attr |-> a, goal |-> n] : n \in FindGoalNode(g, a, "ALL")}
  BY <1>8 DEF Prepared
<1>10. GoalOf(g, a, FileGraph, FileAttr, goal, id, "PackagesToBuild")
  <2> HIDE DEF goal, id
  <2>1. /\ g.nodes = FileGraph.nodes \cup {goal} /\ From(g, goal) \subseteq FileGraph.nodes
        /\ \A n \in FileGraph.nodes : From(g, n) = From(FileGraph, n) /\ a[n] = FileAttr[n]
        /\ a[goal] = GoalNode("PackagesToBuild", id)
    <3>1. AddsGoal(FileGraph, FileAttr, goal, id, WantedNodes, ExtraLayers, "PackagesToBuild", g, a)
      BY <1>1, <1>2, <1>3, <1>4 DEF AddsGoal
    <3> HIDE DEF g, a
    <3> QED BY <3>1, GoalAdded
  <2>2. \A n \in FileGraph.nodes : FileAttr[n].id # id
    <3>1. FileGraph.nodes \subseteq Node /\ FileGraph.maxID \in Nat \cup {-1}
      BY <1>1, GraphFields
    <3>2. \A n \in FileGraph.nodes : FileAttr[n].id \in Nat /\ FileAttr[n].id <= FileGraph.maxID
      BY <1>1, <3>1 DEF OrderlyFile, PkgNode
    <3> QED BY <3>1, <3>2 DEF id
  <2> HIDE DEF g, a
  <2> QED BY <1>2, <2>1, <2>2 DEF GoalOf
<1> HIDE DEF goal, id, a, g
<1>11. OrderlyGraph(g, a)
  BY <1>10, GoalOrderly DEF OrderlyFile
<1>12. CanSubGraph(g, a, goal, CanUseCache /\ OptimizeWithCachedImplicit)
  <2>1. \A m \in g.nodes : From(g, m) \subseteq g.nodes /\ ~IsImplicit(a, m)
    BY <1>11 DEF OrderlyGraph
  <2>2. Reach(g, goal) \subseteq g.nodes
    BY <1>5, <1>10, <2>1, GraphFields, ReachWithin DEF GoalOf
  <2> QED BY <2>1, <2>2 DEF CanSubGraph
<1>13. FindGoalNode(g, a, "PackagesToBuild") = {goal} /\ ~(Spare \subseteq g.nodes)
  <2>1. a[goal].type = "Goal" /\ a[goal].goal = "PackagesToBuild"
    BY <1>10 DEF GoalOf, GoalNode
  <2> QED BY <1>1, <1>10, <2>1 DEF GoalOf, FindGoalNode
<1>14. /\ OrderlyGraph(p.graph, p.attr) /\ p.goal \in p.graph.nodes
       /\ (FilledGraph(g, a, FileDisk) /\ IgnoredExist(g, a, FileDisk)
             => FilledGraph(p.graph, p.attr, FileDisk) /\ IgnoredExist(p.graph, p.attr, FileDisk))
  <2>1. goal \in g.nodes
    BY <1>10 DEF GoalOf
  <2> QED BY <1>5, <1>7, <1>9, <1>11, <1>12, <1>13, <2>1, OptimizedOrderly
<1>15. OrderlyBuild
  BY <1>8, <1>14 DEF OrderlyBuild
<1>16. ASSUME FilledFile PROVE FilledBuild
  <2>1. FilledGraph(g, a, FileDisk) /\ IgnoredExist(g, a, FileDisk)
    BY <1>10, <1>16, GoalFilled DEF FilledFile, OrderlyFile
  <2> QED BY <1>0, <1>8, <1>14, <1>15, <2>1 DEF FilledBuild
<1> QED BY <1>15, <1>16

\* PrepareGraphForBuild (initializegraph.go:44-72) keeps what the proofs above start
\* from: the goal it adds, the subgraph it takes and the builds that the lookup
\* table drops from that leave an orderly graph, whose nodes name the files they did.
THEOREM PreparationKeepsOrder ==
  Init => (OrderlyFile => OrderlyBuild) /\ (FilledFile => FilledBuild)
BY PreparedOrderly DEF FilledFile
-----------------------------------------------------------------------------
(* The tests of a build.                                                   *)

\* Covered, after a step.
CoveredNext(srpm, S) ==
    \/ \E n \in Node : /\ {"processed", "cached"} \subseteq nodeToState'[n].flags
                      /\ attr'[n].type = "LocalBuild" /\ attr'[n].srpm = srpm
    \/ \E r \in Active' : UsesCache(attr', r, srpm) /\ r.node \notin S

\* Once the channels are being closed no request is made any more.
LEMMA ClosingStays ==
  ASSUME [Next]_vars, pc \in Closing
  PROVE  pc' \in Closing
<1> USE DEF Closing
<1>1. CASE UNCHANGED vars
  BY <1>1 DEF vars, schedVars
<1>2. CASE StartAtLeaves \/ ConvertNodesToRequests \/ ConvertPanics \/ SubmitRequest
  BY <1>2 DEF StartAtLeaves, ConvertNodesToRequests, ConvertPanics, SubmitRequest
<1>3. CASE EnableCachedImplicit \/ CouldNotBuildAll \/ LicenseCheckerFails \/ ReceiveResult
  BY <1>3 DEF EnableCachedImplicit, CouldNotBuildAll, NothingOutstanding, LicenseCheckerFails, ReceiveResult
<1>4. CASE SetAssociatedDeltaPaths \/ InjectProvide \/ FinishFile \/ FinishInject
  BY <1>4 DEF SetAssociatedDeltaPaths, InjectProvide, FinishFile, FinishInject
<1>5. CASE BreakCycle \/ NoMoreCycles \/ Optimize \/ Advance
  BY <1>5 DEF BreakCycle, NoMoreCycles, Optimize, Advance
<1>6. CASE StopBuild \/ DoneBuild \/ CloseRequests \/ ClosePriority
  BY <1>6 DEF StopBuild, DoneBuild, CloseRequests, ClosePriority, CloseChannel
<1>7. CASE DrainPriority \/ DrainRequests
  BY <1>7 DEF DrainPriority, DrainRequests
<1>8. ASSUME NEW w \in Worker, WorkerStep(w) PROVE pc' \in Closing
  BY <1>8, WorkerKeepsScheduler DEF KeepScheduler, schedVars
<1>9. CASE Finished
  BY <1>1, <1>9 DEF Finished
<1> HIDE DEF Closing
<1>10. CASE SchedulerStep
  BY <1>2, <1>3, <1>4, <1>5, <1>6, <1>7, <1>10, Zenon DEF SchedulerStep
<1> QED BY <1>1, <1>8, <1>9, <1>10, Zenon DEF Next

\* Two requests for the same node are the same one.
LEMMA SamePlace ==
  ASSUME TypeInv, OrderInv
  PROVE  /\ \A j, k \in AllJobs : j.node = k.node => j = k
         /\ \A j \in JobsIn(newRequests) : j.node \notin OutstandingNodes
<1>1. /\ Separate(Line) /\ Line[Queue("new")] = newRequests /\ Queue("new") \in LineNames
      /\ \A j \in Outstanding : \E p \in Places(Line) : At(Line, p) = j /\ p[1] # Queue("new")
  BY LineNow, LineName, PlacesHold DEF OrderInv, OneRequestPerNode
<1>2. \A i \in DOMAIN newRequests : /\ <<Queue("new"), i>> \in Places(Line)
                                    /\ At(Line, <<Queue("new"), i>>) = newRequests[i]
  BY <1>1 DEF Places, At
<1>3. \A j \in AllJobs : \E p \in Places(Line) : At(Line, p) = j
  BY <1>1, <1>2 DEF AllJobs, JobsIn
<1>4. \A j \in AllJobs : j.node \in j.ancillary
  BY JobsForNodes
<1>5. \A i \in DOMAIN newRequests : newRequests[i] \in AllJobs
  BY DEF AllJobs, JobsIn
<1>6. ASSUME NEW p \in Places(Line), NEW q \in Places(Line), At(Line, p) \in AllJobs, At(Line, q) \in AllJobs,
             At(Line, p).node = At(Line, q).node
      PROVE  p = q
  BY <1>1, <1>4, <1>6 DEF Separate
<1>7. \A j, k \in AllJobs : j.node = k.node => j = k
  <2> SUFFICES ASSUME NEW j \in AllJobs, NEW k \in AllJobs, j.node = k.node PROVE j = k
    OBVIOUS
  <2>1. PICK p \in Places(Line) : At(Line, p) = j
    BY <1>3
  <2>2. PICK q \in Places(Line) : At(Line, q) = k
    BY <1>3
  <2>3. p = q
    BY <1>6, <2>1, <2>2
  <2> QED BY <2>1, <2>2, <2>3
<1>8. \A j \in JobsIn(newRequests) : j.node \notin OutstandingNodes
  <2> SUFFICES ASSUME NEW i \in DOMAIN newRequests, NEW k \in Outstanding, newRequests[i].node = k.node
               PROVE  FALSE
    BY DEF JobsIn, OutstandingNodes
  <2>1. PICK p \in Places(Line) : At(Line, p) = k /\ p[1] # Queue("new")
    BY <1>1
  <2>2. k \in AllJobs
    BY DEF AllJobs
  <2>3. p = <<Queue("new"), i>>
    BY <1>2, <1>5, <1>6, <2>1, <2>2
  <2> QED BY <2>1, <2>3
<1> QED BY <1>7, <1>8

\* While requests are made, what the build state has is outstanding.
LEMMA ActiveHeld ==
  ASSUME TypeInv, OrderInv, ActiveInv, pc \in {"convert", "submit"}, NEW r \in Active
  PROVE  r.node \in OutstandingNodes /\ r.node \in graph[0].nodes /\ r.node \in Held
<1>1. PICK i \in DOMAIN activeBuilds : r = activeBuilds[i]
  BY DEF Active
<1>2. "licenseChecker" \notin err
  BY DEF ActiveInv, Closing
<1>3. PICK j \in Outstanding : j.node = r.node
  BY <1>1, <1>2 DEF ActiveInv
<1>4. j \in AllJobs
  BY DEF AllJobs
<1>5. j.node \in j.ancillary /\ j.ancillary \subseteq graph[0].nodes /\ j.ancillary \subseteq Held
  BY <1>4, JobsForNodes
<1> QED BY <1>3, <1>5 DEF OutstandingNodes

\* Every request and result was one before the step, which may have been added to.
LEMMA AlikeJobs ==
  ASSUME TypeInv, [Next]_vars, ~ConvertNodesToRequests, NEW j \in AllJobs'
  PROVE  \E k \in AllJobs : Alike(j, k)
<1>1. CASE AllJobs' \subseteq AllJobs
  BY <1>1 DEF Alike
<1>2. ASSUME NEW w \in Worker, Working(w), job[w] \in AllJobs, AllJobs' \subseteq AllJobs \cup {job'[w]}
      PROVE  \E k \in AllJobs : Alike(j, k)
  <2>1. job[w] \in Job
    BY <1>2 DEF TypeInv, WorkersOK, AcceptedJob
  <2>2. job \in [Worker -> AcceptedJob]
    BY DEF TypeInv, WorkersOK
  <2>3. Alike(job'[w], job[w])
    BY <1>2, <2>1, <2>2 DEF Alike, Working, PassThrough, SkipIgnored, UseCached, BuildSRPMFile,
       TestSRPMFile, KeepWork, Job
  <2> QED BY <1>2, <2>3 DEF Alike
<1> QED BY <1>1, <1>2, JobsMove

\* What ReceiveResult records.
LEMMA ReceiveRecords ==
  ASSUME TypeInv, OrderInv, ReceiveResult
  PROVE  /\ results # <<>> /\ pc = "submit" /\ results' = Tail(results)
         /\ UNCHANGED <<attr, newRequests, requests, priorityRequests, wpc, job>>
         /\ Head(results) \in JobsIn(results) /\ Head(results) \in Outstanding /\ Head(results) \in AllJobs
         /\ activeBuilds' = WithoutActive(attr[Head(results).node].id)
         /\ nodeToState' = [n \in Node |-> IF n \in Head(results).ancillary
                                           THEN StateOf(Head(results)) ELSE nodeToState[n]]
         /\ Head(results).ancillary \cap Processed = {}
         /\ Head(results).node \in Head(results).ancillary /\ Head(results).ancillary \subseteq Node
<1>1. /\ results # <<>> /\ pc = "submit" /\ results' = Tail(results)
      /\ UNCHANGED <<attr, newRequests, requests, priorityRequests, wpc, job>>
      /\ \E license : RecordBuildResult(Head(results), license)
  BY DEF ReceiveResult, workerVars
<1>2. Head(results) \in AcceptedJob /\ Head(results) \in JobsIn(results)
  BY <1>1, Queues, JobsOfQueue DEF TypeInv, ChannelsOK
<1>3. ~(Head(results).freshness > MaxFreshness)
  <2>1. Head(results).freshness \in Nat /\ Head(results).freshness <= MaxFreshness
    BY <1>2 DEF AcceptedJob, Job
  <2>2. MaxFreshness \in Nat
    BY InputTypes DEF TypeInv, GraphsOK
  <2> QED BY <2>1, <2>2
<1>4. Head(results) \in Outstanding /\ Head(results) \in AllJobs
  BY <1>2 DEF Outstanding, AllJobs
<1>5. /\ Head(results).node \in Head(results).ancillary
      /\ Head(results).ancillary \subseteq graph[0].nodes /\ Head(results).ancillary \subseteq Held
  BY <1>4, JobsForNodes
<1>6. graph[0].nodes \subseteq Node /\ Held \cap Processed = {}
  BY GraphFields DEF TypeInv, GraphsOK, OrderInv, OneRequestPerNode
<1>7. /\ activeBuilds' = WithoutActive(attr[Head(results).node].id)
      /\ nodeToState' = [n \in Node |-> IF n \in Head(results).ancillary
                                        THEN StateOf(Head(results)) ELSE nodeToState[n]]
  BY <1>1, <1>3 DEF RecordBuildResult
<1> QED BY <1>1, <1>2, <1>4, <1>5, <1>6, <1>7

\* No step but ConvertNodesToRequests changes the graph, and none the nodes.
LEMMA NodesStay ==
  ASSUME TypeInv, OrderInv, [Next]_vars
  PROVE  SameNodes(attr, attr')
<1>1. CASE ConvertNodesToRequests
  BY <1>1 DEF ConvertNodesToRequests, SameNodes
<1> QED BY <1>1, FieldsStep

\* An SRPM whose build used the cache stays one.
LEMMA CachedStays ==
  ASSUME TypeInv, OrderInv, [Next]_vars, NEW s, IsSRPMCached(s)
  PROVE  IsSRPMCached(s)'
<1>1. PICK n \in Node : /\ IsNodeProcessed(n) /\ attr[n].type = "LocalBuild" /\ attr[n].srpm = s
                        /\ "cached" \in nodeToState[n].flags
  BY DEF IsSRPMCached
<1>2. attr'[n].type = "LocalBuild" /\ attr'[n].srpm = s
  BY <1>1, NodesStay DEF SameNodes
<1>3. nodeToState'[n] = nodeToState[n]
  <2>1. CASE nodeToState' = nodeToState
    BY <2>1
  <2>2. CASE ReceiveResult
    <3>1. n \notin Head(results).ancillary
      BY <1>1, <2>2, ReceiveRecords DEF Processed
    <3> QED BY <2>2, <3>1, ReceiveRecords
  <2> QED BY <2>1, <2>2, OnwardStep DEF Onward
<1> QED BY <1>1, <1>2, <1>3 DEF IsSRPMCached, IsNodeProcessed

\* A request that leaves the build state is the one that was taken.
LEMMA ActiveLost ==
  ASSUME TypeInv, OrderInv, NEW j \in Outstanding, activeBuilds' = WithoutActive(attr[j.node].id),
         NEW r \in Active
  PROVE  r \in Active' \/ r.node = j.node
<1>1. activeBuilds[attr[j.node].id].node = j.node
  BY DEF OrderInv, AllKnown, OutstandingNodes
<1>2. PICK i \in DOMAIN activeBuilds : r = activeBuilds[i]
  BY DEF Active
<1>3. CASE i = attr[j.node].id
  BY <1>1, <1>2, <1>3
<1>4. CASE i # attr[j.node].id
  <2>1. i \in DOMAIN activeBuilds' /\ activeBuilds'[i] = r
    BY <1>2, <1>4 DEF WithoutActive
  <2> QED BY <2>1 DEF Active
<1> QED BY <1>3, <1>4

\* A build that covers tests goes on doing so while it stays in the build state,
\* ahead of them, or once its result is recorded.
LEMMA CoveredKept ==
  ASSUME TypeInv, OrderInv, [Next]_vars, NEW s, NEW S, NEW T, Covered(s, S),
         \A r \in Active : UsesCache(attr, r, s) /\ r.node \notin S
             => (r \in Active' /\ r.node \notin T) \/ IsSRPMCached(s)'
  PROVE  CoveredNext(s, T)
<1>1. CASE IsSRPMCached(s) \/ IsSRPMCached(s)'
  BY <1>1, CachedStays DEF CoveredNext, IsSRPMCached, IsNodeProcessed
<1>2. ASSUME NEW r \in Active, UsesCache(attr, r, s), r.node \notin S
      PROVE  CoveredNext(s, T)
  <2>1. r.node \in Node
    BY DEF TypeInv, StateOK, AcceptedJob, Job
  <2>2. UsesCache(attr', r, s)
    BY <1>2, <2>1, NodesStay DEF SameNodes, UsesCache
  <2> QED BY <1>1, <1>2, <2>2 DEF CoveredNext
<1> QED BY <1>1, <1>2 DEF Covered

\* Whether a request is skipped does not change.
LEMMA SkipsStay ==
  ASSUME TypeInv, OrderInv, [Next]_vars, NEW j, NEW k, Alike(j, k), k.node \in Node
  PROVE  /\ Skips(attr', j) <=> Skips(attr, k)
         /\ \A s : UsesCache(attr', j, s) <=> UsesCache(attr, k, s)
         /\ attr'[j.node].srpm = attr[k.node].srpm
BY NodesStay DEF SameNodes, Alike, Skips, UsesCache

\* The nodes of a queue, after one was taken from its front or put at its end.
LEMMA QueueNodes ==
  ASSUME NEW S, NEW q \in Seq(S)
  PROVE  /\ q # <<>> =>
              /\ 1 \in DOMAIN q /\ q[1] = Head(q) /\ Head(q).node \in NodesFrom(q, 1)
              /\ NodesFrom(Tail(q), 1) \subseteq NodesFrom(q, 1)
              /\ \A i \in DOMAIN Tail(q) :
                    /\ i \in Nat /\ i >= 1 /\ i + 1 \in DOMAIN q /\ Tail(q)[i] = q[i + 1]
                    /\ NodesFrom(Tail(q), i) \subseteq NodesFrom(q, i + 1)
              /\ \A k \in DOMAIN q : k # 1 => k - 1 \in DOMAIN Tail(q) /\ Tail(q)[k - 1] = q[k]
         /\ \A j \in S :
              /\ NodesFrom(Append(q, j), 1) \subseteq NodesFrom(q, 1) \cup {j.node}
              /\ \A i \in DOMAIN Append(q, j) :
                    \/ /\ i \in DOMAIN q /\ Append(q, j)[i] = q[i]
                       /\ NodesFrom(Append(q, j), i) \subseteq NodesFrom(q, i) \cup {j.node}
                    \/ Append(q, j)[i] = j /\ NodesFrom(Append(q, j), i) \subseteq {j.node}
<1>1. ASSUME q # <<>>
      PROVE  /\ 1 \in DOMAIN q /\ q[1] = Head(q) /\ Tail(q) \in Seq(S) /\ Len(Tail(q)) = Len(q) - 1
             /\ \A i \in DOMAIN Tail(q) : i \in Nat /\ i >= 1 /\ i + 1 \in DOMAIN q /\ Tail(q)[i] = q[i + 1]
             /\ \A k \in DOMAIN q : k # 1 => k - 1 \in DOMAIN Tail(q) /\ Tail(q)[k - 1] = q[k]
  BY <1>1
<1>2. ASSUME q # <<>>, NEW i \in DOMAIN Tail(q)
      PROVE  NodesFrom(Tail(q), i) \subseteq NodesFrom(q, i + 1)
  <2> SUFFICES ASSUME NEW k \in DOMAIN Tail(q), k >= i PROVE Tail(q)[k].node \in NodesFrom(q, i + 1)
    BY DEF NodesFrom
  <2>1. k + 1 \in DOMAIN q /\ k + 1 >= i + 1 /\ Tail(q)[k] = q[k + 1]
    BY <1>1, <1>2
  <2> QED BY <2>1 DEF NodesFrom
<1>3. ASSUME q # <<>> PROVE NodesFrom(Tail(q), 1) \subseteq NodesFrom(q, 1) /\ Head(q).node \in NodesFrom(q, 1)
  <2>1. Head(q).node \in NodesFrom(q, 1)
    BY <1>1, <1>3 DEF NodesFrom
  <2>2. ASSUME NEW k \in DOMAIN Tail(q) PROVE Tail(q)[k].node \in NodesFrom(q, 1)
    <3>1. k + 1 \in DOMAIN q /\ k + 1 >= 1 /\ Tail(q)[k] = q[k + 1]
      BY <1>1, <1>3
    <3> QED BY <3>1 DEF NodesFrom
  <2>3. NodesFrom(Tail(q), 1) \subseteq NodesFrom(q, 1)
    BY <2>2 DEF NodesFrom
  <2> QED BY <2>1, <2>3
<1>4. ASSUME NEW j \in S
      PROVE  \A k \in DOMAIN Append(q, j) :
                \/ k \in DOMAIN q /\ Append(q, j)[k] = q[k]
                \/ k = Len(q) + 1 /\ Append(q, j)[k] = j
  OBVIOUS
<1>5. ASSUME NEW j \in S, NEW i \in Nat
      PROVE  NodesFrom(Append(q, j), i) \subseteq NodesFrom(q, i) \cup {j.node}
  BY <1>4 DEF NodesFrom
<1>6. ASSUME NEW j \in S PROVE NodesFrom(Append(q, j), Len(q) + 1) \subseteq {j.node}
  <2> SUFFICES ASSUME NEW k \in DOMAIN Append(q, j), k >= Len(q) + 1 PROVE Append(q, j)[k].node = j.node
    BY DEF NodesFrom
  <2>1. \A l \in DOMAIN q : ~(l >= Len(q) + 1)
    OBVIOUS
  <2> QED BY <1>4, <2>1
<1>7. \A j \in S : DOMAIN Append(q, j) \subseteq Nat
  OBVIOUS
<1>8. ASSUME NEW j \in S, NEW i \in DOMAIN Append(q, j)
      PROVE  \/ /\ i \in DOMAIN q /\ Append(q, j)[i] = q[i]
                /\ NodesFrom(Append(q, j), i) \subseteq NodesFrom(q, i) \cup {j.node}
             \/ Append(q, j)[i] = j /\ NodesFrom(Append(q, j), i) \subseteq {j.node}
  <2>1. i \in Nat
    BY <1>7
  <2>2. NodesFrom(Append(q, j), i) \subseteq NodesFrom(q, i) \cup {j.node}
    BY <1>5, <2>1
  <2> QED BY <1>4, <1>6, <2>2
<1> QED BY <1>1, <1>2, <1>3, <1>5, <1>8

\* A step that keeps the build state keeps what is covered.
LEMMA CoveredSame ==
  ASSUME TypeInv, OrderInv, [Next]_vars, activeBuilds' = activeBuilds,
         NEW s, NEW S, NEW T, T \subseteq S, Covered(s, S)
  PROVE  CoveredNext(s, T)
<1>1. Active' = Active
  BY DEF Active
<1> QED BY <1>1, CoveredKept

\* A request that is submitted is behind every build that is in the build state.
LEMMA CoveredSubmit ==
  ASSUME TypeInv, OrderInv, ActiveInv, SubmitRequest, NEW s, NEW S, NEW T,
         T \subseteq S \cup {Head(newRequests).node}, Covered(s, S)
  PROVE  CoveredNext(s, T)
<1> DEFINE req == Head(newRequests)
           id == attr[req.node].id
<1>1. /\ pc = "submit" /\ newRequests # <<>>
      /\ activeBuilds' = [i \in DOMAIN activeBuilds \cup {id} |-> IF i = id THEN req ELSE activeBuilds[i]]
  BY DEF SubmitRequest
<1>2. req \in JobsIn(newRequests)
  BY <1>1, JobsOfQueue DEF TypeInv, LoopOK
<1>3. req \in AllJobs
  BY <1>2 DEF AllJobs
<1>4. req.node \in graph[0].nodes /\ req.node \notin OutstandingNodes
  BY <1>2, <1>3, JobsForNodes, SamePlace
<1>5. ASSUME NEW r \in Active PROVE r \in Active' /\ r.node # req.node
  <2>1. PICK i \in DOMAIN activeBuilds : r = activeBuilds[i]
    BY DEF Active
  <2>2. r.node \in OutstandingNodes /\ r.node \in graph[0].nodes
    BY <1>1, ActiveHeld
  <2>3. r.node # req.node
    BY <1>4, <2>2
  <2>4. attr[r.node].id = i
    BY <2>1 DEF ActiveInv
  <2>5. i # id
    BY <1>4, <2>2, <2>3, <2>4 DEF OrderInv, Orderly, OrderlyBuild, OrderlyGraph
  <2>6. i \in DOMAIN activeBuilds' /\ activeBuilds'[i] = r
    BY <1>1, <2>1, <2>5
  <2> QED BY <2>3, <2>6 DEF Active
<1>6. [Next]_vars
  BY DEF Next, SchedulerStep
<1> QED BY <1>5, <1>6, CoveredKept

\* A build whose result is recorded is known to have used the cache.
LEMMA CoveredReceive ==
  ASSUME TypeInv, OrderInv, RequestsKnown, ReceiveResult, NEW s, NEW S, NEW T, T \subseteq S,
         Covered(s, S)
  PROVE  CoveredNext(s, T)
<1> DEFINE res == Head(results)
<1>1. /\ res \in Outstanding /\ res \in AllJobs /\ attr' = attr
      /\ activeBuilds' = WithoutActive(attr[res.node].id)
      /\ nodeToState' = [n \in Node |-> IF n \in res.ancillary THEN StateOf(res) ELSE nodeToState[n]]
      /\ res.node \in res.ancillary /\ res.ancillary \subseteq Node
  BY ReceiveRecords
<1> HIDE DEF res
<1>2. ASSUME NEW r \in Active, UsesCache(attr, r, s), r \notin Active' PROVE IsSRPMCached(s)'
  <2>1. r.node = res.node
    BY <1>1, <1>2, ActiveLost
  <2>2. "UseCache" \in res.flags
    BY <1>1, <1>2, <2>1 DEF RequestsKnown, UsesCache
  <2>3. {"processed", "cached"} \subseteq nodeToState'[res.node].flags
    BY <1>1, <2>2 DEF StateOf
  <2>4. attr'[res.node].type = "LocalBuild" /\ attr'[res.node].srpm = s /\ res.node \in Node
    BY <1>1, <1>2, <2>1 DEF UsesCache
  <2> QED BY <2>3, <2>4 DEF IsSRPMCached, IsNodeProcessed
<1>3. [Next]_vars
  BY DEF Next, SchedulerStep
<1> QED BY <1>2, <1>3, CoveredKept

\* What a worker has after a step it had before, or took from a channel.
LEMMA WorkerQueues ==
  ASSUME TypeInv, NEW w \in Worker, WorkerStep(w)
  PROVE  /\ UNCHANGED <<activeBuilds, nodeToState, newRequests, pc>>
         /\ \/ /\ requests' = requests
               /\ \A j \in InHand' : j \in JobsIn(priorityRequests) \/ \E k \in InHand : Alike(j, k)
            \/ /\ requests # <<>> /\ requests' = Tail(requests)
               /\ \A j \in InHand' : j = Head(requests) \/ \E k \in InHand : Alike(j, k)
<1>0. /\ job \in [Worker -> AcceptedJob] /\ wpc \in [Worker -> WorkerControl] /\ ChannelsOK
      /\ UNCHANGED <<activeBuilds, nodeToState, newRequests, pc>>
  BY WorkerKeepsScheduler DEF TypeInv, WorkersOK, KeepScheduler, schedVars, stateVars
<1>1. /\ InHand = JobsIn(results) \cup {job[v] : v \in Busy}
      /\ InHand' = JobsIn(results') \cup {job'[v] : v \in Busy'}
  BY DEF InHand, JobsIn
<1>2. \A j : Alike(j, j)
  BY DEF Alike
<1>3. ASSUME KeepChannels, Busy' \subseteq Busy, \A v \in Busy : Alike(job'[v], job[v])
      PROVE  requests' = requests /\ \A j \in InHand' : \E k \in InHand : Alike(j, k)
  <2>1. requests' = requests /\ results' = results
    BY <1>3 DEF KeepChannels, chanVars
  <2> QED BY <1>1, <1>2, <1>3, <2>1
<1>4. CASE \/ PassThrough(w) \/ SkipIgnored(w) \/ UseCached(w) \/ StartBuild(w)
           \/ BuildSRPMFile(w) \/ TestSRPMFile(w) \/ SetAncillaryBuildNodesStatus(w)
  <2>1. KeepChannels /\ Busy' = Busy
    BY <1>4, WorkSteps
  <2>2. job[w] \in Job
    BY <1>0 DEF AcceptedJob
  <2>3. Alike(job'[w], job[w]) /\ \A v \in Worker \ {w} : job'[v] = job[v]
    BY <1>0, <1>4, <2>2 DEF Alike, PassThrough, SkipIgnored, UseCached, BuildSRPMFile, TestSRPMFile,
       StartBuild, SetAncillaryBuildNodesStatus, KeepWork, Job
  <2>4. \A v \in Busy : Alike(job'[v], job[v])
    BY <1>2, <2>3 DEF Busy
  <2> QED BY <1>0, <1>3, <2>1, <2>4
<1>5. ASSUME wpc[w] \in {"poll", "pollPriority", "select"},
             NEW to \in {"pollPriority", "select", "stopped"}, Goto(w, to), KeepWork, KeepChannels
      PROVE  requests' = requests /\ \A j \in InHand' : \E k \in InHand : Alike(j, k)
  <2>1. job' = job /\ Busy' \subseteq Busy
    BY <1>0, <1>5 DEF Goto, KeepWork, Busy
  <2> QED BY <1>2, <1>3, <1>5, <2>1
<1>6. ASSUME wpc[w] \in {"pollPriority", "select"}, NEW req, Accept(w, req), results' = results
      PROVE  \A j \in InHand' : j = req \/ \E k \in InHand : Alike(j, k)
  <2>1. job'[w] = req /\ \A v \in Worker \ {w} : job'[v] = job[v] /\ wpc'[v] = wpc[v]
    BY <1>0, <1>6 DEF Accept, Goto
  <2>2. {job'[v] : v \in Busy'} \subseteq {job[v] : v \in Busy} \cup {req}
    BY <2>1 DEF Busy
  <2> QED BY <1>1, <1>2, <1>6, <2>2
<1>7. ASSUME wpc[w] \in {"pollPriority", "select"}, AcceptPriority(w)
      PROVE  requests' = requests
             /\ \A j \in InHand' : j \in JobsIn(priorityRequests) \/ \E k \in InHand : Alike(j, k)
  <2>1. Head(priorityRequests) \in JobsIn(priorityRequests)
    BY <1>0, <1>7, JobsOfQueue DEF ChannelsOK, AcceptPriority
  <2>2. requests' = requests /\ results' = results /\ Accept(w, Head(priorityRequests))
    BY <1>7 DEF AcceptPriority
  <2> QED BY <1>6, <1>7, <2>1, <2>2
<1>8. ASSUME wpc[w] \in {"pollPriority", "select"}, AcceptNormal(w)
      PROVE  /\ requests # <<>> /\ requests' = Tail(requests)
             /\ \A j \in InHand' : j = Head(requests) \/ \E k \in InHand : Alike(j, k)
  <2>1. requests # <<>> /\ requests' = Tail(requests) /\ results' = results /\ Accept(w, Head(requests))
    BY <1>8 DEF AcceptNormal
  <2> QED BY <1>6, <1>8, <2>1
<1>9. CASE PollCancel(w)
  BY <1>0, <1>5, <1>9 DEF PollCancel, WorkerAt, Leave
<1>10. CASE PollPriority(w)
  BY <1>0, <1>5, <1>7, <1>10 DEF PollPriority, WorkerAt, Leave
<1>11. CASE Select(w)
  BY <1>0, <1>5, <1>7, <1>8, <1>11 DEF Select, WorkerAt, Leave
<1>12. CASE PublishResult(w)
  <2>1. /\ results' = Append(results, job[w]) /\ requests' = requests
        /\ wpc[w] = "publish" /\ wpc'[w] = "poll"
        /\ \A v \in Worker \ {w} : job'[v] = job[v] /\ wpc'[v] = wpc[v]
    BY <1>0, <1>12 DEF PublishResult, Goto, WorkerAt
  <2>2. JobsIn(results') = JobsIn(results) \cup {job[w]}
    BY <1>0, <2>1, JobsOfQueue DEF ChannelsOK
  <2>3. {job'[v] : v \in Busy'} \subseteq {job[v] : v \in Busy} /\ w \in Busy
    BY <2>1 DEF Busy
  <2>4. InHand' \subseteq InHand
    BY <1>1, <2>2, <2>3
  <2> QED BY <1>0, <1>2, <2>1, <2>4
<1> QED BY <1>4, <1>9, <1>10, <1>11, <1>12 DEF WorkerStep

\* A build ahead of what is in the channel stays ahead of it.
LEMMA AheadStays ==
  ASSUME TypeInv, OrderInv, ActiveInv, RequestsKnown, [Next]_vars, NEW s,
         Covered(s, NodesFrom(requests, 1))
  PROVE  CoveredNext(s, NodesFrom(requests', 1))
<1>0. requests \in Seq(AcceptedJob) /\ priorityRequests \in Seq(AcceptedJob) /\ newRequests \in Seq(AcceptedJob)
  BY DEF TypeInv, ChannelsOK, LoopOK
<1>1. ASSUME activeBuilds' = activeBuilds, requests' = requests \/ (requests # <<>> /\ requests' = Tail(requests))
      PROVE  CoveredNext(s, NodesFrom(requests', 1))
  <2>1. NodesFrom(requests', 1) \subseteq NodesFrom(requests, 1)
    BY <1>0, <1>1, QueueNodes
  <2> QED BY <1>1, <2>1, CoveredSame
<1>2. CASE Quiet
  BY <1>1, <1>2 DEF Quiet
<1>3. CASE SubmitRequest
  <2>1. /\ newRequests # <<>>
        /\ requests' = requests \/ requests' = Append(requests, Head(newRequests))
    BY <1>3 DEF SubmitRequest
  <2>2. Head(newRequests) \in AcceptedJob
    BY <1>0, <2>1, Queues
  <2>3. NodesFrom(requests', 1) \subseteq NodesFrom(requests, 1) \cup {Head(newRequests).node}
    BY <1>0, <2>1, <2>2, QueueNodes
  <2> QED BY <1>3, <2>3, CoveredSubmit
<1>4. CASE LicenseCheckerFails
  BY <1>1, <1>4 DEF LicenseCheckerFails, stateVars
<1>5. CASE ReceiveResult
  BY <1>5, CoveredReceive, ReceiveRecords
<1>6. CASE DrainPriority
  <2>1. requests' = requests
    BY <1>6 DEF DrainPriority
  <2>2. CASE activeBuilds' = activeBuilds
    BY <1>1, <2>1, <2>2
  <2>3. CASE priorityRequests # <<>> /\ Taken(Head(priorityRequests))
    <3>1. /\ Head(priorityRequests) \in Outstanding /\ Head(priorityRequests) \in JobsIn(priorityRequests)
          /\ activeBuilds' = WithoutActive(attr[Head(priorityRequests).node].id)
      BY <1>0, <2>3, JobsOfQueue DEF Taken
    <3>2. attr[Head(priorityRequests).node].type = "PreBuilt"
      BY <3>1 DEF RequestsKnown
    <3>3. ASSUME NEW r \in Active, UsesCache(attr, r, s) PROVE r \in Active'
      <4>1. r.node # Head(priorityRequests).node
        BY <3>2, <3>3 DEF UsesCache
      <4> QED BY <3>1, <4>1, ActiveLost
    <3> QED BY <2>1, <3>3, CoveredKept
  <2> QED BY <1>6, <2>2, <2>3, TakingSteps
<1>7. CASE DrainRequests
  <2>1. CASE UNCHANGED <<activeBuilds, requests>>
    BY <1>1, <2>1
  <2>2. CASE requests # <<>> /\ Taken(Head(requests))
    <3>1. /\ Head(requests) \in Outstanding /\ requests' = Tail(requests)
          /\ activeBuilds' = WithoutActive(attr[Head(requests).node].id)
      BY <1>7, <2>2 DEF Taken, DrainRequests
    <3>2. /\ NodesFrom(requests', 1) \subseteq NodesFrom(requests, 1)
          /\ Head(requests).node \in NodesFrom(requests, 1)
      BY <1>0, <2>2, <3>1, QueueNodes
    <3>3. ASSUME NEW r \in Active, r.node \notin NodesFrom(requests, 1)
          PROVE  r \in Active' /\ r.node \notin NodesFrom(requests', 1)
      BY <3>1, <3>2, <3>3, ActiveLost
    <3> QED BY <3>3, CoveredKept
  <2> QED BY <1>7, <2>1, <2>2, TakingSteps
<1>8. ASSUME NEW w \in Worker, WorkerStep(w) PROVE CoveredNext(s, NodesFrom(requests', 1))
  BY <1>1, <1>8, WorkerQueues
<1> QED BY <1>2, <1>3, <1>4, <1>5, <1>6, <1>7, <1>8, MovingSteps

\* A test that is recorded as skipped has its build ahead of it.
LEMMA SkippedStep ==
  ASSUME TypeInv, OrderInv, ActiveInv, TestInv, [Next]_vars
  PROVE  SkippedBehind'
<1> SUFFICES ASSUME NEW n \in Node, attr'[n].type = "Test",
                    {"processed", "cached"} \subseteq nodeToState'[n].flags
             PROVE  CoveredNext(attr'[n].srpm, NodesFrom(requests', 1))
  BY DEF SkippedBehind, CoveredNext, Covered, NodesFrom, IsSRPMCached, IsNodeProcessed
<1>1. attr[n].type = "Test" /\ attr'[n].srpm = attr[n].srpm
  BY NodesStay DEF SameNodes
<1>2. Covered(attr[n].srpm, NodesFrom(requests, 1))
  <2>1. CASE nodeToState'[n] = nodeToState[n]
    BY <1>1, <2>1 DEF TestInv, SkippedBehind
  <2>2. CASE nodeToState'[n] # nodeToState[n]
    <3>1. ReceiveResult
      BY <2>2, OnwardStep DEF Onward
    <3>2. /\ n \in Head(results).ancillary /\ nodeToState'[n] = StateOf(Head(results))
          /\ Head(results) \in AllJobs /\ Head(results) \in JobsIn(results) /\ pc = "submit"
      BY <2>2, <3>1, ReceiveRecords
    <3>3. "UseCache" \in Head(results).flags
      BY <3>2 DEF StateOf
    <3>4. attr[Head(results).node].type = "Test" /\ attr[n].srpm = attr[Head(results).node].srpm
      BY <1>1, <3>2 DEF TestInv, RequestsKnown
    <3>5. TakenBehind /\ Head(results) \in InHand
      BY <3>2 DEF TestInv, Closing, InHand
    <3> QED BY <3>3, <3>4, <3>5 DEF TakenBehind, Skips
  <2> QED BY <2>1, <2>2
<1>3. ASSUME NEW s, s = attr[n].srpm PROVE CoveredNext(s, NodesFrom(requests', 1))
  BY <1>2, <1>3, AheadStays DEF TestInv
<1> QED BY <1>1, <1>3

\* What is known of the requests stays known.
LEMMA RequestsStep ==
  ASSUME TypeInv, OrderInv, TestInv, [Next]_vars, ~ConvertNodesToRequests
  PROVE  RequestsKnown'
<1>0. ASSUME NEW j \in AllJobs' PROVE \E k \in AllJobs : Alike(j, k) /\ k.ancillary \subseteq Node /\ k.node \in Node
  <2>1. PICK k \in AllJobs : Alike(j, k)
    BY AlikeJobs
  <2>2. k \in Job
    BY JobsForNodes
  <2> QED BY <2>1, <2>2 DEF Job
<1>1. ASSUME NEW r \in Active', NEW j \in AllJobs', r.node = j.node, "UseCache" \in r.flags
      PROVE  "UseCache" \in j.flags
  <2>1. PICK k \in AllJobs : Alike(j, k)
    BY <1>0
  <2>2. CASE r \in Active
    BY <1>1, <2>1, <2>2 DEF TestInv, RequestsKnown, Alike
  <2>3. CASE r \in AllJobs
    BY <1>1, <2>1, <2>3, SamePlace DEF Alike
  <2>4. r \in Active \/ r \in AllJobs
    <3>1. PICK i \in DOMAIN activeBuilds' : r = activeBuilds'[i]
      BY DEF Active
    <3>2. CASE SubmitRequest
      <4>1. /\ newRequests # <<>>
            /\ activeBuilds' = [l \in DOMAIN activeBuilds \cup {attr[Head(newRequests).node].id} |->
                                  IF l = attr[Head(newRequests).node].id THEN Head(newRequests)
                                  ELSE activeBuilds[l]]
        BY <3>2 DEF SubmitRequest
      <4>2. Head(newRequests) \in AllJobs
        BY <4>1, JobsOfQueue DEF TypeInv, LoopOK, AllJobs
      <4>3. r = Head(newRequests) \/ (i \in DOMAIN activeBuilds /\ r = activeBuilds[i])
        BY <3>1, <4>1
      <4> QED BY <4>2, <4>3 DEF Active
    <3>3. ASSUME activeBuilds' = activeBuilds \/ \E id : activeBuilds' = WithoutActive(id)
          PROVE  r \in Active
      <4>1. i \in DOMAIN activeBuilds /\ r = activeBuilds[i]
        BY <3>1, <3>3 DEF WithoutActive
      <4> QED BY <4>1 DEF Active
    <3>4. CASE Quiet \/ LicenseCheckerFails
      BY <3>3, <3>4 DEF Quiet, LicenseCheckerFails, stateVars
    <3>5. CASE ReceiveResult
      BY <3>3, <3>5, ReceiveRecords
    <3>6. CASE DrainPriority \/ DrainRequests
      BY <3>3, <3>6 DEF DrainPriority, DrainRequests
    <3>7. CASE \E w \in Worker : WorkerStep(w)
      BY <3>3, <3>7, WorkerQueues
    <3> QED BY <3>2, <3>4, <3>5, <3>6, <3>7, MovingSteps
  <2> QED BY <2>2, <2>3, <2>4
<1>2. ASSUME NEW j \in AllJobs', NEW n \in j.ancillary, attr'[n].type = "Test"
      PROVE  attr'[j.node].type = "Test" /\ attr'[n].srpm = attr'[j.node].srpm
  <2>1. PICK k \in AllJobs : Alike(j, k) /\ k.ancillary \subseteq Node /\ k.node \in Node
    BY <1>0
  <2>2. n \in k.ancillary /\ n \in Node /\ attr[n].type = "Test" /\ attr'[n].srpm = attr[n].srpm
    BY <1>2, <2>1, NodesStay DEF SameNodes, Alike
  <2>3. attr[k.node].type = "Test" /\ attr[n].srpm = attr[k.node].srpm
    BY <2>2 DEF TestInv, RequestsKnown
  <2>4. j.node = k.node
    BY <2>1 DEF Alike
  <2>5. attr'[k.node].type = "Test" /\ attr'[k.node].srpm = attr[k.node].srpm
    BY <2>1, <2>3, NodesStay DEF SameNodes
  <2> QED BY <2>2, <2>3, <2>4, <2>5
<1>3. ASSUME NEW j \in JobsIn(priorityRequests') PROVE attr'[j.node].type = "PreBuilt"
  <2>0. priorityRequests \in Seq(AcceptedJob) /\ newRequests \in Seq(AcceptedJob)
    BY DEF TypeInv, ChannelsOK, LoopOK
  <2>1. ASSUME priorityRequests' = priorityRequests
               \/ (priorityRequests # <<>> /\ priorityRequests' = Tail(priorityRequests))
        PROVE  j \in JobsIn(priorityRequests)
    BY <1>3, <2>0, <2>1, JobsOfQueue
  <2>2. ASSUME j \in JobsIn(priorityRequests) PROVE attr'[j.node].type = "PreBuilt"
    <3>1. attr[j.node].type = "PreBuilt"
      BY <2>2 DEF TestInv, RequestsKnown
    <3>2. j.node \in Node
      BY <2>0, <2>2 DEF JobsIn, AcceptedJob, Job
    <3> QED BY <3>1, <3>2, NodesStay DEF SameNodes
  <2>3. CASE SubmitRequest
    <3>1. /\ newRequests # <<>> /\ attr' = attr
          /\ \/ priorityRequests' = priorityRequests
             \/ /\ attr[Head(newRequests).node].type = "PreBuilt"
                /\ priorityRequests' = Append(priorityRequests, Head(newRequests))
      BY <2>3 DEF SubmitRequest
    <3>2. Head(newRequests) \in AcceptedJob
      BY <2>0, <3>1, Queues
    <3>3. JobsIn(Append(priorityRequests, Head(newRequests)))
            = JobsIn(priorityRequests) \cup {Head(newRequests)}
      BY <2>0, <3>2, JobsOfQueue
    <3>4. CASE priorityRequests' = priorityRequests
      BY <2>1, <2>2, <3>4
    <3>5. CASE priorityRequests' = Append(priorityRequests, Head(newRequests))
               /\ attr[Head(newRequests).node].type = "PreBuilt"
      <4>1. j \in JobsIn(priorityRequests) \/ j = Head(newRequests)
        BY <1>3, <3>3, <3>5
      <4> QED BY <2>2, <3>1, <3>5, <4>1
    <3> QED BY <3>1, <3>4, <3>5
  <2>4. CASE Quiet \/ LicenseCheckerFails
    BY <2>1, <2>2, <2>4 DEF Quiet, LicenseCheckerFails
  <2>5. CASE ReceiveResult
    BY <2>1, <2>2, <2>5, ReceiveRecords
  <2>6. CASE DrainPriority \/ DrainRequests
    BY <2>1, <2>2, <2>6 DEF DrainPriority, DrainRequests
  <2>7. ASSUME NEW w \in Worker, WorkerStep(w)
        PROVE  priorityRequests' = priorityRequests
               \/ (priorityRequests # <<>> /\ priorityRequests' = Tail(priorityRequests))
    BY <2>7 DEF WorkerStep, PollCancel, PollPriority, Select, PassThrough, SkipIgnored, UseCached,
       StartBuild, BuildSRPMFile, TestSRPMFile, SetAncillaryBuildNodesStatus, PublishResult,
       KeepChannels, chanVars, AcceptPriority, AcceptNormal
  <2> QED BY <2>1, <2>2, <2>3, <2>4, <2>5, <2>6, <2>7, MovingSteps
<1>4. AllJobs' = JobsIn(newRequests)' \cup Outstanding' /\ JobsIn(priorityRequests)' = JobsIn(priorityRequests')
  BY DEF AllJobs, JobsIn
<1> QED BY <1>1, <1>2, <1>3, <1>4 DEF RequestsKnown

\* A test that a worker has, or has sent the result of, was taken from the channel
\* after its build.
LEMMA TakenStep ==
  ASSUME TypeInv, OrderInv, ActiveInv, TestInv, [Next]_vars, pc \notin Closing
  PROVE  TakenBehind'
<1>0. /\ requests \in Seq(AcceptedJob) /\ priorityRequests \in Seq(AcceptedJob)
      /\ results \in Seq(AcceptedJob) /\ TakenBehind /\ QueuedBehind /\ RequestsKnown
  BY DEF TypeInv, ChannelsOK, TestInv
<1> SUFFICES ASSUME NEW j \in InHand', Skips(attr', j)
             PROVE  CoveredNext(attr'[j.node].srpm, NodesFrom(requests', 1))
  BY DEF TakenBehind, CoveredNext, Covered, NodesFrom, IsSRPMCached, IsNodeProcessed, Skips
<1>1. InHand = JobsIn(results) \cup {job[v] : v \in Busy}
      /\ InHand' = JobsIn(results') \cup {job'[v] : v \in Busy'}
  BY DEF InHand, JobsIn
<1>2. \A k \in InHand : k \in AllJobs
  BY <1>1, JobsNow
<1>3. \A k \in AllJobs : k.node \in Node
  BY JobsForNodes DEF Job
<1>4. ASSUME NEW k \in InHand, Alike(j, k)
      PROVE  CoveredNext(attr'[j.node].srpm, NodesFrom(requests', 1))
  <2>1. Skips(attr, k) /\ attr'[j.node].srpm = attr[k.node].srpm
    BY <1>2, <1>3, <1>4, SkipsStay
  <2>2. Covered(attr[k.node].srpm, NodesFrom(requests, 1))
    BY <1>0, <1>4, <2>1 DEF TakenBehind
  <2>3. ASSUME NEW s, s = attr[k.node].srpm PROVE CoveredNext(s, NodesFrom(requests', 1))
    BY <1>0, <2>2, <2>3, AheadStays
  <2> QED BY <2>1, <2>3
<1>5. ASSUME InHand' \subseteq InHand
      PROVE  CoveredNext(attr'[j.node].srpm, NodesFrom(requests', 1))
  BY <1>4, <1>5 DEF Alike
<1>6. ASSUME results' = results \/ (results # <<>> /\ results' = Tail(results)), UNCHANGED <<wpc, job>>
      PROVE  CoveredNext(attr'[j.node].srpm, NodesFrom(requests', 1))
  <2>1. JobsIn(results') \subseteq JobsIn(results) /\ Busy' = Busy
    BY <1>0, <1>6, JobsOfQueue DEF Busy
  <2> QED BY <1>1, <1>5, <1>6, <2>1
<1>7. CASE Quiet \/ SubmitRequest \/ LicenseCheckerFails
  BY <1>6, <1>7 DEF Quiet, SubmitRequest, LicenseCheckerFails, workerVars
<1>8. CASE ReceiveResult
  BY <1>6, <1>8, ReceiveRecords
<1>9. CASE DrainPriority \/ DrainRequests
  BY <1>9 DEF DrainPriority, DrainRequests, Closing
<1>10. ASSUME NEW w \in Worker, WorkerStep(w)
       PROVE  CoveredNext(attr'[j.node].srpm, NodesFrom(requests', 1))
  <2>1. CASE j \in JobsIn(priorityRequests)
    <3>1. attr[j.node].type = "PreBuilt"
      BY <1>0, <2>1 DEF RequestsKnown
    <3>2. j.node \in Node
      BY <1>0, <2>1 DEF JobsIn, AcceptedJob, Job
    <3>3. attr'[j.node].type = "PreBuilt"
      BY <3>1, <3>2, NodesStay DEF SameNodes
    <3> QED BY <3>3 DEF Skips
  <2>2. CASE requests # <<>> /\ j = Head(requests)
    <3>1. 1 \in DOMAIN requests /\ requests[1] = j
      BY <1>0, <2>2, QueueNodes
    <3>2. j.node \in Node
      BY <1>0, <3>1 DEF AcceptedJob, Job
    <3>3. Skips(attr, j) /\ attr'[j.node].srpm = attr[j.node].srpm
      BY <3>2, SkipsStay DEF Alike
    <3>4. Covered(attr[j.node].srpm, NodesFrom(requests, 1))
      BY <1>0, <3>1, <3>3 DEF QueuedBehind
    <3>5. ASSUME NEW s, s = attr[j.node].srpm PROVE CoveredNext(s, NodesFrom(requests', 1))
      BY <1>0, <3>4, <3>5, AheadStays
    <3> QED BY <3>3, <3>5
  <2> QED BY <1>4, <1>10, <2>1, <2>2, WorkerQueues
<1> QED BY <1>7, <1>8, <1>9, <1>10, MovingSteps

\* A test in the channel has its build ahead of it.
LEMMA QueuedStep ==
  ASSUME TypeInv, OrderInv, ActiveInv, TestInv, [Next]_vars, pc \notin Closing
  PROVE  QueuedBehind'
<1>0. /\ requests \in Seq(AcceptedJob) /\ newRequests \in Seq(AcceptedJob)
      /\ NewBehind /\ QueuedBehind /\ RequestsKnown
  BY DEF TypeInv, ChannelsOK, LoopOK, TestInv
<1> SUFFICES ASSUME NEW i \in DOMAIN requests', Skips(attr', requests'[i])
             PROVE  CoveredNext(attr'[requests'[i].node].srpm, NodesFrom(requests', i))
  BY DEF QueuedBehind, CoveredNext, Covered, NodesFrom, IsSRPMCached, IsNodeProcessed, Skips
<1>1. ASSUME NEW k \in DOMAIN requests, requests'[i] = requests[k], NEW T,
             \A s : Covered(s, NodesFrom(requests, k)) => CoveredNext(s, T)
      PROVE  CoveredNext(attr'[requests'[i].node].srpm, T)
  <2>1. requests[k].node \in Node
    BY <1>0 DEF AcceptedJob, Job
  <2>2. Skips(attr, requests[k]) /\ attr'[requests[k].node].srpm = attr[requests[k].node].srpm
    BY <1>1, <2>1, SkipsStay DEF Alike
  <2> QED BY <1>0, <1>1, <2>2 DEF QueuedBehind
<1>2. ASSUME requests' = requests, activeBuilds' = activeBuilds
      PROVE  CoveredNext(attr'[requests'[i].node].srpm, NodesFrom(requests', i))
  <2>1. \A s : Covered(s, NodesFrom(requests, i)) => CoveredNext(s, NodesFrom(requests', i))
    BY <1>2, CoveredSame
  <2> QED BY <1>1, <1>2, <2>1
<1>3. CASE Quiet \/ LicenseCheckerFails
  BY <1>2, <1>3 DEF Quiet, LicenseCheckerFails, stateVars
<1>4. CASE ReceiveResult
  <2>1. requests' = requests
    BY <1>4, ReceiveRecords
  <2>2. \A s : Covered(s, NodesFrom(requests, i)) => CoveredNext(s, NodesFrom(requests', i))
    BY <1>0, <1>4, <2>1, CoveredReceive
  <2> QED BY <1>1, <2>1, <2>2
<1>5. CASE SubmitRequest
  <2>1. newRequests # <<>> /\ attr' = attr
        /\ (requests' = requests \/ requests' = Append(requests, Head(newRequests)))
    BY <1>5 DEF SubmitRequest
  <2>2. Head(newRequests) \in AcceptedJob
    BY <1>0, <2>1, Queues
  <2>3. CASE i \in DOMAIN requests /\ requests'[i] = requests[i]
             /\ NodesFrom(requests', i) \subseteq NodesFrom(requests, i) \cup {Head(newRequests).node}
    <3>1. \A s : Covered(s, NodesFrom(requests, i)) => CoveredNext(s, NodesFrom(requests', i))
      BY <1>5, <2>3, CoveredSubmit
    <3> QED BY <1>1, <2>3, <3>1
  <2>4. CASE requests'[i] = Head(newRequests) /\ NodesFrom(requests', i) \subseteq {Head(newRequests).node}
    <3>1. 1 \in DOMAIN newRequests /\ newRequests[1] = Head(newRequests)
      BY <1>0, <2>1, QueueNodes
    <3>2. \A k \in DOMAIN newRequests : ~(k < 1)
      BY <1>0
    <3>3. Skips(attr, Head(newRequests))
      BY <2>1, <2>4
    <3>4. Covered(attr[Head(newRequests).node].srpm, {})
      BY <1>0, <3>1, <3>2, <3>3 DEF NewBehind
    <3>5. ASSUME NEW s, s = attr[Head(newRequests).node].srpm PROVE CoveredNext(s, NodesFrom(requests', i))
      BY <1>5, <2>4, <3>4, <3>5, CoveredSubmit
    <3> QED BY <2>1, <2>4, <3>5
  <2>5. CASE requests' = requests
    BY <2>3, <2>5
  <2>6. CASE requests' = Append(requests, Head(newRequests))
    <3> DEFINE q == Append(requests, Head(newRequests))
    <3>1. \/ /\ i \in DOMAIN requests /\ q[i] = requests[i]
             /\ NodesFrom(q, i) \subseteq NodesFrom(requests, i) \cup {Head(newRequests).node}
          \/ q[i] = Head(newRequests) /\ NodesFrom(q, i) \subseteq {Head(newRequests).node}
      <4>1. i \in DOMAIN q
        BY <2>6
      <4> QED BY <1>0, <2>2, <4>1, QueueNodes
    <3>2. requests' = q
      BY <2>6
    <3> HIDE DEF q
    <3> QED BY <2>3, <2>4, <3>1, <3>2
  <2> QED BY <2>1, <2>5, <2>6
<1>6. CASE DrainPriority \/ DrainRequests
  BY <1>6 DEF DrainPriority, DrainRequests, Closing
<1>7. ASSUME NEW w \in Worker, WorkerStep(w)
      PROVE  CoveredNext(attr'[requests'[i].node].srpm, NodesFrom(requests', i))
  <2>1. activeBuilds' = activeBuilds /\ (requests' = requests \/ (requests # <<>> /\ requests' = Tail(requests)))
    BY <1>7, WorkerQueues
  <2>2. CASE requests # <<>> /\ requests' = Tail(requests)
    <3>1. /\ i + 1 \in DOMAIN requests /\ requests'[i] = requests[i + 1]
          /\ NodesFrom(requests', i) \subseteq NodesFrom(requests, i + 1)
      BY <1>0, <2>2, QueueNodes
    <3>2. \A s : Covered(s, NodesFrom(requests, i + 1)) => CoveredNext(s, NodesFrom(requests', i))
      BY <2>1, <3>1, CoveredSame
    <3> QED BY <1>1, <3>1, <3>2
  <2> QED BY <1>2, <2>1, <2>2
<1> QED BY <1>3, <1>4, <1>5, <1>6, <1>7, MovingSteps

\* What ConvertNodesToRequests asks for: a request for tests is for those of one
\* SRPM, and may only use the cache if the build of that SRPM did, or does; the
\* request for that build is then in the build state, or next before it.
LEMMA ConvertTests ==
  ASSUME TypeInv, OrderInv, ConvertNodesToRequests
  PROVE  /\ \A j \in JobsIn(newRequests') :
               /\ j.node \notin Started
               /\ \A n \in j.ancillary : attr[n].type = "Test" =>
                     attr[j.node].type = "Test" /\ attr[n].srpm = attr[j.node].srpm
         /\ \A i \in DOMAIN newRequests' : Skips(attr, newRequests'[i]) =>
               \/ Covered(attr[newRequests'[i].node].srpm, {})
               \/ \E k \in DOMAIN newRequests' :
                     k < i /\ UsesCache(attr, newRequests'[k], attr[newRequests'[i].node].srpm)
<1>0. /\ nodesToBuild \subseteq Node /\ G \in Graph /\ G = graph[0] /\ pc = "convert"
      /\ \A n \in nodesToBuild : n \in G.nodes /\ n \notin Started
      /\ OrderlyGraph(G, attr)
  BY DEF TypeInv, LoopOK, GraphsOK, G, Current, OrderInv, Orderly, OrderlyBuild, ConvertNodesToRequests,
     ReadyToStart
<1>1. PICK first \in Choices(Groups("LocalBuild")), last \in Choices(Groups("LocalBuild")),
           firstTest \in Choices(Groups("Test")) :
        LET tested   == TestedGroups(first)
            pruned   == RemoveEdges(G, {<<PartnerTest(G, b), b>> : b \in UNION tested})
            builds   == {BuildGroupRequest(first, gr) : gr \in NewBuildGroups(first)}
            partners == {PartnerRequest(pruned, first, last, gr) :
                            gr \in ReadyPartners(pruned, tested, last)}
            tests    == {TestGroupRequest(pruned, firstTest, gr) :
                            gr \in NewTestGroups(firstTest)}
        IN  /\ \A b \in UNION tested : PartnerTests(G, b) # {}
            /\ \E q \in Orders(OtherRequests \cup builds \cup partners \cup tests) :
                   /\ InClassOrder(q, builds, partners, tests)
                   /\ newRequests' = q
  BY Zenon DEF ConvertNodesToRequests
<1> DEFINE tested   == TestedGroups(first)
           pruned   == RemoveEdges(G, {<<PartnerTest(G, b), b>> : b \in UNION tested})
           builds   == {BuildGroupRequest(first, gr) : gr \in NewBuildGroups(first)}
           partners == {PartnerRequest(pruned, first, last, gr) :
                            gr \in ReadyPartners(pruned, tested, last)}
           tests    == {TestGroupRequest(pruned, firstTest, gr) :
                            gr \in NewTestGroups(firstTest)}
           All == OtherRequests \cup builds \cup partners \cup tests
<1>2. \A b \in UNION tested : PartnerTests(G, b) # {}
  BY <1>1, Zenon
<1>3. PICK q \in Orders(All) : InClassOrder(q, builds, partners, tests) /\ newRequests' = q
  BY <1>1, Zenon
<1>4. q \in Seq(All) /\ \A i \in DOMAIN q : q[i] \in All
  BY DEF Orders
<1>5. ASSUME NEW type, NEW c \in Choices(Groups(type)), NEW gr \in DOMAIN c
      PROVE  /\ gr \in Groups(type) /\ c[gr] \in gr /\ gr \subseteq nodesToBuild
             /\ \A m, n \in gr : attr[n].type = type /\ attr[n].srpm = attr[m].srpm
             /\ SRPMOf(gr) = attr[c[gr]].srpm
  <2>1. gr \in Groups(type) /\ c[gr] \in gr
    BY DEF Choices
  <2>2. gr \subseteq nodesToBuild /\ \A m, n \in gr : attr[n].type = type /\ attr[n].srpm = attr[m].srpm
    BY <2>1 DEF Groups, NodesOfType
  <2> QED BY <2>1, <2>2 DEF SRPMOf
<1>6. \A i \in DOMAIN q : q[i] \in partners =>
          /\ i \in Nat /\ i > 1 /\ i - 1 \in DOMAIN q /\ q[i - 1] \in builds
          /\ attr[q[i - 1].node].srpm = attr[q[i].node].srpm
  <2> SUFFICES ASSUME NEW i \in DOMAIN q, q[i] \in partners
               PROVE  /\ i \in Nat /\ i > 1 /\ i - 1 \in DOMAIN q /\ q[i - 1] \in builds
                      /\ attr[q[i - 1].node].srpm = attr[q[i].node].srpm
    OBVIOUS
  <2> HIDE DEF builds, partners, tests, All
  <2>1. i > 1 /\ q[i - 1] \in builds /\ attr[q[i - 1].node].srpm = attr[q[i].node].srpm
    BY <1>3, Zenon DEF InClassOrder
  <2>2. i \in Nat /\ (i > 1 => i - 1 \in DOMAIN q)
    BY <1>4
  <2> QED BY <2>1, <2>2
<1> HIDE DEF pruned, tested
\* What the requests are for.
<1>7. ASSUME NEW j \in OtherRequests
      PROVE  /\ j.node \in nodesToBuild /\ attr[j.node].type # "Test"
             /\ \A n \in j.ancillary : attr[n].type # "Test"
  <2>1. PICK n \in nodesToBuild :
           /\ attr[n].type \notin {"LocalBuild", "Test"}
           /\ j = BuildRequest(G, n, {n}, PackagesToRebuild, CanUseCache, attr[n].state = "Delta")
    BY <1>7 DEF OtherRequests
  <2>2. j.node = n /\ j.ancillary = {n}
    BY <2>1 DEF BuildRequest
  <2> QED BY <2>1, <2>2
<1>8. ASSUME NEW j \in builds
      PROVE  /\ j.node \in nodesToBuild /\ attr[j.node].type = "LocalBuild"
             /\ \A n \in j.ancillary : attr[n].type # "Test"
             /\ \E gr \in Groups("LocalBuild") : j.node \in gr /\ j = BuildGroupRequest(first, gr)
  <2>1. PICK gr \in NewBuildGroups(first) : j = BuildGroupRequest(first, gr)
    BY <1>8
  <2>2. j.node = first[gr] /\ j.ancillary = gr
    BY <2>1 DEF BuildGroupRequest, BuildRequest
  <2>3. gr \in DOMAIN first
    BY DEF NewBuildGroups
  <2>4. /\ first[gr] \in gr /\ gr \subseteq nodesToBuild /\ gr \in Groups("LocalBuild")
        /\ \A n \in gr : attr[n].type = "LocalBuild"
    BY <1>5, <2>3
  <2> QED BY <2>1, <2>2, <2>4
<1>9. ASSUME NEW j \in tests
      PROVE  /\ j.node \in nodesToBuild
             /\ \A n \in j.ancillary : attr[j.node].type = "Test" /\ attr[n].srpm = attr[j.node].srpm
             /\ "UseCache" \in j.flags => Covered(attr[j.node].srpm, {})
  <2>1. PICK gr \in NewTestGroups(firstTest) : j = TestGroupRequest(pruned, firstTest, gr)
    BY <1>9
  <2>2. /\ j.node = firstTest[gr] /\ j.ancillary = gr
        /\ "UseCache" \in j.flags => BuildUsedCache(SRPMOf(gr))
    BY <2>1 DEF TestGroupRequest, BuildRequest
  <2>3. gr \in DOMAIN firstTest
    BY DEF NewTestGroups
  <2>4. /\ firstTest[gr] \in gr /\ gr \subseteq nodesToBuild /\ SRPMOf(gr) = attr[firstTest[gr]].srpm
        /\ \A m, n \in gr : attr[n].type = "Test" /\ attr[n].srpm = attr[m].srpm
    BY <1>5, <2>3
  <2>5. \A s : BuildUsedCache(s) => Covered(s, {})
    BY DEF BuildUsedCache, Covered, ActiveFromSRPM, UsesCache
  <2> QED BY <2>2, <2>4, <2>5
<1>10. ASSUME NEW j \in partners
       PROVE  /\ j.node \notin Started
              /\ \A n \in j.ancillary : attr[j.node].type = "Test" /\ attr[n].srpm = attr[j.node].srpm
              /\ \E gr \in Groups("LocalBuild") :
                    /\ \A b \in gr : attr[j.node].srpm = attr[b].srpm
                    /\ "UseCache" \in j.flags => "UseCache" \in BuildGroupRequest(first, gr).flags
  <2>1. PICK gr \in ReadyPartners(pruned, tested, last) : j = PartnerRequest(pruned, first, last, gr)
    BY <1>10
  <2>2. /\ j.node = PartnerTest(G, last[gr]) /\ j.ancillary = {PartnerTest(G, b) : b \in gr}
        /\ "UseCache" \in j.flags => "UseCache" \in BuildGroupRequest(first, gr).flags
    BY <2>1 DEF PartnerRequest, BuildRequest
  <2>3. gr \in tested /\ gr \in DOMAIN last
    BY <2>1 DEF ReadyPartners, TestedGroups, NewBuildGroups, Choices, tested
  <2>4. /\ last[gr] \in gr /\ gr \subseteq nodesToBuild /\ gr \in Groups("LocalBuild")
        /\ \A m, n \in gr : attr[n].type = "LocalBuild" /\ attr[n].srpm = attr[m].srpm
    BY <1>5, <2>3
  <2>5. ASSUME NEW b \in gr
        PROVE  /\ PartnerTest(G, b) \notin Started /\ attr[PartnerTest(G, b)].type = "Test"
               /\ attr[PartnerTest(G, b)].srpm = attr[b].srpm
    <3>1. PartnerTests(G, b) # {} /\ b \in nodesToBuild
      BY <1>2, <2>3, <2>4
    <3>2. /\ PartnerTest(G, b) \in G.nodes \ Started /\ attr[PartnerTest(G, b)].type = "Test"
          /\ b \in From(G, PartnerTest(G, b))
      BY <1>0, <3>1, PartnersWait
    <3>3. b \in G.nodes /\ attr[b].type = "LocalBuild"
      BY <1>0, <2>4, <3>1
    <3>4. attr[PartnerTest(G, b)].srpm = attr[b].srpm
      BY <1>0, <3>2, <3>3 DEF OrderlyGraph
    <3> QED BY <3>2, <3>4
  <2> QED BY <2>2, <2>4, <2>5
<1>11. ASSUME NEW j \in All
       PROVE  /\ j.node \notin Started
              /\ \A n \in j.ancillary : attr[n].type = "Test" =>
                    attr[j.node].type = "Test" /\ attr[n].srpm = attr[j.node].srpm
  <2> HIDE DEF builds, tests, partners
  <2> QED BY <1>0, <1>7, <1>8, <1>9, <1>10
<1>12. ASSUME NEW i \in DOMAIN q, Skips(attr, q[i])
       PROVE  \/ Covered(attr[q[i].node].srpm, {})
              \/ \E k \in DOMAIN q : k < i /\ UsesCache(attr, q[k], attr[q[i].node].srpm)
  <2>1. CASE q[i] \in partners
    <3>1. /\ i \in Nat /\ i - 1 \in DOMAIN q /\ q[i - 1] \in builds
          /\ attr[q[i - 1].node].srpm = attr[q[i].node].srpm
      BY <1>6, <2>1
    <3>2. PICK gr \in Groups("LocalBuild") :
             /\ \A b \in gr : attr[q[i].node].srpm = attr[b].srpm
             /\ "UseCache" \in BuildGroupRequest(first, gr).flags
      BY <1>10, <1>12, <2>1 DEF Skips
    <3>3. PICK hr \in Groups("LocalBuild") :
             q[i - 1].node \in hr /\ q[i - 1] = BuildGroupRequest(first, hr)
      BY <1>8, <3>1
    <3>4. attr[q[i - 1].node].type = "LocalBuild"
      BY <1>8, <3>1
    <3>5. gr = hr
      <4>1. \A m : (m \in gr) <=> (m \in hr)
        <5>1. /\ gr \subseteq nodesToBuild /\ hr \subseteq nodesToBuild
          BY DEF Groups, NodesOfType
        <5> QED BY <1>0, <3>1, <3>2, <3>3, <5>1, GroupNodes
      <4> QED BY <4>1
    <3>6. "UseCache" \in q[i - 1].flags
      BY <3>2, <3>3, <3>5
    <3>7. i - 1 < i
      BY <3>1
    <3> QED BY <3>1, <3>4, <3>6, <3>7 DEF UsesCache
  <2>2. CASE q[i] \in tests
    BY <1>9, <1>12, <2>2 DEF Skips
  <2>3. q[i] \in OtherRequests \/ q[i] \in builds \/ q[i] \in partners \/ q[i] \in tests
    BY <1>4
  <2> HIDE DEF builds, tests, partners
  <2> QED BY <1>7, <1>8, <1>12, <2>1, <2>2, <2>3 DEF Skips
<1> HIDE DEF All
<1>13. \A j \in JobsIn(newRequests') : j \in All
  BY <1>3, <1>4 DEF JobsIn
<1> QED BY <1>3, <1>11, <1>12, <1>13

\* A test that is not submitted yet has its build in the build state, or ahead of it.
LEMMA NewStep ==
  ASSUME TypeInv, OrderInv, ActiveInv, TestInv, [Next]_vars, pc \notin Closing
  PROVE  NewBehind'
<1>0. newRequests \in Seq(AcceptedJob) /\ NewBehind
  BY DEF TypeInv, LoopOK, TestInv
<1> SUFFICES ASSUME NEW i \in DOMAIN newRequests', Skips(attr', newRequests'[i])
             PROVE  \/ CoveredNext(attr'[newRequests'[i].node].srpm, {})
                    \/ \E k \in DOMAIN newRequests' :
                          k < i /\ UsesCache(attr', newRequests'[k], attr'[newRequests'[i].node].srpm)
  BY DEF NewBehind, CoveredNext, Covered, IsSRPMCached, IsNodeProcessed, Skips, UsesCache
<1> DEFINE Goal == \/ CoveredNext(attr'[newRequests'[i].node].srpm, {})
                   \/ \E k \in DOMAIN newRequests' :
                         k < i /\ UsesCache(attr', newRequests'[k], attr'[newRequests'[i].node].srpm)
<1>1. ASSUME NEW k \in DOMAIN newRequests
      PROVE  /\ Skips(attr', newRequests[k]) <=> Skips(attr, newRequests[k])
             /\ \A s : UsesCache(attr', newRequests[k], s) <=> UsesCache(attr, newRequests[k], s)
             /\ attr'[newRequests[k].node].srpm = attr[newRequests[k].node].srpm
  <2>1. newRequests[k].node \in Node
    BY <1>0 DEF AcceptedJob, Job
  <2> QED BY <2>1, SkipsStay DEF Alike
<1>2. ASSUME newRequests' = newRequests, activeBuilds' = activeBuilds PROVE Goal
  <2>1. \/ Covered(attr[newRequests[i].node].srpm, {})
        \/ \E k \in DOMAIN newRequests :
              k < i /\ UsesCache(attr, newRequests[k], attr[newRequests[i].node].srpm)
    BY <1>0, <1>1, <1>2 DEF NewBehind
  <2>2. \A s : Covered(s, {}) => CoveredNext(s, {})
    BY <1>2, CoveredSame
  <2> QED BY <1>1, <1>2, <2>1, <2>2
<1>3. CASE ConvertNodesToRequests
  <2>1. attr' = attr /\ activeBuilds' = activeBuilds
    BY <1>3 DEF ConvertNodesToRequests, stateVars
  <2>2. \A s : Covered(s, {}) => CoveredNext(s, {})
    BY <2>1, CoveredSame
  <2>3. \/ Covered(attr[newRequests'[i].node].srpm, {})
        \/ \E k \in DOMAIN newRequests' :
              k < i /\ UsesCache(attr, newRequests'[k], attr[newRequests'[i].node].srpm)
    BY <1>3, <2>1, ConvertTests
  <2> QED BY <2>1, <2>2, <2>3
<1>4. CASE Quiet /\ ~ConvertNodesToRequests
  BY <1>2, <1>4 DEF Quiet
<1>5. CASE LicenseCheckerFails
  BY <1>2, <1>5 DEF LicenseCheckerFails, stateVars
<1>6. CASE ReceiveResult
  <2>1. newRequests = <<>> /\ newRequests' = newRequests
    BY <1>6 DEF ReceiveResult
  <2> QED BY <2>1
<1>7. CASE DrainPriority \/ DrainRequests
  BY <1>7 DEF DrainPriority, DrainRequests, Closing
<1>8. ASSUME NEW w \in Worker, WorkerStep(w) PROVE Goal
  BY <1>2, <1>8, WorkerQueues
<1>9. CASE SubmitRequest
  <2>1. newRequests # <<>> /\ newRequests' = Tail(newRequests) /\ attr' = attr
    BY <1>9 DEF SubmitRequest
  <2>2. /\ i \in Nat /\ i >= 1 /\ i + 1 \in DOMAIN newRequests /\ newRequests'[i] = newRequests[i + 1]
        /\ newRequests[1] = Head(newRequests)
        /\ \A k \in DOMAIN newRequests : k # 1 =>
              k - 1 \in DOMAIN newRequests' /\ newRequests'[k - 1] = newRequests[k]
    BY <1>0, <2>1, QueueNodes
  <2>3. \/ Covered(attr[newRequests[i + 1].node].srpm, {})
        \/ \E k \in DOMAIN newRequests :
              k < i + 1 /\ UsesCache(attr, newRequests[k], attr[newRequests[i + 1].node].srpm)
    BY <1>0, <2>1, <2>2 DEF NewBehind
  <2>4. \A s : Covered(s, {}) => CoveredNext(s, {})
    BY <1>9, CoveredSubmit
  <2>5. ASSUME UsesCache(attr, Head(newRequests), attr[newRequests[i + 1].node].srpm)
        PROVE  CoveredNext(attr[newRequests[i + 1].node].srpm, {})
    <3>1. Head(newRequests) \in Active'
      <4>1. activeBuilds' = [l \in DOMAIN activeBuilds \cup {attr[Head(newRequests).node].id} |->
                               IF l = attr[Head(newRequests).node].id THEN Head(newRequests)
                               ELSE activeBuilds[l]]
        BY <1>9 DEF SubmitRequest
      <4>2. attr[Head(newRequests).node].id \in DOMAIN activeBuilds'
            /\ activeBuilds'[attr[Head(newRequests).node].id] = Head(newRequests)
        BY <4>1
      <4> QED BY <4>2 DEF Active
    <3> QED BY <2>1, <2>5, <3>1 DEF CoveredNext
  <2>6. ASSUME NEW k \in DOMAIN newRequests, k # 1, k < i + 1,
               UsesCache(attr, newRequests[k], attr[newRequests[i + 1].node].srpm)
        PROVE  Goal
    <3>1. k - 1 \in DOMAIN newRequests' /\ newRequests'[k - 1] = newRequests[k]
      BY <2>2, <2>6
    <3>2. k \in Nat
      BY <1>0
    <3>3. k - 1 < i
      BY <2>2, <2>6, <3>2
    <3> QED BY <2>1, <2>2, <2>6, <3>1, <3>3
  <2>7. CASE Covered(attr[newRequests[i + 1].node].srpm, {})
    BY <2>1, <2>2, <2>4, <2>7
  <2>8. ASSUME NEW k \in DOMAIN newRequests, k < i + 1,
               UsesCache(attr, newRequests[k], attr[newRequests[i + 1].node].srpm)
        PROVE  Goal
    <3>1. CASE k = 1
      BY <2>1, <2>2, <2>5, <2>8, <3>1
    <3> QED BY <2>6, <2>8, <3>1
  <2> HIDE DEF Goal
  <2> QED BY <2>3, <2>7, <2>8 DEF Goal
<1> HIDE DEF Goal
<1>10. Goal
  BY <1>3, <1>4, <1>5, <1>6, <1>7, <1>8, <1>9, MovingSteps DEF Goal
<1> QED BY <1>10 DEF Goal

\* ConvertNodesToRequests knows what it asks for.
LEMMA RequestsConvert ==
  ASSUME TypeInv, OrderInv, ActiveInv, TestInv, ConvertNodesToRequests
  PROVE  RequestsKnown'
<1>1. /\ UNCHANGED <<attr, activeBuilds, requests, priorityRequests, results, wpc, job>> /\ pc = "convert"
  BY DEF ConvertNodesToRequests, stateVars, chanVars, workerVars
<1>2. Busy' = Busy /\ Active' = Active
  BY <1>1 DEF Busy, Active
<1>3. \A j \in AllJobs' : j \in AllJobs \/ j \in JobsIn(newRequests')
  BY <1>1, <1>2, JobsNow
<1>4. ASSUME NEW r \in Active, NEW j \in JobsIn(newRequests') PROVE r.node # j.node
  <2>1. r.node \in Started
    BY <1>1, ActiveHeld DEF Started
  <2> QED BY <2>1, ConvertTests
<1>5. ASSUME NEW r \in Active', NEW j \in AllJobs', r.node = j.node, "UseCache" \in r.flags
      PROVE  "UseCache" \in j.flags
  BY <1>2, <1>3, <1>4, <1>5 DEF TestInv, RequestsKnown
<1>6. ASSUME NEW j \in AllJobs', NEW n \in j.ancillary, attr'[n].type = "Test"
      PROVE  attr'[j.node].type = "Test" /\ attr'[n].srpm = attr'[j.node].srpm
  <2>1. CASE j \in AllJobs
    BY <1>1, <1>6, <2>1 DEF TestInv, RequestsKnown
  <2>2. CASE j \in JobsIn(newRequests')
    BY <1>1, <1>6, <2>2, ConvertTests
  <2> QED BY <1>3, <2>1, <2>2
<1>7. \A j \in JobsIn(priorityRequests') : attr'[j.node].type = "PreBuilt"
  BY <1>1 DEF TestInv, RequestsKnown
<1>8. JobsIn(priorityRequests)' = JobsIn(priorityRequests')
  BY DEF JobsIn
<1> QED BY <1>5, <1>6, <1>7, <1>8 DEF RequestsKnown

\* The step of the invariant of tests.
LEMMA TestStep ==
  ASSUME TypeInv, OrderInv, ActiveInv, TestInv, [Next]_vars
  PROVE  TestInv'
<1>1. SkippedBehind'
  BY SkippedStep
<1>2. RequestsKnown'
  BY RequestsStep, RequestsConvert
<1>3. ASSUME pc' \notin Closing PROVE TakenBehind' /\ QueuedBehind' /\ NewBehind'
  <2>1. pc \notin Closing
    BY <1>3, ClosingStays
  <2> QED BY <2>1, TakenStep, QueuedStep, NewStep
<1>4. Closing' = Closing
  BY DEF Closing
<1> QED BY <1>1, <1>2, <1>3, <1>4 DEF TestInv

\* At first nothing is asked for.
LEMMA TestInit ==
  ASSUME Init
  PROVE  TestInv
<1>1. /\ newRequests = <<>> /\ requests = <<>> /\ priorityRequests = <<>> /\ results = <<>>
      /\ activeBuilds = [i \in {} |-> NoJob] /\ nodeToState = [n \in Node |-> Unprocessed]
      /\ wpc = [w \in Worker |-> "poll"]
  BY DEF Init
<1>2. Busy = {} /\ Active = {} /\ JobsIn(<<>>) = {}
  BY <1>1 DEF Busy, Active, JobsIn
<1>3. AllJobs = {} /\ InHand = {}
  BY <1>1, <1>2, JobsNow DEF InHand
<1>4. SkippedBehind
  BY <1>1 DEF SkippedBehind, Unprocessed
<1>5. RequestsKnown /\ TakenBehind
  BY <1>1, <1>2, <1>3 DEF RequestsKnown, TakenBehind
<1>6. QueuedBehind /\ NewBehind
  BY <1>1 DEF QueuedBehind, NewBehind
<1> QED BY <1>4, <1>5, <1>6 DEF TestInv

\* A test is skipped only together with the build it belongs to: the requests of a
\* channel are taken in the order in which they are sent, and the request for a test
\* that may use the cache is sent after that of its build.
THEOREM TestsFollowBuilds == Spec /\ OrderlyBuild => []TestSkippedOnlyWithBuild
<1>1. Init /\ OrderlyBuild => TypeInv /\ OrderInv /\ ActiveInv /\ TestInv
  BY InitInv, OrderInit, TestInit
<1>2. TypeInv /\ OrderInv /\ ActiveInv /\ TestInv /\ [Next]_vars
        => TypeInv' /\ OrderInv' /\ ActiveInv' /\ TestInv'
  BY TypeStep, OrderStep, ActiveStep, TestStep
<1>3. TestInv => TestSkippedOnlyWithBuild
  BY DEF TestInv, SkippedBehind, Covered, UsesCache, TestSkippedOnlyWithBuild, ActiveFromSRPM
<1> QED BY <1>1, <1>2, <1>3, PTL DEF Spec
-----------------------------------------------------------------------------
(* Giving up: what can be started is started.                              *)

\* What is held is what requests and results are for.
LEMMA HeldJobs ==
  ASSUME TypeInv, OrderInv, NEW n
  PROVE  n \in Held <=> \E j \in AllJobs : n \in j.ancillary
<1>1. ASSUME n \in Held PROVE \E j \in AllJobs : n \in j.ancillary
  <2>1. PICK p \in Places(Line) : n \in At(Line, p).ancillary
    BY <1>1 DEF Held, HeldIn
  <2>2. At(Line, p) \in AllJobs
    BY PlacesHold DEF AllJobs
  <2> QED BY <2>1, <2>2
<1>2. ASSUME NEW j \in AllJobs, n \in j.ancillary PROVE n \in Held
  BY <1>2, JobsForNodes
<1> QED BY <1>1, <1>2

HeldAre ==
    /\ \A n : n \in Held <=> \E j \in AllJobs : n \in j.ancillary
    /\ \A j \in AllJobs : j.node \in j.ancillary

\* The same, as a formula that also holds after a step.
LEMMA HeldNow == TypeInv /\ OrderInv => HeldAre
  BY HeldJobs, JobsForNodes DEF HeldAre

LEMMA HeldNext == TypeInv' /\ OrderInv' => HeldAre'
  BY HeldNow, PTL

\* In the loop no request and no result is lost but the one that is received.
LEMMA JobsLast ==
  ASSUME TypeInv, OrderInv, [Next]_vars, ~ConvertNodesToRequests, pc \in Looping, pc' \in Looping,
         NEW j \in AllJobs
  PROVE  \/ \E k \in AllJobs' : k.node = j.node /\ k.ancillary = j.ancillary
         \/ ReceiveResult /\ j = Head(results)
<1>1. CASE Quiet
  <2>1. AllJobs' = AllJobs
    BY <1>1 DEF Quiet, AllJobs, Outstanding, JobsIn, Busy
  <2> QED BY <2>1
<1>2. CASE SubmitRequest
  <2> DEFINE req == Head(newRequests)
  <2>1. /\ newRequests # <<>> /\ newRequests' = Tail(newRequests)
        /\ \/ /\ priorityRequests' = Append(priorityRequests, req) /\ requests' = requests
           \/ /\ requests' = Append(requests, req) /\ priorityRequests' = priorityRequests
        /\ UNCHANGED <<results, wpc, job>>
    BY <1>2 DEF SubmitRequest, workerVars
  <2>2. req \in AcceptedJob /\ ChannelsOK /\ newRequests \in Seq(AcceptedJob)
    BY <2>1, Queues DEF TypeInv, LoopOK
  <2>3. JobsIn(newRequests) = {req} \cup JobsIn(newRequests')
    BY <2>1, <2>2, JobsOfQueue
  <2> HIDE DEF req
  <2>4. /\ JobsIn(Append(requests, req)) = JobsIn(requests) \cup {req}
        /\ JobsIn(Append(priorityRequests, req)) = JobsIn(priorityRequests) \cup {req}
    BY <2>2, JobsOfQueue DEF ChannelsOK
  <2>5. /\ Busy' = Busy /\ job' = job /\ JobsIn(results)' = JobsIn(results)
        /\ JobsIn(requests)' = JobsIn(requests') /\ JobsIn(newRequests)' = JobsIn(newRequests')
        /\ JobsIn(priorityRequests)' = JobsIn(priorityRequests')
    BY <2>1 DEF Busy, JobsIn
  <2>6. AllJobs \subseteq AllJobs'
    BY <2>1, <2>3, <2>4, <2>5 DEF AllJobs, Outstanding
  <2> QED BY <2>6
<1>3. CASE LicenseCheckerFails
  BY <1>3 DEF LicenseCheckerFails, Looping
<1>4. CASE DrainPriority \/ DrainRequests
  BY <1>4 DEF DrainPriority, DrainRequests, Looping
<1>5. CASE ReceiveResult
  <2>1. Outstanding = Outstanding' \cup {Head(results)} /\ newRequests' = newRequests
    BY <1>5, TakingSteps DEF Taken, ReceiveResult
  <2>2. JobsIn(newRequests)' = JobsIn(newRequests)
    BY <2>1 DEF JobsIn
  <2>3. AllJobs \subseteq AllJobs' \cup {Head(results)}
    BY <2>1, <2>2 DEF AllJobs
  <2> QED BY <1>5, <2>3
<1>6. CASE \E w \in Worker : WorkerStep(w)
  <2>1. PICK w \in Worker : WorkerStep(w)
    BY <1>6
  <2>2. newRequests' = newRequests
    BY <2>1, WorkerKeepsScheduler DEF KeepScheduler, schedVars
  <2>3. JobsIn(newRequests)' = JobsIn(newRequests)
    BY <2>2 DEF JobsIn
  <2>4. OutstandingNodes' = OutstandingNodes
    BY <2>1, WorkerKeepsOutstanding
  <2>5. CASE j \in JobsIn(newRequests)
    BY <2>3, <2>5 DEF AllJobs
  <2>6. CASE j \in Outstanding
    <3>1. PICK k \in Outstanding' : k.node = j.node
      BY <2>4, <2>6 DEF OutstandingNodes
    <3>2. k \in AllJobs'
      BY DEF AllJobs
    <3>3. PICK i \in AllJobs : Alike(k, i)
      BY <3>2, AlikeJobs
    <3>4. i = j
      BY <3>1, <3>3, SamePlace DEF Alike
    <3> QED BY <3>2, <3>3, <3>4 DEF Alike
  <2> QED BY <2>5, <2>6 DEF AllJobs
<1> QED BY <1>1, <1>2, <1>3, <1>4, <1>5, <1>6, MovingSteps

\* A walk from a node that another walk visits goes nowhere else, and with fewer edges
\* nowhere new.
LEMMA ReachPart ==
  ASSUME NEW g \in Graph, \A m \in g.nodes : From(g, m) \subseteq g.nodes, NEW n \in g.nodes,
         NEW h \in Graph, h.nodes = g.nodes, \A m \in g.nodes : From(h, m) \subseteq From(g, m),
         NEW d \in Reach(g, n)
  PROVE  /\ Reach(h, d) \subseteq Reach(g, n) /\ Reach(g, n) \subseteq g.nodes
         /\ n \in Reach(g, n) /\ d \in Reach(h, d) /\ d \in g.nodes
<1>1. /\ g.nodes \in SUBSET Node /\ g.deps \in [Node -> SUBSET Node]
      /\ h.nodes \in SUBSET Node /\ h.deps \in [Node -> SUBSET Node]
  BY GraphFields
<1>2. Reach(g, n) \subseteq g.nodes /\ n \in Reach(g, n)
  BY <1>1, ReachWithin
<1>3. \A m \in Reach(g, n) : From(g, m) \subseteq Reach(g, n)
  BY ReachClosed
<1>4. \A m \in Reach(g, n) : From(h, m) \subseteq Reach(g, n)
  BY <1>2, <1>3
<1>5. Reach(g, n) \in SUBSET Node
  BY <1>1, <1>2
<1>6. Reach(h, d) \subseteq Reach(g, n) /\ d \in Reach(h, d)
  BY <1>1, <1>4, <1>5, ReachWithin
<1> QED BY <1>2, <1>6

\* In a graph without cycles, a set of nodes has one that depends on no other of them.
LEMMA LastOfAll ==
  ASSUME NEW g \in Graph, \A m \in g.nodes : From(g, m) \subseteq g.nodes, OnSomeCycle(g) = {},
         NEW X, X \subseteq g.nodes, X # {}
  PROVE  \E n \in X : From(g, n) \cap X = {}
<1> DEFINE size(n) == Cardinality(Reach(g, n))
           sizes == {size(n) : n \in X}
<1>1. g.nodes \in SUBSET Node
  BY GraphFields
<1>2. ASSUME NEW n \in g.nodes
      PROVE  /\ Reach(g, n) \subseteq g.nodes /\ n \in Reach(g, n)
             /\ IsFiniteSet(Reach(g, n)) /\ size(n) \in Nat
             /\ \A m \in Reach(g, n) : From(g, m) \subseteq Reach(g, n)
  <2>1. Reach(g, n) \subseteq g.nodes /\ n \in Reach(g, n)
    BY <1>1, GraphFields, ReachWithin
  <2>2. IsFiniteSet(Reach(g, n))
    BY <1>1, <2>1, FS_Subset, SchedulerAssumption
  <2>3. \A m \in Reach(g, n) : From(g, m) \subseteq Reach(g, n)
    BY ReachClosed
  <2> QED BY <2>1, <2>2, <2>3, FS_CardinalityType
<1>3. sizes \subseteq Nat /\ sizes # {}
  BY <1>2
<1>4. PICK x \in sizes : \A y \in sizes : x <= y
  BY <1>3, LeastNat
<1>5. PICK n \in X : x = size(n)
  BY <1>4
<1>6. ASSUME NEW d \in From(g, n), d \in X PROVE FALSE
  <2>1. n \in g.nodes /\ d \in g.nodes /\ d \in Reach(g, n)
    BY <1>2, <1>5, <1>6
  <2>2. Reach(g, d) \subseteq Reach(g, n)
    BY <2>1, ReachPart
  <2>3. n \notin Reach(g, d)
    BY <2>1 DEF OnSomeCycle
  <2>4. size(d) <= size(n) /\ size(d) # size(n)
    <3>1. /\ Cardinality(Reach(g, d)) <= Cardinality(Reach(g, n))
          /\ (Cardinality(Reach(g, d)) = Cardinality(Reach(g, n)) => Reach(g, d) = Reach(g, n))
      BY <1>2, <2>1, <2>2, FS_Subset
    <3> QED BY <1>2, <2>1, <2>3, <3>1
  <2>5. x <= size(d)
    BY <1>4, <1>6
  <2>6. size(d) \in Nat /\ size(n) \in Nat
    BY <1>2, <2>1
  <2> HIDE DEF size
  <2> QED BY <1>5, <2>4, <2>5, <2>6
<1> QED BY <1>5, <1>6

\* The images of a finite set are finitely many.
LEMMA FiniteImage ==
  ASSUME NEW S, IsFiniteSet(S), NEW f, DOMAIN f = S, f = [x \in S |-> f[x]]
  PROVE  IsFiniteSet({f[x] : x \in S})
<1> DEFINE T == {f[x] : x \in S}
<1>1. f \in [S -> T]
  OBVIOUS
<1>2. f \in Surjection(S, T)
  BY <1>1 DEF Surjection
<1> QED BY <1>2, FS_Surjection

\* An order of a set of requests has them all.
LEMMA OrderHasAll ==
  ASSUME NEW S, IsFiniteSet(S), NEW q \in Orders(S)
  PROVE  JobsIn(q) = S
<1> DEFINE I == 1..Cardinality(S)
<1>1. Cardinality(S) \in Nat
  BY FS_CardinalityType
<1>2. q \in [I -> S] /\ \A i, k \in DOMAIN q : i # k => q[i] # q[k]
  BY DEF Orders
<1>3. q \in Injection(I, S)
  <2> HIDE DEF I
  <2>1. DOMAIN q = I
    BY <1>2
  <2>2. \A i, k \in I : q[i] = q[k] => i = k
    BY <1>2, <2>1
  <2> QED BY <1>2, <2>2, Zenon DEF Injection, IsInjective
<1>4. IsFiniteSet(I) /\ Cardinality(I) = Cardinality(S)
  BY <1>1, FS_Interval
<1>5. q \in Surjection(I, S)
  BY <1>3, <1>4, FS_Injection
<1>6. \A s \in S : \E i \in DOMAIN q : q[i] = s
  BY <1>2, <1>5 DEF Surjection
<1> QED BY <1>2, <1>6 DEF JobsIn

\* The groups that are not duplicates, and the tests of a group of builds.
NewGroups(type) == {gr \in Groups(type) : ActiveFromSRPM(SRPMOf(gr), type) = {}}

PartnersOf(gr) == {PartnerTest(G, b) : b \in gr}

Others == {{n} : n \in {m \in nodesToBuild : attr[m].type \notin {"LocalBuild", "Test"}}}

\* ConvertNodesToRequests leaves the graph h: the tests of the groups in `cut' no
\* longer wait for their builds, those of `ready' for nothing any more.  It asks for
\* the sets of nodes in `asked'.
Converts(h, cut, ready, asked) ==
    /\ cut \subseteq NewGroups("LocalBuild") /\ ready \subseteq cut
    /\ \A gr \in cut : \A b \in gr : PartnerTests(G, b) # {}
    /\ h \in Graph /\ h.nodes = G.nodes
    /\ \A n \in Node : From(h, n) = {m \in From(G, n) : ~(m \in UNION cut /\ n = PartnerTest(G, m))}
    /\ \A gr \in cut : \E l \in gr : gr \in ready <=> IsNodeUnblocked(h, PartnerTest(G, l))
    /\ asked = Others \cup NewGroups("LocalBuild") \cup {PartnersOf(gr) : gr \in ready} \cup NewGroups("Test")

Asked == {j.ancillary : j \in JobsIn(newRequests)}

\* That is all ConvertNodesToRequests does, whatever order Go's maps are read in.
LEMMA ConvertMakes ==
  ASSUME TypeInv, OrderInv, ConvertNodesToRequests
  PROVE  \E cut, ready : Converts(graph'[0], cut, ready, Asked')
<1>0. /\ nodesToBuild \subseteq Node /\ G \in Graph /\ G = graph[0] /\ Current = 0
      /\ graph \in [{0, 1} -> Graph] /\ pc = "convert"
      /\ \A n \in nodesToBuild : n \in G.nodes /\ n \notin Started
  BY DEF TypeInv, LoopOK, GraphsOK, G, Current, OrderInv, Orderly, OrderlyBuild, ConvertNodesToRequests,
     ReadyToStart
<1>1. PICK first \in Choices(Groups("LocalBuild")), last \in Choices(Groups("LocalBuild")),
           firstTest \in Choices(Groups("Test")) :
        LET tested   == TestedGroups(first)
            pruned   == RemoveEdges(G, {<<PartnerTest(G, b), b>> : b \in UNION tested})
            builds   == {BuildGroupRequest(first, gr) : gr \in NewBuildGroups(first)}
            partners == {PartnerRequest(pruned, first, last, gr) :
                            gr \in ReadyPartners(pruned, tested, last)}
            tests    == {TestGroupRequest(pruned, firstTest, gr) :
                            gr \in NewTestGroups(firstTest)}
        IN  /\ \A b \in UNION tested : PartnerTests(G, b) # {}
            /\ graph' = [graph EXCEPT ![Current] = pruned]
            /\ \E q \in Orders(OtherRequests \cup builds \cup partners \cup tests) :
                   newRequests' = q
  BY Zenon DEF ConvertNodesToRequests
<1> DEFINE tested   == TestedGroups(first)
           edges    == {<<PartnerTest(G, b), b>> : b \in UNION tested}
           pruned   == RemoveEdges(G, edges)
           builds   == {BuildGroupRequest(first, gr) : gr \in NewBuildGroups(first)}
           ready    == ReadyPartners(pruned, tested, last)
           partners == {PartnerRequest(pruned, first, last, gr) : gr \in ready}
           tests    == {TestGroupRequest(pruned, firstTest, gr) :
                            gr \in NewTestGroups(firstTest)}
           All == OtherRequests \cup builds \cup partners \cup tests
<1>2. /\ \A b \in UNION tested : PartnerTests(G, b) # {}
      /\ graph' = [graph EXCEPT ![0] = pruned]
  BY <1>0, <1>1, Zenon
<1>3. PICK q \in Orders(All) : newRequests' = q
  BY <1>1, Zenon
<1>4. ASSUME NEW type, NEW c \in Choices(Groups(type)), NEW gr \in Groups(type)
      PROVE  DOMAIN c = Groups(type) /\ c[gr] \in gr /\ ~IsNodeProcessed(c[gr])
  <2>1. DOMAIN c = Groups(type) /\ c[gr] \in gr
    BY DEF Choices
  <2>2. c[gr] \in nodesToBuild
    BY <2>1 DEF Groups, NodesOfType
  <2> QED BY <1>0, <2>1, <2>2 DEF Started, Processed
<1>5. NewBuildGroups(first) = NewGroups("LocalBuild") /\ NewTestGroups(firstTest) = NewGroups("Test")
  <2>1. DOMAIN first = Groups("LocalBuild") /\ DOMAIN firstTest = Groups("Test")
    BY DEF Choices
  <2> QED BY <1>4, <2>1 DEF NewBuildGroups, NewTestGroups, NewGroups
<1>6. tested \subseteq NewGroups("LocalBuild") /\ ready \subseteq tested
  BY <1>5 DEF TestedGroups, ReadyPartners
<1>7. pruned \in Graph /\ pruned.nodes = G.nodes
      /\ \A n \in Node : From(pruned, n) = {m \in From(G, n) : <<n, m>> \notin edges}
  <2> HIDE DEF edges
  <2>1. pruned \in Graph
    BY <1>0, RemoveType DEF TypeInv, GraphsOK
  <2> QED BY <1>0, <2>1, GraphFields DEF RemoveEdges, From, Graph
<1>8. \A n, m : <<n, m>> \in edges <=> m \in UNION tested /\ n = PartnerTest(G, m)
  OBVIOUS
<1>9. \A n \in Node : From(pruned, n) = {m \in From(G, n) : ~(m \in UNION tested /\ n = PartnerTest(G, m))}
  <2> HIDE DEF edges, pruned, tested
  <2> QED BY <1>7, <1>8
<1>10. \A gr \in tested : \E l \in gr : gr \in ready <=> IsNodeUnblocked(pruned, PartnerTest(G, l))
  <2> SUFFICES ASSUME NEW gr \in tested
               PROVE  \E l \in gr : gr \in ready <=> IsNodeUnblocked(pruned, PartnerTest(G, l))
    OBVIOUS
  <2>1. last[gr] \in gr
    BY <1>4, <1>6 DEF NewGroups
  <2>2. gr \in ready <=> IsNodeUnblocked(pruned, PartnerTest(G, last[gr]))
    BY DEF ReadyPartners
  <2> QED BY <2>1, <2>2
<1>11. IsFiniteSet(Groups("LocalBuild")) /\ IsFiniteSet(Groups("Test")) /\ IsFiniteSet(nodesToBuild)
  <2>1. IsFiniteSet(nodesToBuild) /\ IsFiniteSet(SUBSET Node)
    BY <1>0, FS_Subset, FS_SUBSET, SchedulerAssumption
  <2>2. \A type : Groups(type) \subseteq SUBSET Node
    BY <1>0 DEF Groups, NodesOfType
  <2> QED BY <2>1, <2>2, FS_Subset
<1> HIDE DEF pruned, tested, edges, ready
<1>12. IsFiniteSet(All)
  <2>1. IsFiniteSet(builds)
    <3> DEFINE S == NewBuildGroups(first)
               f == [gr \in S |-> BuildGroupRequest(first, gr)]
    <3>1. IsFiniteSet(S)
      BY <1>5, <1>11, FS_Subset DEF NewGroups
    <3>2. builds = {f[gr] : gr \in S}
      OBVIOUS
    <3>3. DOMAIN f = S /\ f = [gr \in S |-> f[gr]]
      OBVIOUS
    <3> HIDE DEF f, S, builds
    <3> QED BY <3>1, <3>2, <3>3, FiniteImage
  <2>2. IsFiniteSet(partners)
    <3> DEFINE f == [gr \in ready |-> PartnerRequest(pruned, first, last, gr)]
    <3>1. IsFiniteSet(ready)
      <4>1. ready \subseteq Groups("LocalBuild")
        BY <1>6 DEF NewGroups
      <4> QED BY <1>11, <4>1, FS_Subset
    <3>2. partners = {f[gr] : gr \in ready}
      OBVIOUS
    <3>3. DOMAIN f = ready /\ f = [gr \in ready |-> f[gr]]
      OBVIOUS
    <3> HIDE DEF f, partners
    <3> QED BY <3>1, <3>2, <3>3, FiniteImage
  <2>3. IsFiniteSet(tests)
    <3> DEFINE S == NewTestGroups(firstTest)
               f == [gr \in S |-> TestGroupRequest(pruned, firstTest, gr)]
    <3>1. IsFiniteSet(S)
      BY <1>5, <1>11, FS_Subset DEF NewGroups
    <3>2. tests = {f[gr] : gr \in S}
      OBVIOUS
    <3>3. DOMAIN f = S /\ f = [gr \in S |-> f[gr]]
      OBVIOUS
    <3> HIDE DEF f, S, tests
    <3> QED BY <3>1, <3>2, <3>3, FiniteImage
  <2>4. IsFiniteSet(OtherRequests)
    <3> DEFINE S == {m \in nodesToBuild : attr[m].type \notin {"LocalBuild", "Test"}}
               f == [n \in S |-> BuildRequest(G, n, {n}, PackagesToRebuild, CanUseCache, attr[n].state = "Delta")]
    <3>1. IsFiniteSet(S)
      BY <1>11, FS_Subset
    <3>2. OtherRequests = {f[n] : n \in S}
      BY DEF OtherRequests
    <3>3. DOMAIN f = S /\ f = [n \in S |-> f[n]]
      OBVIOUS
    <3> HIDE DEF f, S
    <3> QED BY <3>1, <3>2, <3>3, FiniteImage
  <2> HIDE DEF builds, partners, tests
  <2> QED BY <2>1, <2>2, <2>3, <2>4, FS_Union
<1>13. JobsIn(newRequests)' = All
  <2> HIDE DEF All
  <2>1. JobsIn(newRequests)' = JobsIn(newRequests')
    BY DEF JobsIn
  <2> QED BY <1>3, <1>12, <2>1, OrderHasAll
<1> DEFINE Of(S) == {j.ancillary : j \in S}
<1>14. Of(builds) = NewGroups("LocalBuild")
  <2>1. \A gr : BuildGroupRequest(first, gr).ancillary = gr
    BY DEF BuildGroupRequest, BuildRequest
  <2> QED BY <1>5, <2>1
<1>15. Of(partners) = {PartnersOf(gr) : gr \in ready}
  <2>1. \A gr : PartnerRequest(pruned, first, last, gr).ancillary = PartnersOf(gr)
    BY DEF PartnerRequest, BuildRequest, PartnersOf
  <2> QED BY <2>1
<1>16. Of(tests) = NewGroups("Test")
  <2>1. \A gr : TestGroupRequest(pruned, firstTest, gr).ancillary = gr
    BY DEF TestGroupRequest, BuildRequest
  <2> QED BY <1>5, <2>1
<1>17. Of(OtherRequests) = Others
  <2>1. \A n : BuildRequest(G, n, {n}, PackagesToRebuild, CanUseCache, attr[n].state = "Delta").ancillary = {n}
    BY DEF BuildRequest
  <2> DEFINE S == {m \in nodesToBuild : attr[m].type \notin {"LocalBuild", "Test"}}
             Req(n) == BuildRequest(G, n, {n}, PackagesToRebuild, CanUseCache, attr[n].state = "Delta")
  <2>2. OtherRequests = {Req(n) : n \in S} /\ Others = {{n} : n \in S}
    BY DEF OtherRequests, Others
  <2>3. \A n : Req(n).ancillary = {n}
    BY <2>1
  <2> HIDE DEF S, Req
  <2>4. Of({Req(n) : n \in S}) = {{n} : n \in S}
    <3>1. Of({Req(n) : n \in S}) = {Req(n).ancillary : n \in S}
      OBVIOUS
    <3>2. {Req(n).ancillary : n \in S} = {{n} : n \in S}
      BY <2>3, Zenon
    <3> QED BY <3>1, <3>2
  <2> QED BY <2>2, <2>4
<1>18. Asked' = Of(JobsIn(newRequests)')
  BY Zenon DEF Asked
<1>19. Asked' = Others \cup NewGroups("LocalBuild") \cup {PartnersOf(gr) : gr \in ready} \cup NewGroups("Test")
  <2>1. ASSUME NEW R, NEW S, NEW T, NEW U
        PROVE  Of(R \cup S \cup T \cup U) = Of(R) \cup Of(S) \cup Of(T) \cup Of(U)
    OBVIOUS
  <2> HIDE DEF builds, partners, tests, Of
  <2>2. Of(All) = Of(OtherRequests) \cup Of(builds) \cup Of(partners) \cup Of(tests)
    BY <2>1
  <2>3. Asked' = Of(All)
    <3> HIDE DEF All
    <3> QED BY <1>13, <1>18
  <2> QED BY <1>14, <1>15, <1>16, <1>17, <2>2, <2>3
<1>20. graph'[0] = pruned
  BY <1>0, <1>2
<1>21. \A gr \in tested : \A b \in gr : PartnerTests(G, b) # {}
  BY <1>2
<1>22. Converts(graph'[0], tested, ready, Asked')
  BY <1>6, <1>7, <1>9, <1>10, <1>19, <1>20, <1>21 DEF Converts
<1> QED BY <1>22

\* The nodes that are needed are nodes of the graph, with all they depend on.
LEMMA NeededNodes ==
  ASSUME TypeInv, OrderInv
  PROVE  /\ Needed \subseteq graph[0].nodes /\ goalNode \in Needed
         /\ \A n \in Needed : From(graph[0], n) \subseteq Needed
<1>1. /\ graph[0] \in Graph /\ goalNode \in graph[0].nodes
      /\ \A m \in graph[0].nodes : From(graph[0], m) \subseteq graph[0].nodes
  BY DEF TypeInv, GraphsOK, OrderInv, Orderly, OrderlyBuild, OrderlyGraph
<1>2. graph[0].nodes \in SUBSET Node /\ graph[0].deps \in [Node -> SUBSET Node]
  BY <1>1, GraphFields
<1>3. Needed \subseteq graph[0].nodes /\ goalNode \in Needed
  BY <1>1, <1>2, ReachWithin DEF Needed
<1>4. \A n \in Reach(graph[0], goalNode) : From(graph[0], n) \subseteq Reach(graph[0], goalNode)
  BY <1>1, ReachClosed
<1> QED BY <1>3, <1>4 DEF Needed

\* While nodes are converted, the SRPM of what is held is active.
LEMMA HeldActive ==
  ASSUME TypeInv, OrderInv, OfOneKind, pc = "convert", NEW n \in Held
  PROVE  ActiveFromSRPM(attr[n].srpm, attr[n].type) # {}
<1>1. PICK j \in AllJobs : n \in j.ancillary
  BY HeldJobs
<1>2. JobsIn(newRequests) = {}
  BY DEF TypeInv, LoopOK, JobsIn
<1>3. j \in Outstanding
  BY <1>1, <1>2 DEF AllJobs
<1>4. j.node \in OutstandingNodes
  BY <1>3 DEF OutstandingNodes
<1>5. PICK r \in Active : r.node = j.node
  BY <1>4 DEF OrderInv, AllKnown, Active
<1>6. attr[n].type = attr[j.node].type /\ attr[n].srpm = attr[j.node].srpm
  BY <1>1 DEF OfOneKind, SameKind
<1>7. r \in ActiveFromSRPM(attr[n].srpm, attr[n].type)
  BY <1>5, <1>6 DEF ActiveFromSRPM
<1> QED BY <1>7

\* What is to be built is no duplicate.
LEMMA NoDuplicate ==
  ASSUME TypeInv, OrderInv, ActiveInv, BuildsTogether, TestsTogether, pc = "convert",
         NEW n \in nodesToBuild, Live(n), attr[n].type \in {"LocalBuild", "Test"}
  PROVE  ActiveFromSRPM(attr[n].srpm, attr[n].type) = {}
<1> SUFFICES ASSUME NEW r \in Active, attr[r.node].type = attr[n].type, attr[r.node].srpm = attr[n].srpm
             PROVE  FALSE
  BY DEF ActiveFromSRPM
<1>1. n \in graph[0].nodes /\ n \notin Started
  BY DEF OrderInv, ReadyToStart
<1>2. r.node \in graph[0].nodes /\ r.node \in Held
  BY ActiveHeld
<1>3. CASE attr[n].type = "LocalBuild"
  <2>1. PICK j \in AllJobs : r.node \in j.ancillary
    BY <1>2, HeldJobs
  <2>2. n \in j.ancillary
    BY <1>1, <1>2, <1>3, <2>1 DEF BuildsTogether, SameKind
  <2>3. n \in Held
    BY <2>2, HeldJobs
  <2> QED BY <1>1, <2>3 DEF Started
<1>4. CASE attr[n].type = "Test"
  <2>1. n \in Needed
    BY <1>4 DEF Live
  <2> QED BY <1>1, <1>2, <1>4, <2>1 DEF TestsTogether, SameKind, Started
<1> QED BY <1>3, <1>4

\* A group of builds that is no duplicate has all the builds of its SRPM.
LEMMA WholeGroup ==
  ASSUME TypeInv, OrderInv, PairedGraph(graph[0], attr), OfOneKind, BuildsTogether, Awake, pc = "convert",
         \A n \in nodesToBuild : attr[n].type = "LocalBuild" => Live(n),
         NEW gr \in NewGroups("LocalBuild"), NEW b \in gr,
         NEW c \in graph[0].nodes, attr[c].type = "LocalBuild", attr[c].srpm = attr[b].srpm, Live(c)
  PROVE  c \in gr
<1>0. nodesToBuild \subseteq Node /\ gr \in Groups("LocalBuild")
  BY DEF TypeInv, LoopOK, NewGroups
<1>1. /\ gr \subseteq nodesToBuild /\ attr[b].type = "LocalBuild"
      /\ \A m \in nodesToBuild : attr[m].type = "LocalBuild" /\ attr[m].srpm = attr[b].srpm => m \in gr
      /\ \A m \in gr : attr[m].srpm = attr[b].srpm
  BY <1>0, GroupNodes DEF Groups, NodesOfType
<1>2. b \in nodesToBuild /\ b \in graph[0].nodes /\ b \notin Started /\ AllAvailable(graph[0], b)
  BY <1>1 DEF OrderInv, ReadyToStart
<1>3. From(graph[0], c) = From(graph[0], b) /\ attr[c].state # "Unresolved"
  BY <1>1, <1>2 DEF PairedGraph, SameKind
<1>4. AllAvailable(graph[0], c)
  BY <1>2, <1>3 DEF AllAvailable
<1>5. c \in Started \/ c \in nodesToBuild
  BY <1>3, <1>4 DEF Awake
<1>6. c \notin Held
  <2>1. SRPMOf(gr) = attr[b].srpm
    BY <1>1 DEF SRPMOf
  <2>2. ActiveFromSRPM(attr[c].srpm, attr[c].type) = {}
    BY <2>1 DEF NewGroups
  <2> QED BY <2>2, HeldActive
<1>7. c \notin Processed
  <2>1. Live(b)
    BY <1>1, <1>2
  <2>2. b \notin Processed /\ b \in Node
    BY <1>0, <1>2 DEF Started
  <2> QED BY <1>1, <1>2, <2>1, <2>2 DEF BuildsTogether, SameKind, Processed
<1> QED BY <1>1, <1>5, <1>6, <1>7 DEF Started

\* Tests of one SRPM wait for the same, but for their builds.
LEMMA TestsWait ==
  ASSUME NEW g, NEW a, OrderlyGraph(g, a), NEW t \in g.nodes, NEW u \in g.nodes,
         SameKind(a, "Test", t, u), NEW d \in From(g, u), a[d].type # "LocalBuild"
  PROVE  d \in From(g, t)
<1>1. d \in g.nodes
  BY DEF OrderlyGraph
<1> QED BY <1>1 DEF OrderlyGraph, SameKind

\* The partner of a build is its test.
LEMMA PartnerIs ==
  ASSUME TypeInv, OrderInv, PairedGraph(graph[0], attr), NEW b \in graph[0].nodes,
         attr[b].type = "LocalBuild"
  PROVE  /\ PartnerTests(graph[0], b) # {} =>
              /\ PartnerTest(graph[0], b) \in graph[0].nodes /\ b \in From(graph[0], PartnerTest(graph[0], b))
              /\ attr[PartnerTest(graph[0], b)].type = "Test"
              /\ attr[PartnerTest(graph[0], b)].srpm = attr[b].srpm
              /\ \A c \in From(graph[0], PartnerTest(graph[0], b)) : attr[c].type = "LocalBuild" => c = b
         /\ \A t \in graph[0].nodes :
              attr[t].type = "Test" /\ b \in From(graph[0], t)
                => t = PartnerTest(graph[0], b) /\ PartnerTests(graph[0], b) # {}
<1> DEFINE g == graph[0]
<1>0. OrderlyGraph(g, attr)
  BY DEF OrderInv, Orderly, OrderlyBuild
<1>1. ASSUME PartnerTests(g, b) # {}
      PROVE  /\ PartnerTest(g, b) \in g.nodes /\ b \in From(g, PartnerTest(g, b))
             /\ attr[PartnerTest(g, b)].type = "Test"
             /\ attr[PartnerTest(g, b)].srpm = attr[b].srpm
             /\ \A c \in From(g, PartnerTest(g, b)) : attr[c].type = "LocalBuild" => c = b
  <2> DEFINE t == PartnerTest(g, b)
  <2>1. t \in PartnerTests(g, b)
    BY <1>1 DEF PartnerTest
  <2>2. t \in g.nodes /\ attr[t].type = "Test" /\ \E m \in From(g, t) : attr[m].id = attr[b].id
    BY <2>1 DEF PartnerTests, To
  <2>3. PICK m \in From(g, t) : attr[m].id = attr[b].id
    BY <2>2
  <2>4. m \in g.nodes
    BY <1>0, <2>2 DEF OrderlyGraph
  <2>5. m = b
    BY <1>0, <2>3, <2>4 DEF OrderlyGraph
  <2>6. ASSUME NEW c \in From(g, t), attr[c].type = "LocalBuild"
        PROVE  c = b /\ attr[b].srpm = attr[t].srpm
    <3>1. c \in g.nodes /\ {b, c} \subseteq From(g, t)
      BY <1>0, <2>2, <2>3, <2>5 DEF OrderlyGraph
    <3> QED BY <1>0, <2>2, <2>6, <3>1 DEF OrderlyGraph
  <2> QED BY <2>2, <2>3, <2>5, <2>6
<1>2. ASSUME NEW t \in g.nodes, attr[t].type = "Test", b \in From(g, t)
      PROVE  t = PartnerTest(g, b) /\ PartnerTests(g, b) # {}
  <2>1. t \in PartnerTests(g, b)
    BY <1>2 DEF PartnerTests, To
  <2>2. b \in From(g, t) \cap From(g, PartnerTest(g, b)) /\ PartnerTest(g, b) \in g.nodes
        /\ attr[PartnerTest(g, b)].type = "Test"
    BY <1>1, <1>2, <2>1
  <2> QED BY <1>2, <2>1, <2>2 DEF PairedGraph
<1> QED BY <1>1, <1>2

\* With fewer edges there is no new cycle.
LEMMA FewerCycles ==
  ASSUME NEW g \in Graph, \A m \in g.nodes : From(g, m) \subseteq g.nodes, OnSomeCycle(g) = {},
         NEW h \in Graph, h.nodes = g.nodes, \A m \in g.nodes : From(h, m) \subseteq From(g, m)
  PROVE  OnSomeCycle(h) = {}
<1> SUFFICES ASSUME NEW n \in g.nodes, NEW m \in From(h, n), n \in Reach(h, m) PROVE FALSE
  BY DEF OnSomeCycle
<1>1. m \in From(g, n) /\ m \in g.nodes
  OBVIOUS
<1>2. m \in Reach(g, m)
  BY <1>1, GraphFields, ReachWithin
<1>3. Reach(h, m) \subseteq Reach(g, m)
  BY <1>1, <1>2, ReachPart
<1> QED BY <1>1, <1>3 DEF OnSomeCycle

\* The graph that ConvertNodesToRequests leaves.
LEMMA ConvertGraph ==
  ASSUME TypeInv, OrderInv, WakeInv, pc = "convert",
         NEW h, NEW cut, NEW ready, NEW asked, Converts(h, cut, ready, asked)
  PROVE  /\ PairedGraph(h, attr) /\ OnSomeCycle(h) = {} /\ Reach(h, goalNode) \subseteq Needed
         /\ \A n \in graph[0].nodes :
               /\ From(h, n) \subseteq From(graph[0], n)
               /\ attr[n].type # "Test" => From(h, n) = From(graph[0], n)
               /\ \A d \in From(graph[0], n) : attr[d].type # "LocalBuild" => d \in From(h, n)
         /\ \A n \in graph[0].nodes : \A m \in From(graph[0], n) \ From(h, n) :
               /\ \E gr \in cut : m \in gr
               /\ n = PartnerTest(graph[0], m) /\ attr[m].type = "LocalBuild"
         /\ \A gr \in cut : \A b \in gr :
               /\ b \in graph[0].nodes /\ attr[b].type = "LocalBuild"
               /\ PartnerTests(graph[0], b) # {} /\ b \notin From(h, PartnerTest(graph[0], b))
<1> DEFINE g == graph[0]
<1>0. /\ nodesToBuild \subseteq Node /\ G = g /\ g \in Graph /\ g.nodes \subseteq Node
      /\ goalNode \in g.nodes /\ OrderlyGraph(g, attr) /\ PairedGraph(g, attr) /\ OnSomeCycle(g) = {}
      /\ \A m \in g.nodes : From(g, m) \subseteq g.nodes
  BY GraphFields DEF TypeInv, LoopOK, GraphsOK, G, Current, OrderInv, Orderly, OrderlyBuild, OrderlyGraph, WakeInv
<1>1. ASSUME NEW gr \in cut, NEW b \in gr
      PROVE  b \in nodesToBuild /\ b \in g.nodes /\ attr[b].type = "LocalBuild" /\ PartnerTests(g, b) # {}
  <2>1. gr \in Groups("LocalBuild") /\ PartnerTests(g, b) # {}
    BY <1>0, <1>1 DEF Converts, NewGroups
  <2>2. b \in nodesToBuild /\ attr[b].type = "LocalBuild"
    BY <2>1 DEF Groups, NodesOfType
  <2>3. b \in g.nodes
    BY <2>2 DEF OrderInv, ReadyToStart
  <2> QED BY <2>1, <2>2, <2>3
<1>2. ASSUME NEW n \in g.nodes
      PROVE  From(h, n) = {m \in From(g, n) : ~(m \in UNION cut /\ n = PartnerTest(g, m))}
  BY <1>0, <1>2 DEF Converts
<1>3. h \in Graph /\ h.nodes = g.nodes
  BY <1>0 DEF Converts
<1>4. ASSUME NEW n \in g.nodes, NEW m \in From(g, n) \ From(h, n)
      PROVE  (\E gr \in cut : m \in gr) /\ n = PartnerTest(g, m) /\ attr[m].type = "LocalBuild"
             /\ attr[n].type = "Test"
  <2>1. m \in UNION cut /\ n = PartnerTest(g, m)
    BY <1>2
  <2>2. PICK gr \in cut : m \in gr
    BY <2>1
  <2>3. attr[m].type = "LocalBuild" /\ PartnerTests(g, m) # {} /\ m \in g.nodes
    BY <1>1, <2>2
  <2>4. attr[n].type = "Test"
    BY <1>0, <2>1, <2>3, PartnerIs
  <2> QED BY <2>1, <2>2, <2>3, <2>4
<1>5. ASSUME NEW n \in g.nodes
      PROVE  /\ From(h, n) \subseteq From(g, n)
             /\ attr[n].type # "Test" => From(h, n) = From(g, n)
             /\ \A d \in From(g, n) : attr[d].type # "LocalBuild" => d \in From(h, n)
  BY <1>2, <1>4
<1>6. ASSUME NEW gr \in cut, NEW b \in gr
      PROVE  b \notin From(h, PartnerTest(g, b))
  <2>1. PartnerTest(g, b) \in g.nodes
    BY <1>0, <1>1, PartnerIs
  <2>2. b \in UNION cut
    OBVIOUS
  <2> QED BY <1>2, <2>1, <2>2
<1>7. OnSomeCycle(h) = {}
  BY <1>0, <1>3, <1>5, FewerCycles
<1>8. Reach(h, goalNode) \subseteq Needed
  <2>1. goalNode \in Reach(g, goalNode)
    BY <1>0, GraphFields, ReachWithin
  <2>2. Reach(h, goalNode) \subseteq Reach(g, goalNode)
    BY <1>0, <1>3, <1>5, <2>1, ReachPart
  <2> QED BY <2>2 DEF Needed
<1>9. PairedGraph(h, attr)
  <2>1. \A b, c \in h.nodes : SameKind(attr, "LocalBuild", b, c) => From(h, b) = From(h, c)
    BY <1>0, <1>3, <1>5 DEF PairedGraph, SameKind
  <2>2. \A t, u \in h.nodes : \A b \in From(h, t) \cap From(h, u) :
           attr[t].type = "Test" /\ attr[u].type = "Test" /\ attr[b].type = "LocalBuild" => t = u
    BY <1>0, <1>3, <1>5 DEF PairedGraph
  <2>3. \A n \in h.nodes : attr[n].state = "Unresolved" => attr[n].type = "RemoteRun"
    BY <1>0, <1>3 DEF PairedGraph
  <2> QED BY <2>1, <2>2, <2>3 DEF PairedGraph
<1> QED BY <1>1, <1>4, <1>5, <1>6, <1>7, <1>8, <1>9

\* What ConvertNodesToRequests adds to the requests.
LEMMA AskedFor ==
  ASSUME TypeInv, TypeInv', OrderInv, OrderInv', ConvertNodesToRequests
  PROVE  /\ \A n : n \in Started' <=> n \in Started \/ n \in UNION Asked'
         /\ \A j \in AllJobs' : j \in AllJobs \/ (j.ancillary \in Asked' /\ j.node \in j.ancillary)
         /\ AllJobs \subseteq AllJobs'
<1>0. /\ UNCHANGED <<attr, activeBuilds, nodeToState, requests, priorityRequests, results, wpc, job>>
      /\ pc = "convert"
  BY DEF ConvertNodesToRequests, stateVars, chanVars, workerVars
<1>1. Outstanding' = Outstanding
  BY <1>0 DEF Outstanding, JobsIn, Busy
<1>2. JobsIn(newRequests) = {}
  BY <1>0 DEF TypeInv, LoopOK, JobsIn
<1>3. AllJobs' = AllJobs \cup JobsIn(newRequests)'
  BY <1>1, <1>2 DEF AllJobs
<1>4. Asked' = {j.ancillary : j \in JobsIn(newRequests)'}
  BY Zenon DEF Asked
<1>5. HeldAre'
  BY HeldNext
<1>6. /\ \A j \in AllJobs' : j.node \in j.ancillary
      /\ \A n : n \in Held' <=> \E j \in AllJobs' : n \in j.ancillary
  BY <1>5 DEF HeldAre
<1>7. Processed' = Processed
  BY <1>0 DEF Processed, IsNodeProcessed
<1>8. ASSUME NEW n PROVE n \in Held' <=> n \in Held \/ n \in UNION Asked'
  BY <1>3, <1>4, <1>6, HeldJobs
<1>9. \A n : n \in Started' <=> n \in Started \/ n \in UNION Asked'
  BY <1>7, <1>8 DEF Started
<1> QED BY <1>3, <1>4, <1>6, <1>9

\* What is to be built and is needed is asked for.
LEMMA ReadyAsked ==
  ASSUME TypeInv, OrderInv, ActiveInv, Wakeful, pc = "convert",
         NEW h, NEW cut, NEW ready, NEW asked, Converts(h, cut, ready, asked),
         NEW n \in nodesToBuild, Live(n)
  PROVE  n \in UNION asked
<1>0. nodesToBuild \subseteq Node
  BY DEF TypeInv, LoopOK
<1>1. CASE attr[n].type \notin {"LocalBuild", "Test"}
  BY <1>1 DEF Converts, Others
<1>2. CASE attr[n].type \in {"LocalBuild", "Test"}
  <2> DEFINE type == attr[n].type
             gr == {m \in NodesOfType(nodesToBuild, type) : attr[m].srpm = attr[n].srpm}
  <2>1. gr \in Groups(type) /\ n \in gr
    BY DEF Groups, NodesOfType
  <2>2. SRPMOf(gr) = attr[n].srpm
    BY <2>1 DEF SRPMOf
  <2>3. ActiveFromSRPM(attr[n].srpm, type) = {}
    BY <1>2, NoDuplicate DEF Wakeful
  <2>4. gr \in NewGroups(type)
    BY <2>1, <2>2, <2>3 DEF NewGroups
  <2>5. gr \in asked
    BY <1>2, <2>4 DEF Converts
  <2> QED BY <2>1, <2>5
<1> QED BY <1>1, <1>2

\* What the sets of nodes are that are asked for.
LEMMA AskedKinds ==
  ASSUME TypeInv, OrderInv, WakeInv, pc = "convert",
         NEW h, NEW cut, NEW ready, NEW asked, Converts(h, cut, ready, asked), NEW A \in asked
  PROVE  /\ \A m, n \in A : attr[m].type = attr[n].type /\ attr[m].srpm = attr[n].srpm
         /\ \A n \in A : attr[n].type = "LocalBuild" => A \in NewGroups("LocalBuild")
         /\ \A n \in A : attr[n].type = "Test" =>
               n \in nodesToBuild \/ \E gr \in ready : A = PartnersOf(gr)
<1>0. nodesToBuild \subseteq Node /\ G = graph[0] /\ PairedGraph(graph[0], attr)
  BY DEF TypeInv, LoopOK, G, Current, OrderInv, Orderly, OrderlyBuild, WakeInv
<1>1. CASE A \in Others
  BY <1>1 DEF Others
<1>2. CASE A \in NewGroups("LocalBuild")
  BY <1>0, <1>2, GroupNodes DEF NewGroups
<1>3. CASE A \in NewGroups("Test")
  <2>1. A \in Groups("Test")
    BY <1>3 DEF NewGroups
  <2>2. A \subseteq nodesToBuild
    BY <2>1 DEF Groups, NodesOfType
  <2> QED BY <1>0, <2>1, <2>2, GroupNodes
<1>4. ASSUME NEW gr \in ready, A = PartnersOf(gr)
      PROVE  \A m, n \in A : attr[n].type = "Test" /\ attr[m].type = "Test" /\ attr[m].srpm = attr[n].srpm
  <2>1. gr \in cut /\ gr \in Groups("LocalBuild")
    BY <1>4 DEF Converts, NewGroups
  <2>2. \A b, c \in gr : attr[b].srpm = attr[c].srpm
    BY <1>0, <2>1, GroupNodes
  <2>3. ASSUME NEW b \in gr
        PROVE  attr[PartnerTest(G, b)].type = "Test" /\ attr[PartnerTest(G, b)].srpm = attr[b].srpm
    <3>1. b \in graph[0].nodes /\ attr[b].type = "LocalBuild" /\ PartnerTests(graph[0], b) # {}
      BY <2>1, <2>3, ConvertGraph
    <3> QED BY <1>0, <3>1, PartnerIs
  <2> QED BY <1>4, <2>2, <2>3 DEF PartnersOf
<1> QED BY <1>1, <1>2, <1>3, <1>4 DEF Converts

\* The tests of a group whose builds no longer hold them up.
LEMMA PartnersReady ==
  ASSUME TypeInv, OrderInv, WakeInv, pc = "convert",
         NEW h, NEW cut, NEW ready, NEW asked, Converts(h, cut, ready, asked),
         NEW gr \in cut, NEW b \in gr
  PROVE  gr \in ready <=> AllAvailable(h, PartnerTest(graph[0], b))
<1> DEFINE g == graph[0]
           t(c) == PartnerTest(g, c)
<1>0. nodesToBuild \subseteq Node /\ G = g /\ PairedGraph(g, attr) /\ OrderlyGraph(g, attr)
  BY DEF TypeInv, LoopOK, G, Current, OrderInv, Orderly, OrderlyBuild, WakeInv
<1>1. PICK l \in gr : gr \in ready <=> IsNodeUnblocked(h, t(l))
  BY <1>0 DEF Converts
<1>2. \A c, d \in gr : attr[c].srpm = attr[d].srpm
  BY <1>0, GroupNodes DEF Converts, NewGroups
<1>3. ASSUME NEW c \in gr
      PROVE  /\ t(c) \in g.nodes /\ attr[t(c)].type = "Test" /\ attr[t(c)].srpm = attr[c].srpm
             /\ From(h, t(c)) = {d \in From(g, t(c)) : attr[d].type # "LocalBuild"}
  <2>1. c \in g.nodes /\ attr[c].type = "LocalBuild" /\ PartnerTests(g, c) # {} /\ c \notin From(h, t(c))
    BY <1>3, ConvertGraph
  <2>2. /\ t(c) \in g.nodes /\ attr[t(c)].type = "Test" /\ attr[t(c)].srpm = attr[c].srpm
        /\ \A d \in From(g, t(c)) : attr[d].type = "LocalBuild" => d = c
    BY <1>0, <2>1, PartnerIs
  <2>3. /\ From(h, t(c)) \subseteq From(g, t(c))
        /\ \A d \in From(g, t(c)) : attr[d].type # "LocalBuild" => d \in From(h, t(c))
    BY <2>2, ConvertGraph
  <2> QED BY <2>1, <2>2, <2>3
<1>4. ASSUME NEW c \in gr, NEW d \in gr PROVE From(h, t(c)) \subseteq From(h, t(d))
  <2> HIDE DEF t
  <2>1. SameKind(attr, "Test", t(d), t(c))
    BY <1>2, <1>3 DEF SameKind
  <2>2. ASSUME NEW e \in From(h, t(c)) PROVE e \in From(h, t(d))
    <3>1. e \in From(g, t(c)) /\ attr[e].type # "LocalBuild"
      BY <1>3
    <3>2. e \in From(g, t(d))
      BY <1>0, <1>3, <2>1, <3>1, TestsWait
    <3> QED BY <1>3, <3>1, <3>2
  <2> QED BY <2>2
<1>5. From(h, t(b)) = From(h, t(l))
  BY <1>4
<1> QED BY <1>1, <1>5 DEF AllAvailable, IsNodeUnblocked

\* The build of a test that is needed is of the test's SRPM, and starts by itself.
LEMMA BuildOfTest ==
  ASSUME TypeInv, OrderInv, NEW t \in graph[0].nodes, attr[t].type = "Test",
         NEW b \in BuildsOf(graph[0], attr, t)
  PROVE  /\ b \in graph[0].nodes /\ attr[b].type = "LocalBuild" /\ attr[b].srpm = attr[t].srpm
         /\ t \in Needed => Live(b)
<1>1. OrderlyGraph(graph[0], attr)
  BY DEF OrderInv, Orderly, OrderlyBuild
<1>2. b \in From(graph[0], t) /\ attr[b].type = "LocalBuild"
  BY DEF BuildsOf
<1>3. b \in graph[0].nodes
  BY <1>1, <1>2 DEF OrderlyGraph
<1>4. attr[b].srpm = attr[t].srpm
  <2>1. {b, b} \subseteq From(graph[0], t)
    BY <1>2
  <2> QED BY <1>1, <1>2, <1>3, <2>1 DEF OrderlyGraph
<1>5. t \in Needed => b \in Needed
  BY <1>2, NeededNodes
<1> QED BY <1>2, <1>3, <1>4, <1>5 DEF Live

\* A group of builds that is asked for has all the builds of its SRPM.
LEMMA GroupHasAll ==
  ASSUME TypeInv, OrderInv, WakeInv, Wakeful, pc = "convert", NEW gr \in NewGroups("LocalBuild"), NEW b \in gr,
         NEW c \in graph[0].nodes, attr[c].type = "LocalBuild", attr[c].srpm = attr[b].srpm, Live(c)
  PROVE  c \in gr
<1>1. PairedGraph(graph[0], attr)
  BY DEF WakeInv
<1>2. OfOneKind /\ BuildsTogether /\ Awake /\ \A n \in nodesToBuild : attr[n].type = "LocalBuild" => Live(n)
  BY DEF Wakeful
<1> QED BY <1>1, <1>2, WholeGroup

\* What is needed and waits for nothing is asked for.
LEMMA UnblockedAsked ==
  ASSUME TypeInv, OrderInv, ActiveInv, WakeInv, Wakeful, pc = "convert",
         NEW h, NEW cut, NEW ready, NEW asked, Converts(h, cut, ready, asked),
         NEW n \in graph[0].nodes, Live(n), attr[n].state # "Unresolved", AllAvailable(h, n)
  PROVE  n \in Started \/ n \in UNION asked
<1>1. CASE From(h, n) = From(graph[0], n)
  <2>1. AllAvailable(graph[0], n)
    BY <1>1 DEF AllAvailable
  <2>2. n \in Started \/ n \in nodesToBuild
    BY <2>1 DEF Wakeful, Awake
  <2> QED BY <2>2, ReadyAsked
<1>2. CASE From(h, n) # From(graph[0], n)
  <2>1. PICK m \in From(graph[0], n) : m \notin From(h, n)
    BY <1>2, ConvertGraph
  <2>2. PICK gr \in cut : m \in gr /\ n = PartnerTest(graph[0], m)
    BY <2>1, ConvertGraph
  <2>3. gr \in ready
    BY <2>2, PartnersReady
  <2>4. G = graph[0]
    BY DEF G, Current, OrderInv, Orderly
  <2>5. n \in PartnersOf(gr) /\ PartnersOf(gr) \in asked
    BY <2>2, <2>3, <2>4 DEF PartnersOf, Converts
  <2> QED BY <2>5
<1> QED BY <1>1, <1>2

\* The tests of an SRPM are asked for together, and together no longer wait for their builds.
LEMMA TestsAsked ==
  ASSUME TypeInv, OrderInv, ActiveInv, WakeInv, Wakeful, pc = "convert",
         NEW h, NEW cut, NEW ready, NEW asked, Converts(h, cut, ready, asked),
         NEW t \in graph[0].nodes, NEW u \in graph[0].nodes, SameKind(attr, "Test", t, u), u \in Needed
  PROVE  /\ t \in Started \/ t \in UNION asked => u \in Started \/ u \in UNION asked
         /\ BuildsOf(h, attr, t) = {} => BuildsOf(h, attr, u) = {}
<1> DEFINE g == graph[0]
<1>0. /\ OrderlyGraph(g, attr) /\ PairedGraph(g, attr) /\ G = g
      /\ attr[t].type = "Test" /\ attr[u].type = "Test" /\ attr[t].srpm = attr[u].srpm
      /\ attr[u].state # "Unresolved" /\ Live(u)
  BY DEF OrderInv, Orderly, OrderlyBuild, WakeInv, PairedGraph, G, Current, SameKind, Live
<1>1. /\ t \in Started => u \in Started
      /\ BuildsOf(g, attr, t) = {} => BuildsOf(g, attr, u) = {}
  BY DEF Wakeful, TestsTogether
<1>2. \A d \in From(g, u) : attr[d].type # "LocalBuild" => d \in From(g, t)
  BY <1>0, TestsWait
<1>3. ASSUME NEW gr \in cut, NEW b \in gr, t = PartnerTest(g, b), NEW c \in BuildsOf(g, attr, u)
      PROVE  c \in gr /\ u = PartnerTest(g, c) /\ c \notin From(h, u)
  <2>1. c \in g.nodes /\ attr[c].type = "LocalBuild" /\ attr[c].srpm = attr[u].srpm /\ Live(c)
    BY <1>0, BuildOfTest
  <2>2. b \in g.nodes /\ attr[b].type = "LocalBuild" /\ PartnerTests(g, b) # {}
    BY ConvertGraph
  <2>3. attr[b].srpm = attr[t].srpm
    BY <1>0, <1>3, <2>2, PartnerIs
  <2>4. gr \in NewGroups("LocalBuild")
    BY DEF Converts
  <2>5. c \in gr
    BY <1>0, <2>1, <2>3, <2>4, GroupHasAll
  <2>6. u = PartnerTest(g, c)
    BY <1>0, <2>1, PartnerIs DEF BuildsOf
  <2> QED BY <2>5, <2>6, ConvertGraph
<1>4. ASSUME BuildsOf(h, attr, t) = {}, NEW c \in BuildsOf(h, attr, u) PROVE FALSE
  <2>1. c \in BuildsOf(g, attr, u) /\ c \in From(h, u)
    BY ConvertGraph DEF BuildsOf
  <2>2. PICK b \in BuildsOf(g, attr, t) : TRUE
    BY <1>1, <2>1
  <2>3. b \in From(g, t) \ From(h, t)
    BY <1>4, <2>2 DEF BuildsOf
  <2>4. PICK gr \in cut : b \in gr /\ t = PartnerTest(g, b)
    BY <2>3, ConvertGraph
  <2> QED BY <1>3, <2>1, <2>4
<1>5. ASSUME AllAvailable(g, u) PROVE u \in Started \/ u \in UNION asked
  <2>1. AllAvailable(h, u)
    BY <1>5, ConvertGraph DEF AllAvailable
  <2> QED BY <1>0, <2>1, UnblockedAsked
<1>6. ASSUME t \in nodesToBuild PROVE AllAvailable(g, u)
  <2>1. AllAvailable(g, t)
    BY <1>6 DEF OrderInv, ReadyToStart
  <2>2. ASSUME NEW d \in From(g, u), attr[d].type = "LocalBuild" PROVE IsNodeAvailable(d)
    <3>1. d \in BuildsOf(g, attr, u)
      BY <2>2 DEF BuildsOf
    <3>2. d \in g.nodes /\ attr[d].srpm = attr[u].srpm /\ Live(d)
      BY <1>0, <3>1, BuildOfTest
    <3>3. PICK b \in BuildsOf(g, attr, t) : TRUE
      BY <1>1, <3>1
    <3>4. b \in g.nodes /\ attr[b].type = "LocalBuild" /\ attr[b].srpm = attr[t].srpm
      BY <1>0, <3>3, BuildOfTest
    <3>5. IsNodeAvailable(b)
      BY <2>1, <3>3 DEF AllAvailable, BuildsOf
    <3> QED BY <1>0, <2>2, <3>2, <3>4, <3>5 DEF Wakeful, BuildsTogether, SameKind
  <2> QED BY <1>2, <2>1, <2>2 DEF AllAvailable
<1>7. ASSUME NEW gr \in ready, NEW b \in gr, t = PartnerTest(g, b)
      PROVE  u \in Started \/ u \in UNION asked
  <2>1. gr \in cut
    BY DEF Converts
  <2>2. CASE BuildsOf(g, attr, u) = {}
    <3>1. AllAvailable(h, t)
      BY <1>7, <2>1, PartnersReady
    <3>2. \A d \in From(g, u) : d \in From(g, t) /\ attr[d].type # "LocalBuild"
      BY <1>2, <2>2 DEF BuildsOf
    <3>3. \A d \in From(g, u) : d \in From(h, t)
      BY <3>2, ConvertGraph
    <3> QED BY <1>5, <3>1, <3>3 DEF AllAvailable
  <2>3. CASE BuildsOf(g, attr, u) # {}
    <3>1. PICK c \in BuildsOf(g, attr, u) : TRUE
      BY <2>3
    <3>2. c \in gr /\ u = PartnerTest(g, c)
      BY <1>3, <1>7, <2>1, <3>1
    <3>3. u \in PartnersOf(gr) /\ PartnersOf(gr) \in asked
      BY <1>0, <3>2 DEF PartnersOf, Converts
    <3> QED BY <3>3
  <2> QED BY <2>2, <2>3
<1>8. ASSUME NEW A \in asked, t \in A PROVE u \in Started \/ u \in UNION asked
  <2>1. t \in nodesToBuild \/ \E gr \in ready : A = PartnersOf(gr)
    BY <1>0, <1>8, AskedKinds
  <2>2. ASSUME NEW gr \in ready, A = PartnersOf(gr) PROVE \E b \in gr : t = PartnerTest(g, b)
    BY <1>0, <1>8, <2>2 DEF PartnersOf
  <2> QED BY <1>5, <1>6, <1>7, <2>1, <2>2
<1> QED BY <1>1, <1>4, <1>8

\* ConvertNodesToRequests asks for all that can be started.
LEMMA WakefulConvert ==
  ASSUME TypeInv, TypeInv', OrderInv, OrderInv', ActiveInv, WakeInv, Wakeful, ConvertNodesToRequests
  PROVE  Wakeful'
<1> DEFINE g == graph[0]
           h == graph'[0]
<1>0. /\ UNCHANGED <<attr, nodeToState, activeBuilds, goalNode, flags, result>>
      /\ pc = "convert" /\ pc' = "submit"
  BY DEF ConvertNodesToRequests, stateVars
<1>1. PICK cut, ready : Converts(h, cut, ready, Asked')
  BY ConvertMakes
<1>2. h.nodes = g.nodes
  BY <1>1 DEF Converts, G, Current, OrderInv, Orderly
<1>3. /\ \A n : n \in Started' <=> n \in Started \/ n \in UNION Asked'
      /\ \A j \in AllJobs' : j \in AllJobs \/ (j.ancillary \in Asked' /\ j.node \in j.ancillary)
      /\ AllJobs \subseteq AllJobs'
  BY AskedFor
<1> DEFINE asked == Asked'
<1> HIDE DEF asked, h
<1>4. Converts(h, cut, ready, asked)
  BY <1>1 DEF asked
<1>5. Needed' \subseteq Needed
  BY <1>0, <1>4, ConvertGraph DEF Needed, h
<1>6. \A n \in g.nodes : Live(n)' => Live(n)
  <2>1. \A n \in g.nodes : From(h, n) \subseteq From(g, n)
    BY <1>0, <1>4, ConvertGraph
  <2> QED BY <1>0, <1>5, <2>1 DEF Live, h
<1>7. /\ \A n : IsNodeAvailable(n)' <=> IsNodeAvailable(n)
      /\ \A n : IsNodeProcessed(n)' <=> IsNodeProcessed(n)
      /\ \A n : AllAvailable(graph[0], n)' <=> AllAvailable(h, n)
  BY <1>0 DEF IsNodeAvailable, IsNodeProcessed, AllAvailable, h
<1>8. OfOneKind'
  <2> SUFFICES ASSUME NEW j \in AllJobs', NEW n \in j.ancillary
               PROVE  SameKind(attr, attr[j.node].type, n, j.node)
    BY <1>0 DEF OfOneKind, SameKind
  <2>1. CASE j \in AllJobs
    BY <2>1 DEF Wakeful, OfOneKind
  <2>2. CASE j.ancillary \in asked /\ j.node \in j.ancillary
    BY <1>0, <1>4, <2>2, AskedKinds DEF SameKind
  <2> QED BY <1>3, <2>1, <2>2 DEF asked
<1>9. BuildsTogether'
  <2> SUFFICES ASSUME NEW b \in g.nodes, NEW c \in g.nodes, SameKind(attr, "LocalBuild", b, c), Live(c)
               PROVE  /\ IsNodeProcessed(b) => IsNodeProcessed(c)
                      /\ IsNodeAvailable(b) => IsNodeAvailable(c)
                      /\ \A j \in AllJobs' : b \in j.ancillary => c \in j.ancillary
    BY <1>0, <1>2, <1>6, <1>7 DEF BuildsTogether, SameKind, h
  <2>1. /\ IsNodeProcessed(b) => IsNodeProcessed(c)
        /\ IsNodeAvailable(b) => IsNodeAvailable(c)
        /\ \A j \in AllJobs : b \in j.ancillary => c \in j.ancillary
    BY DEF Wakeful, BuildsTogether
  <2>2. ASSUME NEW j \in AllJobs', b \in j.ancillary, j.ancillary \in asked PROVE c \in j.ancillary
    <3>1. j.ancillary \in NewGroups("LocalBuild")
      BY <1>0, <1>4, <2>2, AskedKinds DEF SameKind
    <3> QED BY <1>0, <2>2, <3>1, GroupHasAll DEF SameKind
  <2> QED BY <1>3, <2>1, <2>2 DEF asked
<1>10. TestsTogether'
  <2> SUFFICES ASSUME NEW t \in g.nodes, NEW u \in g.nodes, SameKind(attr, "Test", t, u), u \in Needed
               PROVE  /\ t \in Started' => u \in Started'
                      /\ BuildsOf(h, attr, t) = {} => BuildsOf(h, attr, u) = {}
    BY <1>0, <1>2, <1>5 DEF TestsTogether, SameKind, BuildsOf, h
  <2>1. /\ t \in Started \/ t \in UNION asked => u \in Started \/ u \in UNION asked
        /\ BuildsOf(h, attr, t) = {} => BuildsOf(h, attr, u) = {}
    BY <1>0, <1>4, TestsAsked
  <2> QED BY <1>3, <2>1 DEF asked
<1>11. Awake'
  <2> SUFFICES ASSUME NEW n \in g.nodes, Live(n), attr[n].state # "Unresolved", AllAvailable(h, n)
               PROVE  n \in Started'
    BY <1>0, <1>2, <1>6, <1>7 DEF Awake, h
  <2>1. n \in Started \/ n \in UNION asked
    BY <1>0, <1>4, UnblockedAsked
  <2> QED BY <1>3, <2>1 DEF asked
<1>12. NothingFailed'
  BY <1>0, <1>7 DEF Wakeful, NothingFailed
<1>13. Stopping'
  <2>1. Active' = Active
    BY <1>0 DEF Active
  <2> QED BY <1>0, <1>7, <2>1 DEF Wakeful, Stopping
<1> QED BY <1>0, <1>8, <1>9, <1>10, <1>11, <1>12, <1>13 DEF Wakeful

\* The step of WakeInv that makes requests.
LEMMA WakeConvert ==
  ASSUME TypeInv, TypeInv', OrderInv, OrderInv', ActiveInv, WakeInv, ConvertNodesToRequests
  PROVE  WakeInv'
<1>0. UNCHANGED <<attr, err, failures>> /\ pc = "convert" /\ pc' = "submit"
  BY DEF ConvertNodesToRequests, stateVars
<1>1. PICK cut, ready : Converts(graph'[0], cut, ready, Asked')
  BY ConvertMakes
<1>2. ASSUME NEW h, h = graph'[0], NEW asked, asked = Asked'
      PROVE  PairedGraph(h, attr) /\ OnSomeCycle(h) = {}
  <2>1. Converts(h, cut, ready, asked)
    BY <1>1, <1>2
  <2> QED BY <1>0, <2>1, ConvertGraph
<1>3. PairedGraph(graph'[0], attr) /\ OnSomeCycle(graph'[0]) = {}
  BY <1>2
<1>4. "couldNotBuildAll" \notin err
  BY <1>0 DEF WakeInv, Looping
<1>5. failures = {} => Wakeful'
  BY <1>0, WakefulConvert DEF WakeInv, Looping
<1>6. GivesUpOnlyIfBlocked'
  BY <1>0, <1>4 DEF GivesUpOnlyIfBlocked
<1> QED BY <1>0, <1>3, <1>4, <1>5, <1>6 DEF WakeInv, PairedGraph, SameKind

\* How the loop goes on.
Goes ==
    /\ failures \subseteq failures'
    /\ "couldNotBuildAll" \in err' => "couldNotBuildAll" \in err \/ CouldNotBuildAll
    /\ pc' \in Looping => pc \in Looping /\ ~CouldNotBuildAll
    /\ pc' \in Looping /\ ~ConvertNodesToRequests /\ ~ReceiveResult /\ ~Advance =>
          /\ "stopBuilding" \in flags' <=> "stopBuilding" \in flags
          /\ pc \in {"delta", "inject", "advance"} => pc' \in {"delta", "inject", "advance"}
          /\ pc \in {"convert", "submit"} => pc' \in {"convert", "submit"}
          /\ pc' = "submit" => pc = "submit"

\* Every step goes on like that.
LEMMA GoesStep ==
  ASSUME TypeInv, OrderInv, [Next]_vars
  PROVE  Goes
<1> USE DEF Goes, Looping, stateVars
<1>1. CASE UNCHANGED vars
  BY <1>1 DEF vars, schedVars, CouldNotBuildAll
<1>2. CASE StartAtLeaves
  BY <1>2 DEF StartAtLeaves, CouldNotBuildAll
<1>3. CASE ConvertNodesToRequests
  BY <1>3 DEF ConvertNodesToRequests, CouldNotBuildAll
<1>4. CASE ConvertPanics
  BY <1>4 DEF ConvertPanics
<1>5. CASE SubmitRequest
  BY <1>5 DEF SubmitRequest, CouldNotBuildAll
<1>6. CASE EnableCachedImplicit
  BY <1>6 DEF EnableCachedImplicit, NothingOutstanding, CouldNotBuildAll
<1>7. CASE CouldNotBuildAll
  BY <1>7 DEF CouldNotBuildAll, NothingOutstanding
<1>8. CASE LicenseCheckerFails
  BY <1>8 DEF LicenseCheckerFails
<1>9. CASE ReceiveResult
  <2>1. failures \subseteq failures' /\ "couldNotBuildAll" \notin err' /\ pc = "submit" /\ pc' # "doneBuild"
    BY <1>9 DEF ReceiveResult, RecordBuildResult, AfterRecording
  <2> QED BY <1>9, <2>1 DEF CouldNotBuildAll
<1>10. CASE SetAssociatedDeltaPaths
  BY <1>10 DEF SetAssociatedDeltaPaths, CouldNotBuildAll
<1>11. CASE FinishFile
  BY <1>11 DEF FinishFile, GraphFails, CouldNotBuildAll
<1>12. CASE FinishInject
  BY <1>12 DEF FinishInject, CouldNotBuildAll
<1>13. CASE Advance
  BY <1>13 DEF Advance, CouldNotBuildAll, NothingOutstanding
<1>14. CASE StopBuild
  BY <1>14 DEF StopBuild, CloseChannel
<1>15. CASE DoneBuild \/ CloseRequests \/ ClosePriority
  BY <1>15 DEF DoneBuild, CloseRequests, ClosePriority, CloseChannel
<1>16. CASE DrainPriority
  BY <1>16 DEF DrainPriority
<1>17. CASE DrainRequests
  BY <1>17 DEF DrainRequests, PostBuildErrors
<1>18. ASSUME NEW w \in Worker, WorkerStep(w) PROVE Goes
  BY <1>18, WorkerKeepsScheduler DEF KeepScheduler, schedVars, CouldNotBuildAll
<1>19. CASE Finished
  BY <1>1, <1>19 DEF Finished
<1> HIDE DEF Goes, Looping
<1>20. CASE SchedulerStep
  BY <1>2, <1>3, <1>4, <1>5, <1>6, <1>7, <1>8, <1>9, <1>10, <1>11, <1>12, <1>13, <1>14, <1>15, <1>16,
     <1>17, <1>20, NothingInjected, Zenon DEF SchedulerStep
<1> QED BY <1>1, <1>18, <1>19, <1>20, Zenon DEF Next

\* What depends on the graph and the fields of its nodes.
SameGraph ==
    /\ graph' = graph /\ goalNode' = goalNode /\ SameNodes(attr, attr')
    /\ \A n \in Node : attr'[n].state = "Unresolved" <=> attr[n].state = "Unresolved"
    /\ graph[0].nodes \subseteq Node /\ \A n \in graph[0].nodes : From(graph[0], n) \subseteq graph[0].nodes

\* Only the test edges of the graph are ever taken out, and no node becomes unresolved.
LEMMA GraphStays ==
  ASSUME TypeInv, OrderInv, WakeInv, [Next]_vars, ~ConvertNodesToRequests
  PROVE  SameGraph
<1>0. attr \in [Node -> PkgNode] /\ graph[0] \in Graph /\ OrderlyGraph(graph[0], attr)
  BY DEF TypeInv, GraphsOK, OrderInv, Orderly, OrderlyBuild
<1>1. graph' = graph /\ goalNode' = goalNode /\ SameNodes(attr, attr')
  BY FieldsStep
<1>2. graph[0].nodes \subseteq Node /\ \A n \in graph[0].nodes : From(graph[0], n) \subseteq graph[0].nodes
  BY <1>0, GraphFields DEF OrderlyGraph
<1>3. CASE UNCHANGED <<graph, attr, goalNode>>
  BY <1>1, <1>2, <1>3 DEF SameGraph
<1>4. CASE SetAssociatedDeltaPaths
  <2>1. \E updated : attr' = [n \in Node |->
                            IF n \in updated
                            THEN [attr[n] EXCEPT !.rpm = CHOOSE f \in BuiltInstead(n) : TRUE]
                            ELSE attr[n]]
    BY <1>4 DEF SetAssociatedDeltaPaths
  <2>2. ASSUME NEW n \in Node
        PROVE  attr'[n] = attr[n] \/ \E x : attr'[n] = [attr[n] EXCEPT !.rpm = x]
    BY <2>1
  <2>3. \A n \in Node : attr'[n].state = attr[n].state
    BY <1>0, <2>2 DEF PkgNode
  <2> QED BY <1>1, <1>2, <2>3 DEF SameGraph
<1>5. CASE \E w \in Worker : SetAncillaryBuildNodesStatus(w)
  <2>1. PICK w \in Worker : SetAncillaryBuildNodesStatus(w)
    BY <1>5
  <2>2. job[w].ancillary \subseteq graph[0].nodes
    <3>1. job[w] \in AllJobs
      BY <2>1, JobsNow DEF SetAncillaryBuildNodesStatus, WorkerAt
    <3> QED BY <3>1, JobsForNodes
  <2>3. attr' = [n \in Node |->
                  IF n \in job[w].ancillary /\ attr[n].type \in {"LocalBuild", "Test"}
                  THEN [attr[n] EXCEPT !.state = IF "Err" \in job[w].flags
                                                 THEN "BuildError" ELSE "UpToDate"]
                  ELSE attr[n]]
    BY <2>1 DEF SetAncillaryBuildNodesStatus
  <2>4. ASSUME NEW n \in Node PROVE attr'[n].state = "Unresolved" <=> attr[n].state = "Unresolved"
    <3>1. CASE n \in job[w].ancillary /\ attr[n].type \in {"LocalBuild", "Test"}
      <4>1. attr[n].state # "Unresolved"
        BY <2>2, <3>1 DEF WakeInv, PairedGraph
      <4>2. attr'[n].state \in {"BuildError", "UpToDate"}
        BY <1>0, <2>3, <3>1 DEF PkgNode
      <4> QED BY <4>1, <4>2
    <3>2. CASE ~(n \in job[w].ancillary /\ attr[n].type \in {"LocalBuild", "Test"})
      BY <2>3, <3>2
    <3> QED BY <3>1, <3>2
  <2> QED BY <1>1, <1>2, <2>4 DEF SameGraph
<1> QED BY <1>3, <1>4, <1>5, GraphCases, NothingInjected

\* With the same graph the same is needed.
LEMMA SameKinds ==
  ASSUME SameGraph
  PROVE  /\ Needed' = Needed
         /\ \A n \in graph[0].nodes : Live(n)' <=> Live(n)
         /\ \A t \in graph[0].nodes : BuildsOf(graph[0], attr, t)' = BuildsOf(graph[0], attr, t)
         /\ \A type, m, n : m \in Node /\ n \in Node =>
               (SameKind(attr', type, m, n) <=> SameKind(attr, type, m, n))
         /\ PairedGraph(graph[0], attr) => PairedGraph(graph[0], attr)'
<1>1. Needed' = Needed
  BY DEF SameGraph, Needed
<1>2. \A n \in graph[0].nodes : Live(n)' <=> Live(n)
  BY <1>1 DEF SameGraph, SameNodes, Live
<1>3. \A t \in graph[0].nodes : BuildsOf(graph[0], attr, t)' = BuildsOf(graph[0], attr, t)
  BY DEF SameGraph, SameNodes, BuildsOf
<1>4. \A type, m, n : m \in Node /\ n \in Node =>
         (SameKind(attr', type, m, n) <=> SameKind(attr, type, m, n))
  BY DEF SameGraph, SameNodes, SameKind
<1>5. ASSUME PairedGraph(graph[0], attr) PROVE PairedGraph(graph[0], attr)'
  BY <1>4, <1>5 DEF SameGraph, SameNodes, PairedGraph, SameKind
<1> QED BY <1>1, <1>2, <1>3, <1>4, <1>5

\* What is asked for.
SameJobs ==
    /\ \A j \in AllJobs' : \E k \in AllJobs : k.node = j.node /\ k.ancillary = j.ancillary
    /\ \A j \in AllJobs : \E k \in AllJobs' : k.node = j.node /\ k.ancillary = j.ancillary
    /\ \A n : n \in Started' <=> n \in Started
    /\ nodeToState' = nodeToState

\* But for requests that are made and results that are received, the same is asked for.
LEMMA JobsStay ==
  ASSUME TypeInv, TypeInv', OrderInv, OrderInv', [Next]_vars, ~ConvertNodesToRequests, ~ReceiveResult,
         pc \in Looping, pc' \in Looping
  PROVE  SameJobs
<1>1. \A j \in AllJobs' : \E k \in AllJobs : k.node = j.node /\ k.ancillary = j.ancillary
  BY AlikeJobs DEF Alike
<1>2. \A j \in AllJobs : \E k \in AllJobs' : k.node = j.node /\ k.ancillary = j.ancillary
  BY JobsLast
<1>3. HeldAre /\ HeldAre'
  BY HeldNow, HeldNext
<1>4. /\ \A n : n \in Held <=> \E j \in AllJobs : n \in j.ancillary
      /\ \A n : n \in Held' <=> \E j \in AllJobs' : n \in j.ancillary
  BY <1>3 DEF HeldAre
<1>5. \A n : n \in Held' <=> n \in Held
  BY <1>1, <1>2, <1>4
<1>6. nodeToState' = nodeToState
  BY OnwardStep DEF Onward
<1>7. Processed' = Processed
  BY <1>6 DEF Processed, IsNodeProcessed
<1> QED BY <1>1, <1>2, <1>5, <1>6, <1>7 DEF SameJobs, Started

\* What says nothing of the control point stays.
LEMMA TogetherStays ==
  ASSUME TypeInv, OrderInv, SameGraph, SameJobs, OfOneKind, BuildsTogether, TestsTogether
  PROVE  OfOneKind' /\ BuildsTogether' /\ TestsTogether'
<1>1. /\ graph' = graph /\ graph[0].nodes \subseteq Node /\ SameNodes(attr, attr')
  BY DEF SameGraph
<1>2. /\ Needed' = Needed
      /\ \A n \in graph[0].nodes : Live(n)' <=> Live(n)
      /\ \A t \in graph[0].nodes : BuildsOf(graph[0], attr, t)' = BuildsOf(graph[0], attr, t)
      /\ \A type, m, n : m \in Node /\ n \in Node =>
               (SameKind(attr', type, m, n) <=> SameKind(attr, type, m, n))
  BY SameKinds
<1>3. OfOneKind'
  <2> SUFFICES ASSUME NEW j \in AllJobs', NEW n \in j.ancillary
               PROVE  SameKind(attr', attr'[j.node].type, n, j.node)
    BY DEF OfOneKind
  <2>1. PICK k \in AllJobs : k.node = j.node /\ k.ancillary = j.ancillary
    BY DEF SameJobs
  <2>2. n \in Node /\ j.node \in Node
    BY <1>1, <2>1, JobsForNodes
  <2>3. SameKind(attr, attr[k.node].type, n, k.node)
    BY <2>1 DEF OfOneKind
  <2> QED BY <1>1, <1>2, <2>1, <2>2, <2>3 DEF SameNodes
<1>4. BuildsTogether'
  <2> SUFFICES ASSUME NEW b \in graph[0].nodes, NEW c \in graph[0].nodes,
                      SameKind(attr', "LocalBuild", b, c), Live(c)'
               PROVE  /\ IsNodeProcessed(b)' => IsNodeProcessed(c)'
                      /\ IsNodeAvailable(b)' => IsNodeAvailable(c)'
                      /\ \A j \in AllJobs' : b \in j.ancillary => c \in j.ancillary
    BY <1>1 DEF BuildsTogether
  <2>1. SameKind(attr, "LocalBuild", b, c) /\ Live(c)
    BY <1>1, <1>2
  <2>2. /\ IsNodeProcessed(b) => IsNodeProcessed(c)
        /\ IsNodeAvailable(b) => IsNodeAvailable(c)
        /\ \A j \in AllJobs : b \in j.ancillary => c \in j.ancillary
    BY <2>1 DEF BuildsTogether
  <2>3. \A j \in AllJobs' : b \in j.ancillary => c \in j.ancillary
    BY <2>2 DEF SameJobs
  <2> QED BY <2>2, <2>3 DEF SameJobs, IsNodeProcessed, IsNodeAvailable
<1>5. TestsTogether'
  <2> SUFFICES ASSUME NEW t \in graph[0].nodes, NEW u \in graph[0].nodes,
                      SameKind(attr', "Test", t, u), u \in Needed'
               PROVE  /\ t \in Started' => u \in Started'
                      /\ BuildsOf(graph[0], attr, t)' = {} => BuildsOf(graph[0], attr, u)' = {}
    BY <1>1 DEF TestsTogether
  <2>1. SameKind(attr, "Test", t, u) /\ u \in Needed
    BY <1>1, <1>2
  <2> QED BY <1>2, <2>1 DEF SameJobs, TestsTogether
<1> QED BY <1>3, <1>4, <1>5

\* Where a build starts, everything that depends on nothing is to be built.
LEMMA LeavesAwake ==
  ASSUME TypeInv, OrderInv, pc = "start", nodesToBuild' = LeafNodes(G, goalNode, FALSE),
         NEW n \in graph[0].nodes, Live(n), attr[n].state # "Unresolved", AllAvailable(graph[0], n)
  PROVE  n \in nodesToBuild'
<1>0. G = graph[0] /\ OrderlyGraph(graph[0], attr) /\ graph[0].nodes \subseteq Node
  BY GraphFields DEF G, Current, OrderInv, Orderly, OrderlyBuild, TypeInv, GraphsOK
<1>1. \A m \in Node : ~IsNodeProcessed(m) /\ ~IsNodeAvailable(m)
  BY DEF OrderInv, ReadyToStart, Started, Processed, OneRequestPerNode
<1>2. From(graph[0], n) = {}
  <2>1. From(graph[0], n) \subseteq Node
    BY <1>0 DEF OrderlyGraph
  <2> QED BY <1>1, <2>1 DEF AllAvailable
<1>3. n \in Reach(graph[0], goalNode)
  BY <1>2 DEF Live, Needed
<1>4. ~IsImplicit(attr, n) /\ ~IsNodeProcessed(n)
  BY <1>0, <1>1 DEF OrderlyGraph
<1> QED BY <1>0, <1>2, <1>3, <1>4 DEF LeafNodes

\* What depends on a result and waits for nothing else is to be built next.
LEMMA AdvanceAwake ==
  ASSUME TypeInv, OrderInv, Advance, "Err" \notin result.flags,
         NEW n \in graph[0].nodes, AllAvailable(graph[0], n), From(graph[0], n) \cap result.ancillary # {}
  PROVE  n \in nodesToBuild'
<1>0. G = graph[0] /\ nodesToBuild' = FindUnblockedNodes(G, result.ancillary)
  BY DEF Advance, G, Current, OrderInv, Orderly
<1>1. PICK d \in From(graph[0], n) : d \in result.ancillary
  OBVIOUS
<1>2. n \in To(graph[0], attr, attr[d].id)
  BY <1>1 DEF To
<1> QED BY <1>0, <1>1, <1>2 DEF FindUnblockedNodes, AllAvailable, IsNodeAvailable

\* The builds that are to be built next depend on something, or are needed.
LEMMA NextBuildsLive ==
  ASSUME TypeInv, OrderInv, StartAtLeaves \/ EnableCachedImplicit \/ Advance,
         NEW n \in nodesToBuild', attr[n].type = "LocalBuild"
  PROVE  Live(n)
<1>0. G = graph[0]
  BY DEF G, Current, OrderInv, Orderly
<1>1. CASE StartAtLeaves \/ EnableCachedImplicit
  BY <1>0, <1>1 DEF StartAtLeaves, EnableCachedImplicit, LeafNodes, Live, Needed
<1>2. CASE Advance
  <2>1. n \in FindUnblockedNodes(graph[0], result.ancillary)
    BY <1>0, <1>2 DEF Advance
  <2>2. From(graph[0], n) # {}
    BY <2>1 DEF FindUnblockedNodes, To
  <2> QED BY <2>2 DEF Live
<1> QED BY <1>1, <1>2

\* What the build state knows of is forgotten only when its result is received.
LEMMA ActiveStays ==
  ASSUME TypeInv, OrderInv, ActiveInv, [Next]_vars, ~ReceiveResult, pc' \in Looping, pc \in {"convert", "submit"},
         NEW r \in Active
  PROVE  \E s \in Active' : s.node = r.node
<1>1. CASE activeBuilds' = activeBuilds
  BY <1>1 DEF Active
<1>2. CASE SubmitRequest
  <2> DEFINE req == Head(newRequests)
             id == attr[req.node].id
  <2>1. activeBuilds' = [i \in DOMAIN activeBuilds \cup {id} |-> IF i = id THEN req ELSE activeBuilds[i]]
        /\ newRequests # <<>>
    BY <1>2 DEF SubmitRequest
  <2>2. PICK i \in DOMAIN activeBuilds : r = activeBuilds[i]
    BY DEF Active
  <2>3. CASE i # id
    BY <2>1, <2>2, <2>3 DEF Active
  <2>4. CASE i = id
    <3>1. req \in JobsIn(newRequests)
      BY <2>1, QueueNodes DEF TypeInv, LoopOK, JobsIn
    <3>2. req.node \in graph[0].nodes
      BY <3>1, JobsForNodes DEF AllJobs
    <3>3. r.node \in graph[0].nodes /\ attr[r.node].id = id
      BY <2>2, <2>4, ActiveHeld DEF ActiveInv
    <3>4. r.node = req.node
      BY <3>2, <3>3 DEF OrderInv, Orderly, OrderlyBuild, OrderlyGraph
    <3>5. req \in Active'
      BY <2>1 DEF Active
    <3> QED BY <3>4, <3>5
  <2> QED BY <2>3, <2>4
<1>3. CASE LicenseCheckerFails
  BY <1>1, <1>3 DEF LicenseCheckerFails, stateVars
<1>4. CASE DrainPriority \/ DrainRequests
  BY <1>4 DEF DrainPriority, DrainRequests
<1>5. ASSUME NEW w \in Worker, WorkerStep(w) PROVE activeBuilds' = activeBuilds
  BY <1>5, WorkerQueues
<1>6. CASE Quiet
  BY <1>1, <1>6 DEF Quiet
<1> QED BY <1>1, <1>2, <1>3, <1>4, <1>5, <1>6, MovingSteps

\* The other steps of the loop put nothing to sleep.
LEMMA WakefulMoves ==
  ASSUME TypeInv, TypeInv', OrderInv, OrderInv', ActiveInv, WakeInv, Wakeful, [Next]_vars,
         ~ConvertNodesToRequests, ~ReceiveResult, pc \in Looping, pc' \in Looping
  PROVE  Wakeful'
<1>1. SameGraph /\ SameJobs /\ Goes /\ Onward
  BY GraphStays, JobsStay, GoesStep, OnwardStep
<1>2. /\ graph' = graph /\ goalNode' = goalNode /\ nodeToState' = nodeToState
      /\ graph[0].nodes \subseteq Node /\ \A n \in graph[0].nodes : From(graph[0], n) \subseteq graph[0].nodes
      /\ \A n : n \in Started' <=> n \in Started
      /\ \A n \in Node : attr'[n].state = "Unresolved" <=> attr[n].state = "Unresolved"
      /\ \A n \in Node : attr'[n].type = attr[n].type
  BY <1>1 DEF SameGraph, SameJobs, SameNodes
<1>3. \A n \in graph[0].nodes : Live(n)' <=> Live(n)
  BY <1>1, SameKinds
<1>4. /\ \A n : IsNodeAvailable(n)' <=> IsNodeAvailable(n)
      /\ \A n : IsNodeProcessed(n)' <=> IsNodeProcessed(n)
      /\ \A n : AllAvailable(graph[0], n)' <=> AllAvailable(graph[0], n)
  BY <1>2 DEF IsNodeAvailable, IsNodeProcessed, AllAvailable
<1>5. OfOneKind' /\ BuildsTogether' /\ TestsTogether'
  BY <1>1, TogetherStays DEF Wakeful
<1>6. NothingFailed'
  BY <1>1, <1>4 DEF Wakeful, NothingFailed, Onward
<1>7. pc' # "start" => Awake'
  <2> SUFFICES ASSUME pc' # "start", NEW n \in graph[0].nodes, Live(n), attr[n].state # "Unresolved",
                      AllAvailable(graph[0], n), n \notin Started
               PROVE  \/ pc' = "convert" /\ n \in nodesToBuild'
                      \/ /\ pc' \in {"delta", "inject", "advance"}
                         /\ From(graph[0], n) \cap result'.ancillary # {}
    BY <1>2, <1>3, <1>4 DEF Awake
  <2>1. CASE StartAtLeaves
    <3>1. pc = "start" /\ pc' = "convert" /\ nodesToBuild' = LeafNodes(G, goalNode, FALSE)
      BY <2>1 DEF StartAtLeaves
    <3> QED BY <3>1, LeavesAwake
  <2>2. ASSUME pc # "start"
        PROVE  \/ pc = "convert" /\ n \in nodesToBuild
               \/ pc \in {"delta", "inject", "advance"} /\ From(graph[0], n) \cap result.ancillary # {}
    BY <2>2 DEF Wakeful, Awake
  <2>3. CASE EnableCachedImplicit
    <3>1. pc = "submit"
      BY <2>3 DEF EnableCachedImplicit, NothingOutstanding
    <3> QED BY <2>2, <3>1
  <2>4. CASE Advance
    <3>1. pc = "advance" /\ pc' \in {"convert", "doneBuild"}
      BY <2>4 DEF Advance
    <3>2. "Err" \notin result.flags
      BY <3>1 DEF Wakeful, NothingFailed
    <3>3. n \in nodesToBuild'
      BY <2>2, <2>4, <3>1, <3>2, AdvanceAwake
    <3> QED BY <3>1, <3>3 DEF Looping
  <2>5. CASE ~StartAtLeaves /\ ~EnableCachedImplicit /\ ~Advance
    <3>1. CASE pc' = "convert"
      BY <1>1, <2>2, <2>5, <3>1 DEF Onward
    <3>2. CASE pc' \in {"delta", "inject", "advance"}
      BY <1>1, <2>2, <3>2 DEF Onward
    <3>3. CASE pc' = "submit"
      BY <1>1, <2>2, <2>5, <3>3 DEF Goes
    <3> QED BY <3>1, <3>2, <3>3 DEF Looping
  <2> QED BY <2>1, <2>3, <2>4, <2>5
<1>8. Stopping'
  <2>1. CASE Advance
    <3>1. /\ pc' \in {"convert", "doneBuild"} /\ activeBuilds' = activeBuilds
          /\ flags' = IF IsNodeAvailable(goalNode) THEN flags \cup {"stopBuilding"} ELSE flags
          /\ pc' = IF /\ "stopBuilding" \in flags'
                      /\ \A r \in Active : attr[r.node].type # "LocalBuild"
                   THEN "doneBuild" ELSE "convert"
          /\ attr' = attr
      BY <2>1 DEF Advance, stateVars
    <3>2. pc' = "convert" /\ Active' = Active
      BY <3>1 DEF Looping, Active
    <3>3. "stopBuilding" \in flags' => \E r \in Active' : attr'[r.node].type = "LocalBuild"
      BY <3>1, <3>2
    <3>4. IsNodeAvailable(goalNode) => "stopBuilding" \in flags'
      BY <3>1
    <3> QED BY <1>2, <1>4, <3>2, <3>3, <3>4 DEF Stopping, IsNodeAvailable
  <2>2. CASE ~Advance
    <3>1. /\ "stopBuilding" \in flags' <=> "stopBuilding" \in flags
          /\ pc \in {"delta", "inject", "advance"} => pc' \in {"delta", "inject", "advance"}
          /\ pc \in {"convert", "submit"} => pc' \in {"convert", "submit"}
      BY <1>1, <2>2 DEF Goes
    <3>2. IsNodeAvailable(goalNode)' <=> IsNodeAvailable(goalNode)
      BY <1>2 DEF IsNodeAvailable
    <3>3. ASSUME "stopBuilding" \in flags PROVE \E s \in Active' : attr'[s.node].type = "LocalBuild"
      <4>1. PICK r \in Active : attr[r.node].type = "LocalBuild" /\ pc \in {"convert", "submit"}
        BY <3>3 DEF Wakeful, Stopping
      <4>2. PICK s \in Active' : s.node = r.node
        BY <4>1, ActiveStays
      <4>3. r.node \in Node
        BY <1>2, <4>1, ActiveHeld
      <4> QED BY <1>2, <4>1, <4>2, <4>3
    <3> QED BY <3>1, <3>2, <3>3 DEF Wakeful, Stopping
  <2> QED BY <2>1, <2>2
<1>9. ASSUME pc' = "convert", NEW n \in nodesToBuild', attr'[n].type = "LocalBuild" PROVE Live(n)'
  <2>1. n \in graph[0].nodes
    BY <1>2, <1>9 DEF OrderInv, ReadyToStart
  <2>2. attr[n].type = "LocalBuild"
    BY <1>2, <1>9, <2>1
  <2>3. CASE pc = "convert" /\ nodesToBuild' = nodesToBuild
    BY <1>3, <1>9, <2>1, <2>2, <2>3 DEF Wakeful
  <2>4. CASE StartAtLeaves \/ EnableCachedImplicit \/ Advance
    BY <1>3, <1>9, <2>1, <2>2, <2>4, NextBuildsLive
  <2> QED BY <1>1, <1>9, <2>3, <2>4 DEF Onward
<1> QED BY <1>5, <1>6, <1>7, <1>8, <1>9 DEF Wakeful

\* A result that is no failure is followed up, and makes its nodes available.
LEMMA GoodResult ==
  ASSUME TypeInv, OrderInv, ReceiveResult, failures' = {}, pc' \in Looping
  PROVE  /\ pc' \in {"delta", "inject", "advance"} /\ result' = Head(results)
         /\ "Err" \notin Head(results).flags /\ "stopBuilding" \notin flags'
         /\ \A n \in Head(results).ancillary : IsNodeProcessed(n)' /\ IsNodeAvailable(n)'
         /\ \A n \in Node \ Head(results).ancillary : nodeToState'[n] = nodeToState[n]
<1> DEFINE res == Head(results)
<1>1. /\ \E license : RecordBuildResult(res, license)
      /\ result' = res /\ pc' = AfterRecording(res) /\ flags' \subseteq flags
  BY DEF ReceiveResult
<1>2. res.flags \cap {"Err", "CheckFailed"} = {}
  BY <1>1 DEF RecordBuildResult
<1>3. "stopBuilding" \notin flags /\ pc' \in {"delta", "inject", "advance"}
  BY <1>1, <1>2 DEF AfterRecording, Looping
<1>4. /\ nodeToState' = [n \in Node |-> IF n \in res.ancillary THEN StateOf(res) ELSE nodeToState[n]]
      /\ res.ancillary \subseteq Node
  BY ReceiveRecords
<1>5. {"processed", "available"} \subseteq StateOf(res).flags
  BY <1>2 DEF StateOf
<1>6. \A n \in res.ancillary : IsNodeProcessed(n)' /\ IsNodeAvailable(n)'
  BY <1>4, <1>5 DEF IsNodeProcessed, IsNodeAvailable
<1> QED BY <1>1, <1>2, <1>3, <1>4, <1>6

\* What was asked for is still asked for, or has its result.
LEMMA StartedReceive ==
  ASSUME TypeInv, TypeInv', OrderInv, OrderInv', ReceiveResult, pc' \in Looping, failures' = {}
  PROVE  \A n \in graph[0].nodes : n \in Started => n \in Started'
<1> SUFFICES ASSUME NEW n \in graph[0].nodes, n \in Started PROVE n \in Started'
  OBVIOUS
<1>0. n \in Node /\ [Next]_vars /\ ~ConvertNodesToRequests /\ pc \in Looping
  <2>1. graph[0].nodes \subseteq Node
    BY GraphFields DEF TypeInv, GraphsOK
  <2>2. pc = "submit"
    BY DEF ReceiveResult
  <2> QED BY <2>1, <2>2 DEF Next, SchedulerStep, ConvertNodesToRequests, Looping
<1>1. CASE n \in Head(results).ancillary
  BY <1>0, <1>1, GoodResult DEF Started, Processed
<1>2. CASE n \notin Head(results).ancillary /\ n \in Processed
  <2>1. IsNodeProcessed(n)'
    BY <1>0, <1>2, GoodResult DEF IsNodeProcessed, Processed
  <2> QED BY <1>0, <2>1 DEF Started, Processed
<1>3. CASE n \notin Head(results).ancillary /\ n \in Held
  <2>1. PICK j \in AllJobs : n \in j.ancillary
    BY <1>3, HeldJobs
  <2>2. PICK k \in AllJobs' : k.ancillary = j.ancillary
    BY <1>0, <1>3, <2>1, JobsLast
  <2>3. HeldAre'
    BY HeldNext
  <2>4. n \in Held'
    BY <2>1, <2>2, <2>3 DEF HeldAre
  <2> QED BY <2>4 DEF Started
<1> QED BY <1>1, <1>2, <1>3 DEF Started

\* Nothing new is asked for.
LEMMA NoneStarted ==
  ASSUME TypeInv, TypeInv', OrderInv, OrderInv', ReceiveResult, NEW n, n \in Started'
  PROVE  n \in Started
<1>0. [Next]_vars /\ ~ConvertNodesToRequests
  BY DEF Next, SchedulerStep, ConvertNodesToRequests, ReceiveResult
<1>1. CASE n \in Held'
  <2>1. HeldAre'
    BY HeldNext
  <2>2. PICK j \in AllJobs' : n \in j.ancillary
    BY <1>1, <2>1 DEF HeldAre
  <2>3. PICK k \in AllJobs : k.ancillary = j.ancillary
    BY <1>0, AlikeJobs DEF Alike
  <2> QED BY <2>2, <2>3, HeldJobs DEF Started
<1>2. CASE n \in Processed'
  <2>1. n \in Node /\ "processed" \in nodeToState'[n].flags
    BY <1>2 DEF Processed, IsNodeProcessed
  <2>2. CASE n \in Head(results).ancillary
    <3>1. Head(results) \in AllJobs
      BY ReceiveRecords
    <3> QED BY <2>2, <3>1, HeldJobs DEF Started
  <2>3. CASE n \notin Head(results).ancillary
    <3>1. nodeToState'[n] = nodeToState[n]
      BY <2>1, <2>3, ReceiveRecords
    <3> QED BY <2>1, <3>1 DEF Started, Processed, IsNodeProcessed
  <2> QED BY <2>2, <2>3
<1> QED BY <1>1, <1>2 DEF Started

\* A result wakes what depends on it.
LEMMA WakefulReceive ==
  ASSUME TypeInv, TypeInv', OrderInv, OrderInv', WakeInv, Wakeful, ReceiveResult,
         failures' = {}, pc' \in Looping
  PROVE  Wakeful'
<1> DEFINE res == Head(results)
<1>0. /\ [Next]_vars /\ ~ConvertNodesToRequests /\ pc = "submit"
      /\ UNCHANGED <<graph, attr, goalNode>> /\ graph[0].nodes \subseteq Node
      /\ \A n \in graph[0].nodes : From(graph[0], n) \subseteq graph[0].nodes
  <2>1. pc = "submit" /\ UNCHANGED <<graph, attr, goalNode>>
    BY DEF ReceiveResult
  <2>2. graph[0].nodes \subseteq Node
    BY GraphFields DEF TypeInv, GraphsOK
  <2> QED BY <2>1, <2>2 DEF Next, SchedulerStep, ConvertNodesToRequests, OrderInv, Orderly, OrderlyBuild, OrderlyGraph
<1>1. /\ pc' \in {"delta", "inject", "advance"} /\ result' = res
      /\ "Err" \notin res.flags /\ "stopBuilding" \notin flags'
      /\ \A n \in res.ancillary : IsNodeProcessed(n)' /\ IsNodeAvailable(n)'
      /\ \A n \in Node \ res.ancillary : nodeToState'[n] = nodeToState[n]
  BY GoodResult
<1>2. /\ Needed' = Needed
      /\ \A n : Live(n)' <=> Live(n)
      /\ \A t : BuildsOf(graph[0], attr, t)' = BuildsOf(graph[0], attr, t)
  BY <1>0 DEF Needed, Live, BuildsOf
<1>3. \A n \in graph[0].nodes : n \in Started' <=> n \in Started
  BY StartedReceive, NoneStarted
<1>4. /\ \A j \in AllJobs' : \E k \in AllJobs : k.node = j.node /\ k.ancillary = j.ancillary
      /\ res \in AllJobs /\ res.ancillary \subseteq Node
  BY <1>0, AlikeJobs, ReceiveRecords DEF Alike
<1>5. ASSUME NEW n \in Node \ res.ancillary
      PROVE  /\ IsNodeProcessed(n)' <=> IsNodeProcessed(n)
             /\ IsNodeAvailable(n)' <=> IsNodeAvailable(n)
  BY <1>1 DEF IsNodeProcessed, IsNodeAvailable
<1>6. OfOneKind'
  BY <1>0, <1>4 DEF Wakeful, OfOneKind, SameKind
<1>7. BuildsTogether'
  <2> SUFFICES ASSUME NEW b \in graph[0].nodes, NEW c \in graph[0].nodes,
                      SameKind(attr, "LocalBuild", b, c), Live(c)
               PROVE  /\ IsNodeProcessed(b)' => IsNodeProcessed(c)'
                      /\ IsNodeAvailable(b)' => IsNodeAvailable(c)'
                      /\ \A j \in AllJobs' : b \in j.ancillary => c \in j.ancillary
    BY <1>0, <1>2 DEF BuildsTogether, SameKind
  <2>1. /\ IsNodeProcessed(b) => IsNodeProcessed(c)
        /\ IsNodeAvailable(b) => IsNodeAvailable(c)
        /\ \A j \in AllJobs : b \in j.ancillary => c \in j.ancillary
    BY DEF Wakeful, BuildsTogether
  <2>2. \A j \in AllJobs' : b \in j.ancillary => c \in j.ancillary
    BY <1>4, <2>1
  <2>3. b \in res.ancillary => c \in res.ancillary
    BY <1>4, <2>1
  <2> QED BY <1>0, <1>1, <1>5, <2>1, <2>2, <2>3
<1>8. TestsTogether'
  BY <1>0, <1>2, <1>3 DEF Wakeful, TestsTogether, SameKind
<1>9. Awake'
  <2> SUFFICES ASSUME NEW n \in graph[0].nodes, Live(n), attr[n].state # "Unresolved",
                      AllAvailable(graph[0], n)', From(graph[0], n) \cap res.ancillary = {}
               PROVE  n \in Started'
    BY <1>0, <1>1, <1>2 DEF Awake
  <2>1. \A d \in From(graph[0], n) : IsNodeAvailable(d)'
    BY <1>0 DEF AllAvailable
  <2>2. AllAvailable(graph[0], n)
    BY <1>0, <1>5, <2>1 DEF AllAvailable
  <2>3. n \in Started
    BY <1>0, <2>2 DEF Wakeful, Awake
  <2> QED BY <1>3, <2>3
<1>10. NothingFailed'
  <2>1. ASSUME NEW n \in Node PROVE IsNodeProcessed(n)' => IsNodeAvailable(n)'
    BY <1>1, <1>5 DEF Wakeful, NothingFailed
  <2> QED BY <1>1, <2>1 DEF NothingFailed
<1>11. Stopping'
  BY <1>1 DEF Stopping
<1> QED BY <1>1, <1>6, <1>7, <1>8, <1>9, <1>10, <1>11 DEF Wakeful

\* When nothing is outstanding, nothing failed and the goal is not available, something
\* that the goal needs is unresolved.
LEMMA BlockedOnly ==
  ASSUME TypeInv, OrderInv, WakeInv, CouldNotBuildAll, failures = {}
  PROVE  \E n \in Needed : attr[n].state = "Unresolved"
<1> SUFFICES ASSUME \A n \in Needed : attr[n].state # "Unresolved" PROVE FALSE
  OBVIOUS
<1>0. /\ pc = "submit" /\ newRequests = <<>> /\ DOMAIN activeBuilds = {} /\ Wakeful
  BY DEF CouldNotBuildAll, NothingOutstanding, WakeInv, Looping
<1>1. /\ graph[0] \in Graph /\ graph[0].nodes \subseteq Node /\ OnSomeCycle(graph[0]) = {}
      /\ \A m \in graph[0].nodes : From(graph[0], m) \subseteq graph[0].nodes
  BY GraphFields DEF TypeInv, GraphsOK, WakeInv, OrderInv, Orderly, OrderlyBuild, OrderlyGraph
<1>2. Held = {}
  <2>1. JobsIn(newRequests) = {}
    BY <1>0 DEF JobsIn
  <2>2. \A n \in OutstandingNodes : attr[n].id \in {}
    BY <1>0 DEF OrderInv, AllKnown
  <2>3. Outstanding = {}
    BY <2>2 DEF OutstandingNodes
  <2> QED BY <2>1, <2>3, PlacesHold DEF Held, HeldIn
<1>3. ~IsNodeAvailable(goalNode)
  <2>1. Active = {}
    BY <1>0 DEF Active
  <2> QED BY <1>0, <2>1 DEF Wakeful, Stopping
<1> DEFINE X == {n \in Needed : ~IsNodeAvailable(n)}
<1>4. X \subseteq graph[0].nodes /\ X # {}
  BY <1>3, NeededNodes
<1>5. PICK n \in X : From(graph[0], n) \cap X = {}
  BY <1>1, <1>4, LastOfAll
<1>6. AllAvailable(graph[0], n)
  BY <1>5, NeededNodes DEF AllAvailable
<1>7. n \in Started
  BY <1>0, <1>4, <1>6 DEF Wakeful, Awake, Live
<1>8. n \in Node /\ IsNodeProcessed(n)
  BY <1>1, <1>2, <1>4, <1>7 DEF Started, Processed
<1> QED BY <1>0, <1>8 DEF Wakeful, NothingFailed

\* The step of WakeInv that makes no requests.
LEMMA WakeMoves ==
  ASSUME TypeInv, TypeInv', OrderInv, OrderInv', ActiveInv, WakeInv, [Next]_vars, ~ConvertNodesToRequests
  PROVE  WakeInv'
<1>1. SameGraph /\ Goes
  BY GraphStays, GoesStep
<1>2. /\ graph' = graph /\ goalNode' = goalNode /\ failures \subseteq failures' /\ G = graph[0] /\ G' = graph[0]
      /\ \A n \in Node : attr'[n].state = "Unresolved" <=> attr[n].state = "Unresolved"
  BY <1>1 DEF SameGraph, Goes, G, Current, OrderInv, Orderly
<1>3. PairedGraph(graph[0], attr)' /\ OnSomeCycle(graph[0])' = {}
  BY <1>1, <1>2, SameKinds DEF WakeInv
<1>4. ASSUME pc' \in Looping PROVE "couldNotBuildAll" \notin err'
  BY <1>1, <1>4 DEF Goes, WakeInv
<1>5. ASSUME pc' \in Looping, failures' = {} PROVE Wakeful'
  <2>1. pc \in Looping /\ Wakeful
    BY <1>1, <1>2, <1>5 DEF Goes, WakeInv
  <2> QED BY <1>5, <2>1, WakefulMoves, WakefulReceive
<1>6. GivesUpOnlyIfBlocked'
  <2> SUFFICES ASSUME "couldNotBuildAll" \in err', failures' = {}
               PROVE  \E n \in Reach(graph[0], goalNode) : attr'[n].state = "Unresolved"
    BY <1>2 DEF GivesUpOnlyIfBlocked
  <2>1. failures = {}
    BY <1>2
  <2>2. Reach(graph[0], goalNode) \subseteq Node
    BY NeededNodes, GraphFields DEF Needed, TypeInv, GraphsOK
  <2>3. CASE "couldNotBuildAll" \in err
    BY <1>2, <2>1, <2>2, <2>3 DEF WakeInv, GivesUpOnlyIfBlocked
  <2>4. CASE CouldNotBuildAll
    BY <1>2, <2>1, <2>2, <2>4, BlockedOnly DEF Needed
  <2> QED BY <1>1, <2>3, <2>4 DEF Goes
<1>7. Looping' = Looping
  BY DEF Looping
<1> QED BY <1>3, <1>4, <1>5, <1>6, <1>7 DEF WakeInv

\* At first nothing is asked for, and every test has a build.
LEMMA WakeInit ==
  ASSUME Init, PairedBuild
  PROVE  WakeInv
<1>1. /\ newRequests = <<>> /\ requests = <<>> /\ priorityRequests = <<>> /\ results = <<>>
      /\ nodeToState = [n \in Node |-> Unprocessed] /\ wpc = [w \in Worker |-> "poll"]
      /\ pc = "start" /\ err = {} /\ flags = {}
  BY DEF Init
<1>2. Busy = {} /\ JobsIn(<<>>) = {}
  BY <1>1 DEF Busy, JobsIn
<1>3. AllJobs = {}
  BY <1>1, <1>2, JobsNow
<1>4. OrderInv /\ TypeInv
  BY OrderInit, InitInv DEF PairedBuild
<1>5. \A n \in Node : ~IsNodeProcessed(n) /\ ~IsNodeAvailable(n)
  BY <1>1 DEF IsNodeProcessed, IsNodeAvailable, Unprocessed
<1>6. graph[0].nodes \subseteq Node /\ goalNode \in Node /\ Started = {}
  BY <1>1, <1>4, GraphFields DEF TypeInv, GraphsOK, OrderInv, ReadyToStart
<1>7. OfOneKind
  BY <1>3 DEF OfOneKind
<1>8. BuildsTogether
  BY <1>3, <1>5, <1>6 DEF BuildsTogether
<1>9. TestsTogether
  BY <1>6 DEF TestsTogether, PairedBuild, SameKind
<1>10. NothingFailed /\ Stopping
  BY <1>1, <1>5, <1>6 DEF NothingFailed, Stopping
<1>11. Wakeful
  BY <1>1, <1>7, <1>8, <1>9, <1>10 DEF Wakeful
<1> QED BY <1>1, <1>11 DEF WakeInv, PairedBuild, GivesUpOnlyIfBlocked

\* "could not build all packages" is reported only when a build or a test failed, or
\* a dependency is left that nothing provides: what can be started is started, because
\* the result that makes its last dependency available is followed up, although the
\* nodes of an SRPM are requested together and a test may be requested with its build.
THEOREM NothingIsLeftBehind == Spec /\ PairedBuild => []GivesUpOnlyIfBlocked
<1>1. Init /\ PairedBuild => TypeInv /\ OrderInv /\ ActiveInv /\ WakeInv
  BY InitInv, OrderInit, WakeInit DEF PairedBuild
<1>2. TypeInv /\ OrderInv /\ ActiveInv /\ WakeInv /\ [Next]_vars
        => TypeInv' /\ OrderInv' /\ ActiveInv' /\ WakeInv'
  BY TypeStep, OrderStep, ActiveStep, WakeConvert, WakeMoves
<1>3. WakeInv => GivesUpOnlyIfBlocked
  BY DEF WakeInv
<1> QED BY <1>1, <1>2, <1>3, PTL DEF Spec
-----------------------------------------------------------------------------
(* The copies of an RPM.                                                   *)

\* A step leaves the file that a node names, wherever the copy is, and redirects only
\* run nodes of deltas.
NamesKept ==
    /\ graph'[0].nodes = graph[0].nodes
    /\ \A n \in graph[0].nodes :
          /\ attr'[n].type = attr[n].type /\ attr'[n].pkg = attr[n].pkg
          /\ attr'[n].rpm = NoRPM <=> attr[n].rpm = NoRPM
          /\ attr[n].rpm # NoRPM => attr'[n].rpm[1] = attr[n].rpm[1]
          /\ attr[n].type = "LocalBuild" \/ attr[n].state # "Delta" => attr'[n].rpm = attr[n].rpm
          /\ attr[n].type # "LocalBuild" /\ attr[n].rpm # NoRPM
                => (attr'[n].state = "Delta" <=> attr[n].state = "Delta")

\* Which copies setAssociatedDeltaPaths redirects.
LEMMA Redirected ==
  ASSUME TypeInv, OrderInv, SetAssociatedDeltaPaths
  PROVE  \E updated, rebuilt :
            /\ rebuilt = {n \in AllPreferredRunNodes(graph[0], attr) : BuiltInstead(n) # {}}
            /\ updated \subseteq {n \in rebuilt : attr[n].state = "Delta"}
            /\ attr' = [n \in Node |->
                            IF n \in updated
                            THEN [attr[n] EXCEPT !.rpm = CHOOSE f \in BuiltInstead(n) : TRUE]
                            ELSE attr[n]]
            /\ StrangeRunNodes(rebuilt) = {}
                  => (updated = {n \in rebuilt : attr[n].state = "Delta"} /\ err' = err)
            /\ StrangeRunNodes(rebuilt) # {} => (err' = {"deltaPaths"} /\ pc' = "stopBuild")
<1>1. G = graph[0]
  BY DEF OrderInv, Orderly, G, Current
<1> DEFINE rebuilt == {n \in AllPreferredRunNodes(G, attr) : BuiltInstead(n) # {}}
           deltas == {n \in rebuilt : attr[n].state = "Delta"}
<1>2. /\ \E updated \in (IF StrangeRunNodes(rebuilt) = {} THEN {deltas} ELSE SUBSET deltas) :
            attr' = [n \in Node |->
                            IF n \in updated
                            THEN [attr[n] EXCEPT !.rpm = CHOOSE f \in BuiltInstead(n) : TRUE]
                            ELSE attr[n]]
      /\ err' = IF StrangeRunNodes(rebuilt) = {} THEN err ELSE {"deltaPaths"}
      /\ StrangeRunNodes(rebuilt) # {} => pc' = "stopBuild"
  BY DEF SetAssociatedDeltaPaths
<1>3. PICK updated \in (IF StrangeRunNodes(rebuilt) = {} THEN {deltas} ELSE SUBSET deltas) :
            attr' = [n \in Node |->
                            IF n \in updated
                            THEN [attr[n] EXCEPT !.rpm = CHOOSE f \in BuiltInstead(n) : TRUE]
                            ELSE attr[n]]
  BY <1>2
<1>4. /\ updated \subseteq deltas
      /\ StrangeRunNodes(rebuilt) = {} => (updated = deltas /\ err' = err)
      /\ StrangeRunNodes(rebuilt) # {} => (err' = {"deltaPaths"} /\ pc' = "stopBuild")
  BY <1>2, <1>3
<1>5. rebuilt = {n \in AllPreferredRunNodes(graph[0], attr) : BuiltInstead(n) # {}}
  BY <1>1
<1>6. deltas = {n \in rebuilt : attr[n].state = "Delta"}
  OBVIOUS
<1> HIDE DEF rebuilt, deltas
<1> QED BY <1>3, <1>4, <1>5, <1>6, Zenon

\* What a node is redirected to is the same file.
LEMMA RedirectedNode ==
  ASSUME TypeInv, NEW n \in Node, BuiltInstead(n) # {}, NEW f, f = (CHOOSE g \in BuiltInstead(n) : TRUE)
  PROVE  /\ f \in result.built /\ f \in Path /\ f # NoRPM
         /\ attr[n].rpm # NoRPM /\ f[1] = attr[n].rpm[1]
<1>1. f \in BuiltInstead(n)
  OBVIOUS
<1>2. result \in Job
  BY DEF TypeInv, LoopOK, AcceptedJob
<1>3. result.built \subseteq Path
  BY <1>2 DEF Job
<1> QED BY <1>1, <1>3, SchedulerAssumption DEF BuiltInstead

\* Every step leaves the files that the nodes name.
LEMMA NamesKeptStep ==
  ASSUME TypeInv, OrderInv, FileInv, DeltasListed(graph[0], attr), [Next]_vars
  PROVE  NamesKept
<1>0. graph[0].nodes \subseteq Node /\ attr \in [Node -> PkgNode]
  BY GraphFields DEF TypeInv, GraphsOK
<1>1. graph'[0].nodes = graph[0].nodes /\ SameNodes(attr, attr')
  BY FieldsMove
<1>2. \A n \in graph[0].nodes : attr'[n].type = attr[n].type /\ attr'[n].pkg = attr[n].pkg
  BY <1>0, <1>1 DEF SameNodes
<1>3. CASE attr' = attr
  BY <1>1, <1>2, <1>3 DEF NamesKept
<1>4. CASE \E w \in Worker : SetAncillaryBuildNodesStatus(w)
  <2>1. PICK w \in Worker : SetAncillaryBuildNodesStatus(w)
    BY <1>4
  <2>2. ASSUME NEW n \in graph[0].nodes
        PROVE  /\ attr'[n].rpm = attr[n].rpm
               /\ attr[n].type # "LocalBuild" /\ attr[n].rpm # NoRPM
                    => (attr'[n].state = "Delta" <=> attr[n].state = "Delta")
    <3>1. \/ attr'[n] = attr[n]
          \/ /\ attr[n].type \in {"LocalBuild", "Test"}
             /\ \E s \in {"BuildError", "UpToDate"} : attr'[n] = [attr[n] EXCEPT !.state = s]
      BY <1>0, <2>1 DEF SetAncillaryBuildNodesStatus
    <3>2. attr[n] \in PkgNode
      BY <1>0
    <3>3. attr[n].type = "Test" /\ attr[n].rpm # NoRPM => attr[n].state # "Delta"
      BY DEF DeltasListed, SameFile, AllPreferredRunNodes
    <3>4. CASE attr'[n] = attr[n]
      BY <3>4
    <3>5. ASSUME attr[n].type \in {"LocalBuild", "Test"}, NEW s \in {"BuildError", "UpToDate"},
                 attr'[n] = [attr[n] EXCEPT !.state = s]
          PROVE  attr'[n].rpm = attr[n].rpm /\ attr'[n].state # "Delta"
      BY <3>2, <3>5 DEF PkgNode
    <3> QED BY <3>1, <3>3, <3>4, <3>5
  <2> QED BY <1>1, <1>2, <2>2 DEF NamesKept
<1>5. CASE SetAssociatedDeltaPaths
  <2>1. PICK updated :
            /\ \A n \in updated : /\ n \in AllPreferredRunNodes(graph[0], attr)
                                  /\ BuiltInstead(n) # {} /\ attr[n].state = "Delta"
            /\ attr' = [n \in Node |->
                            IF n \in updated
                            THEN [attr[n] EXCEPT !.rpm = CHOOSE f \in BuiltInstead(n) : TRUE]
                            ELSE attr[n]]
    BY <1>5, Redirected
  <2>2. ASSUME NEW n \in graph[0].nodes, n \in updated
        PROVE  /\ attr[n].rpm # NoRPM /\ attr'[n].rpm # NoRPM /\ attr'[n].rpm[1] = attr[n].rpm[1]
               /\ attr[n].type # "LocalBuild" /\ attr[n].state = "Delta" /\ attr'[n].state = attr[n].state
    <3>1. /\ attr[n] \in PkgNode /\ n \in Node
          /\ attr'[n] = [attr[n] EXCEPT !.rpm = CHOOSE f \in BuiltInstead(n) : TRUE]
      BY <1>0, <2>1, <2>2
    <3>2. attr'[n].rpm = (CHOOSE f \in BuiltInstead(n) : TRUE) /\ attr'[n].state = attr[n].state
      BY <3>1 DEF PkgNode
    <3>3. attr[n].type # "LocalBuild" /\ BuiltInstead(n) # {} /\ attr[n].state = "Delta"
      BY <2>1, <2>2 DEF AllPreferredRunNodes
    <3> QED BY <3>1, <3>2, <3>3, RedirectedNode
  <2>3. ASSUME NEW n \in graph[0].nodes, n \notin updated PROVE attr'[n] = attr[n]
    BY <1>0, <2>1, <2>3
  <2> QED BY <1>1, <1>2, <2>2, <2>3 DEF NamesKept
<1>6. attr' = attr \/ SetAssociatedDeltaPaths \/ \E w \in Worker : SetAncillaryBuildNodesStatus(w)
  <2>1. ConvertNodesToRequests => attr' = attr
    BY DEF ConvertNodesToRequests
  <2> QED BY <2>1, GraphCases, NothingInjected
<1> QED BY <1>3, <1>4, <1>5, <1>6

\* What setAssociatedDeltaPaths looks at stays what it has to look at.
LEMMA ListedStep ==
  ASSUME DeltasListed(graph[0], attr), NamesKept
  PROVE  DeltasListed(graph'[0], attr')
<1>1. graph'[0].nodes = graph[0].nodes
  BY DEF NamesKept
<1>2. \A n \in graph[0].nodes : attr'[n].type = attr[n].type /\ attr'[n].pkg = attr[n].pkg
  BY DEF NamesKept
<1>3. \A n \in AllPreferredRunNodes(graph[0], attr) : n \in AllPreferredRunNodes(graph'[0], attr')
  BY <1>1, <1>2 DEF AllPreferredRunNodes
<1> SUFFICES ASSUME NEW m \in graph[0].nodes, NEW n \in graph[0].nodes, SameFile(attr', m, n),
                    attr'[n].state = "Delta", attr'[m].type # "LocalBuild", attr'[n].type # "LocalBuild"
             PROVE  m \in AllPreferredRunNodes(graph'[0], attr')
  BY <1>1 DEF DeltasListed
<1>4. SameFile(attr, m, n)
  BY DEF SameFile, NamesKept
<1>5. attr[n].state = "Delta" /\ attr[m].type # "LocalBuild" /\ attr[n].type # "LocalBuild"
  BY <1>2, <1>4 DEF NamesKept, SameFile
<1> QED BY <1>3, <1>4, <1>5 DEF DeltasListed

\* Whether something was built once depends on nodes that are never redirected.
LEMMA BuiltOnceStays ==
  ASSUME NamesKept, NEW files, BuiltOnce(files, graph[0], attr)
  PROVE  BuiltOnce(files, graph'[0], attr')
<1>1. graph'[0].nodes = graph[0].nodes
  BY DEF NamesKept
<1> SUFFICES ASSUME NEW f1 \in files, NEW f2 \in files, NEW m \in graph[0].nodes,
                    attr'[m].type # "LocalBuild", attr'[m].state # "Delta", attr'[m].rpm # NoRPM,
                    f1[1] = attr'[m].rpm[1], f2[1] = attr'[m].rpm[1]
             PROVE  f1 = f2
  BY <1>1 DEF BuiltOnce
<1>2. /\ attr[m].type # "LocalBuild" /\ attr[m].rpm # NoRPM /\ attr[m].state # "Delta"
      /\ f1[1] = attr[m].rpm[1] /\ f2[1] = attr[m].rpm[1]
  BY DEF NamesKept
<1> QED BY <1>2 DEF BuiltOnce

\* Redirecting the run nodes of deltas keeps one copy of each file, unless the sanity
\* check fails: a node that names the file and is no delta names what was built.
LEMMA NamedStep ==
  ASSUME TypeInv, OrderInv, FileInv, DeltasListed(graph[0], attr), [Next]_vars,
         OneCopyNamed(graph[0], attr), BuiltOnce(result.built, graph[0], attr),
         "deltaPaths" \notin err'
  PROVE  OneCopyNamed(graph'[0], attr')
<1>0. graph[0].nodes \subseteq Node /\ attr \in [Node -> PkgNode]
  BY GraphFields DEF TypeInv, GraphsOK
<1>1. NamesKept
  BY NamesKeptStep
<1>2. graph'[0].nodes = graph[0].nodes
  BY <1>1 DEF NamesKept
<1> SUFFICES ASSUME NEW m \in graph[0].nodes, NEW n \in graph[0].nodes, SameFile(attr', m, n),
                    attr'[m].type # "LocalBuild",
                    attr'[m].state # "Delta" \/ attr'[n].type # "LocalBuild"
             PROVE  attr'[m].rpm = attr'[n].rpm
  BY <1>2 DEF OneCopyNamed
<1>3. SameFile(attr, m, n)
  BY <1>1 DEF SameFile, NamesKept
<1>4. attr[m].type # "LocalBuild" /\ (attr[m].state # "Delta" \/ attr[n].type # "LocalBuild")
  BY <1>1, <1>3 DEF SameFile, NamesKept
<1>5. attr[m].rpm = attr[n].rpm
  BY <1>3, <1>4 DEF OneCopyNamed
<1>6. CASE attr'[m].rpm = attr[m].rpm /\ attr'[n].rpm = attr[n].rpm
  BY <1>5, <1>6
<1>7. CASE SetAssociatedDeltaPaths
  <2>1. PICK updated, rebuilt :
            /\ rebuilt = {k \in AllPreferredRunNodes(graph[0], attr) : BuiltInstead(k) # {}}
            /\ updated \subseteq {k \in rebuilt : attr[k].state = "Delta"}
            /\ attr' = [k \in Node |->
                            IF k \in updated
                            THEN [attr[k] EXCEPT !.rpm = CHOOSE f \in BuiltInstead(k) : TRUE]
                            ELSE attr[k]]
            /\ StrangeRunNodes(rebuilt) = {}
                  => (updated = {k \in rebuilt : attr[k].state = "Delta"} /\ err' = err)
            /\ StrangeRunNodes(rebuilt) # {} => (err' = {"deltaPaths"} /\ pc' = "stopBuild")
    BY <1>7, Redirected
  <2>2. StrangeRunNodes(rebuilt) = {} /\ updated = {k \in rebuilt : attr[k].state = "Delta"}
    BY <2>1
  <2>3. BuiltInstead(m) = BuiltInstead(n)
    BY <1>3 DEF BuiltInstead, SameFile
  <2>4. ASSUME NEW k \in graph[0].nodes
        PROVE  /\ k \in updated => (attr'[k].rpm = (CHOOSE f \in BuiltInstead(k) : TRUE))
               /\ k \notin updated => attr'[k].rpm = attr[k].rpm
    <3>1. attr[k] \in PkgNode /\ k \in Node
      BY <1>0
    <3> QED BY <2>1, <3>1 DEF PkgNode
  <2>5. CASE m \in updated /\ n \in updated
    BY <2>3, <2>4, <2>5
  <2>6. CASE m \notin updated /\ n \notin updated
    BY <1>5, <2>4, <2>6
  <2>7. ASSUME NEW d \in graph[0].nodes, NEW k \in graph[0].nodes, d \in updated, k \notin updated,
               k = m \/ k = n, d = m \/ d = n
        PROVE  attr'[d].rpm = attr'[k].rpm
    <3>1. /\ attr[d].state = "Delta" /\ attr[d].type # "LocalBuild" /\ SameFile(attr, k, d)
          /\ BuiltInstead(d) # {} /\ BuiltInstead(k) = BuiltInstead(d) /\ attr[k].rpm = attr[d].rpm
      BY <1>3, <1>5, <2>2, <2>1, <2>3, <2>7 DEF AllPreferredRunNodes, SameFile
    <3>2. attr[k].type # "LocalBuild"
      BY <1>4, <2>7, <3>1
    <3>3. k \in rebuilt
      BY <2>1, <3>1, <3>2 DEF DeltasListed
    <3>4. attr[k].state # "Delta"
      BY <2>2, <2>7, <3>3
    <3>5. ~IsImplicit(attr, k)
      BY DEF OrderInv, Orderly, OrderlyBuild, OrderlyGraph
    <3>6. attr[k].rpm \in BuiltInstead(k)
      BY <2>2, <3>3, <3>4, <3>5 DEF StrangeRunNodes
    <3>7. (CHOOSE f \in BuiltInstead(d) : TRUE) \in BuiltInstead(d)
      BY <3>1
    <3>8. (CHOOSE f \in BuiltInstead(d) : TRUE) = attr[k].rpm
      BY <3>1, <3>2, <3>4, <3>6, <3>7 DEF BuiltInstead, BuiltOnce
    <3> QED BY <2>4, <2>7, <3>8
  <2> QED BY <2>5, <2>6, <2>7
<1>8. (attr'[m].rpm = attr[m].rpm /\ attr'[n].rpm = attr[n].rpm) \/ SetAssociatedDeltaPaths
  <2>1. ASSUME NEW w \in Worker, SetAncillaryBuildNodesStatus(w), NEW k \in graph[0].nodes
        PROVE  attr'[k].rpm = attr[k].rpm
    <3>1. attr'[k] = attr[k] \/ \E s : attr'[k] = [attr[k] EXCEPT !.state = s]
      BY <1>0, <2>1 DEF SetAncillaryBuildNodesStatus
    <3>2. attr[k] \in PkgNode
      BY <1>0
    <3> QED BY <3>1, <3>2 DEF PkgNode
  <2>2. ConvertNodesToRequests => attr' = attr
    BY DEF ConvertNodesToRequests
  <2> QED BY <2>1, <2>2, GraphCases, NothingInjected
<1> QED BY <1>6, <1>7, <1>8

\* A worker builds into one directory, or names what the graph names.
LEMMA WorkBuiltOnce ==
  ASSUME TypeInv, OrderInv, FileInv, OneCopyNamed(graph[0], attr), NEW w \in Worker, Working(w),
         job[w] \in AllJobs, BuiltOnce(job[w].built, graph[0], attr)
  PROVE  BuiltOnce(job'[w].built, graph[0], attr)
<1>0. job \in [Worker -> AcceptedJob] /\ job[w] \in Job
  BY DEF TypeInv, WorkersOK, AcceptedJob
<1>1. CASE job'[w].built = job[w].built
  BY <1>1
<1>2. CASE UseCached(w)
  <2>1. job[w].graph = 0
    BY DEF FileInv, Filed
  <2>2. job'[w].built = RPMsOf(graph[0], attr, attr[job[w].node].srpm) \/ job'[w].built = job[w].built
    BY <1>0, <1>2, <2>1 DEF UseCached, Job
  <2>3. ASSUME NEW s PROVE BuiltOnce(RPMsOf(graph[0], attr, s), graph[0], attr)
    <3> SUFFICES ASSUME NEW f1 \in RPMsOf(graph[0], attr, s), NEW f2 \in RPMsOf(graph[0], attr, s),
                        NEW m \in graph[0].nodes, attr[m].type # "LocalBuild", attr[m].state # "Delta",
                        attr[m].rpm # NoRPM, f1[1] = attr[m].rpm[1], f2[1] = attr[m].rpm[1]
                 PROVE  f1 = f2
      BY DEF BuiltOnce
    <3>1. ASSUME NEW f \in RPMsOf(graph[0], attr, s), f[1] = attr[m].rpm[1] PROVE f = attr[m].rpm
      <4>1. PICK n \in graph[0].nodes : f = attr[n].rpm /\ f # NoRPM
        BY <3>1 DEF RPMsOf
      <4> QED BY <3>1, <4>1 DEF OneCopyNamed, SameFile
    <3> QED BY <3>1
  <2> QED BY <1>1, <2>2, <2>3
<1>3. CASE BuildSRPMFile(w)
  <2>1. \/ job'[w].built = {<<r, "out">> : r \in RpmsBuiltBy[attr[job[w].node].srpm]}
        \/ job'[w].built = job[w].built
    BY <1>0, <1>3 DEF BuildSRPMFile, Job
  <2>2. ASSUME NEW R PROVE BuiltOnce({<<r, "out">> : r \in R}, graph[0], attr)
    BY DEF BuiltOnce
  <2> QED BY <1>1, <2>1, <2>2
<1>4. CASE PassThrough(w) \/ SkipIgnored(w) \/ TestSRPMFile(w)
  <2>1. job'[w].built = job[w].built
    BY <1>0, <1>4 DEF PassThrough, SkipIgnored, TestSRPMFile, KeepWork, Job
  <2> QED BY <1>1, <2>1
<1> QED BY <1>2, <1>3, <1>4 DEF Working

\* A request has built nothing yet.
LEMMA NothingBuiltYet ==
  ASSUME ConvertNodesToRequests, NEW j \in JobsIn(newRequests')
  PROVE  j.built = {}
<1>1. PICK first \in Choices(Groups("LocalBuild")), last \in Choices(Groups("LocalBuild")),
           firstTest \in Choices(Groups("Test")) :
        LET tested   == TestedGroups(first)
            pruned   == RemoveEdges(G, {<<PartnerTest(G, b), b>> : b \in UNION tested})
            builds   == {BuildGroupRequest(first, gr) : gr \in NewBuildGroups(first)}
            partners == {PartnerRequest(pruned, first, last, gr) :
                            gr \in ReadyPartners(pruned, tested, last)}
            tests    == {TestGroupRequest(pruned, firstTest, gr) :
                            gr \in NewTestGroups(firstTest)}
        IN  \E q \in Orders(OtherRequests \cup builds \cup partners \cup tests) : newRequests' = q
  BY Zenon DEF ConvertNodesToRequests
<1> DEFINE tested   == TestedGroups(first)
           pruned   == RemoveEdges(G, {<<PartnerTest(G, b), b>> : b \in UNION tested})
           builds   == {BuildGroupRequest(first, gr) : gr \in NewBuildGroups(first)}
           partners == {PartnerRequest(pruned, first, last, gr) :
                            gr \in ReadyPartners(pruned, tested, last)}
           tests    == {TestGroupRequest(pruned, firstTest, gr) :
                            gr \in NewTestGroups(firstTest)}
<1>2. PICK q \in Orders(OtherRequests \cup builds \cup partners \cup tests) : newRequests' = q
  BY <1>1, Zenon
<1>3. j \in OtherRequests \cup builds \cup partners \cup tests
  BY <1>2 DEF Orders, JobsIn
<1>4. CASE j \in OtherRequests
  BY <1>4 DEF OtherRequests, BuildRequest
<1>5. CASE j \in builds
  BY <1>5 DEF BuildGroupRequest, BuildRequest
<1> HIDE DEF pruned, tested
<1>6. CASE j \in partners
  <2>1. \E gr \in ReadyPartners(pruned, tested, last) : j = PartnerRequest(pruned, first, last, gr)
    BY <1>6
  <2> QED BY <2>1 DEF PartnerRequest, BuildRequest
<1>7. CASE j \in tests
  <2>1. \E gr \in NewTestGroups(firstTest) : j = TestGroupRequest(pruned, firstTest, gr)
    BY <1>7
  <2> QED BY <2>1 DEF TestGroupRequest, BuildRequest
<1> QED BY <1>3, <1>4, <1>5, <1>6, <1>7

\* The error of the sanity check comes from it, and stays.
LEMMA MismatchStays ==
  ASSUME TypeInv, OrderInv, [Next]_vars, "deltaPaths" \in err => pc \in {"stopBuild"} \cup Closing
  PROVE  /\ "deltaPaths" \in err => "deltaPaths" \in err'
         /\ "deltaPaths" \in err' => pc' \in {"stopBuild"} \cup Closing
<1> USE DEF Closing, stateVars
<1>1. CASE UNCHANGED vars
  BY <1>1 DEF vars, schedVars
<1>2. CASE StartAtLeaves
  BY <1>2 DEF StartAtLeaves
<1>3. CASE ConvertNodesToRequests
  BY <1>3 DEF ConvertNodesToRequests
<1>4. CASE ConvertPanics
  BY <1>4 DEF ConvertPanics
<1>5. CASE SubmitRequest
  BY <1>5 DEF SubmitRequest
<1>6. CASE EnableCachedImplicit
  BY <1>6 DEF EnableCachedImplicit, NothingOutstanding
<1>7. CASE CouldNotBuildAll
  BY <1>7 DEF CouldNotBuildAll, NothingOutstanding
<1>8. CASE LicenseCheckerFails
  BY <1>8 DEF LicenseCheckerFails
<1>9. CASE ReceiveResult
  <2>1. "deltaPaths" \notin err' /\ pc = "submit"
    BY <1>9 DEF ReceiveResult, RecordBuildResult
  <2> QED BY <2>1
<1>10. CASE SetAssociatedDeltaPaths
  <2>1. pc = "delta" /\ (err' = err \/ (err' = {"deltaPaths"} /\ pc' = "stopBuild"))
    BY <1>10 DEF SetAssociatedDeltaPaths
  <2> QED BY <2>1
<1>11. CASE FinishFile
  BY <1>11 DEF FinishFile, GraphFails
<1>12. CASE FinishInject
  BY <1>12 DEF FinishInject
<1>13. CASE Advance
  BY <1>13 DEF Advance
<1>14. CASE StopBuild
  BY <1>14 DEF StopBuild, CloseChannel
<1>15. CASE DoneBuild \/ CloseRequests \/ ClosePriority
  BY <1>15 DEF DoneBuild, CloseRequests, ClosePriority, CloseChannel
<1>16. CASE DrainPriority
  BY <1>16 DEF DrainPriority
<1>17. CASE DrainRequests
  BY <1>17 DEF DrainRequests, PostBuildErrors
<1>18. ASSUME NEW w \in Worker, WorkerStep(w) PROVE UNCHANGED <<err, pc>>
  BY <1>18, WorkerKeepsScheduler DEF KeepScheduler, schedVars
<1>19. CASE Finished
  BY <1>1, <1>19 DEF Finished
<1>20. CASE SchedulerStep
  BY <1>2, <1>3, <1>4, <1>5, <1>6, <1>7, <1>8, <1>9, <1>10, <1>11, <1>12, <1>13, <1>14, <1>15, <1>16,
     <1>17, <1>20, NothingInjected, Zenon DEF SchedulerStep
<1> QED BY <1>1, <1>18, <1>19, <1>20 DEF Next

\* What a worker installs names one copy of each file.
LEMMA InstalledStep ==
  ASSUME TypeInv, OrderInv, FileInv, OneCopyNamed(graph[0], attr), OneCopyInstalled, [Next]_vars
  PROVE  OneCopyInstalled'
<1>1. ASSUME NEW w \in Worker, wpc'[w] = "build", NEW f1 \in installs'[w], NEW f2 \in installs'[w],
             f1[1] = f2[1]
      PROVE  f1 = f2
  <2>1. CASE StartBuild(w)
    <3>1. job[w] \in AllJobs
      BY <2>1, JobsNow DEF StartBuild, WorkerAt, Busy
    <3>2. job[w].node \in graph[0].nodes /\ job[w].node \in Started /\ job[w].graph = 0
      BY <3>1, JobsForNodes DEF Started, FileInv, Filed
    <3>3. installs'[w] = BuildDependencies(graph[0], job[w].node)
      BY <2>1, <3>2 DEF StartBuild, TypeInv, WorkersOK
    <3>4. PICK m \in graph[0].nodes : attr[m].type # "LocalBuild" /\ attr[m].rpm = f1 /\ f1 # NoRPM
      BY <1>1, <3>2, <3>3, DependenciesNamed
    <3>5. PICK n \in graph[0].nodes : attr[n].type # "LocalBuild" /\ attr[n].rpm = f2 /\ f2 # NoRPM
      BY <1>1, <3>2, <3>3, DependenciesNamed
    <3> QED BY <1>1, <3>4, <3>5 DEF OneCopyNamed, SameFile
  <2>2. CASE wpc[w] = "build" /\ installs'[w] = installs[w]
    BY <1>1, <2>2 DEF OneCopyInstalled
  <2> QED BY <1>1, <2>1, <2>2, InstallsChange
<1> QED BY <1>1 DEF OneCopyInstalled

\* The step of the invariant of copies.
LEMMA CopyStep ==
  ASSUME TypeInv, OrderInv, FileInv, CopyInv, [Next]_vars
  PROVE  CopyInv'
<1>1. NamesKept
  BY NamesKeptStep DEF CopyInv
<1>2. DeltasListed(graph[0], attr)'
  <2>1. DeltasListed(graph'[0], attr')
    BY <1>1, ListedStep DEF CopyInv
  <2> QED BY <2>1 DEF DeltasListed, SameFile, AllPreferredRunNodes
<1>3. /\ "deltaPaths" \in err => "deltaPaths" \in err'
      /\ "deltaPaths" \in err' => pc' \in {"stopBuild"} \cup Closing
  BY MismatchStays DEF CopyInv
<1>4. ASSUME "deltaPaths" \notin err'
      PROVE  /\ OneCopyNamed(graph[0], attr)'
             /\ \A j \in AllJobs' : BuiltOnce(j.built, graph'[0], attr')
             /\ BuiltOnce(result'.built, graph'[0], attr')
             /\ OneCopyInstalled'
  <2>1. /\ OneCopyNamed(graph[0], attr) /\ OneCopyInstalled
        /\ \A j \in AllJobs : BuiltOnce(j.built, graph[0], attr)
        /\ BuiltOnce(result.built, graph[0], attr)
    BY <1>3, <1>4 DEF CopyInv
  <2>2. OneCopyNamed(graph[0], attr)'
    <3>1. OneCopyNamed(graph'[0], attr')
      BY <1>4, <2>1, NamedStep DEF CopyInv
    <3> QED BY <3>1 DEF OneCopyNamed, SameFile
  <2>3. \A j \in AllJobs : BuiltOnce(j.built, graph'[0], attr')
    BY <1>1, <2>1, BuiltOnceStays
  <2>4. \A j \in AllJobs' : BuiltOnce(j.built, graph'[0], attr')
    <3>1. CASE ConvertNodesToRequests
      <4>1. UNCHANGED <<requests, priorityRequests, results, job, wpc>>
        BY <3>1 DEF ConvertNodesToRequests, chanVars, workerVars
      <4>2. Busy' = Busy
        BY <4>1 DEF Busy
      <4>3. AllJobs' \subseteq AllJobs \cup JobsIn(newRequests')
        BY <4>1, <4>2, JobsNow
      <4>4. \A j \in JobsIn(newRequests') : BuiltOnce(j.built, graph'[0], attr')
        BY <3>1, NothingBuiltYet DEF BuiltOnce
      <4> QED BY <2>3, <4>3, <4>4
    <3>2. CASE ~ConvertNodesToRequests
      <4>1. ASSUME NEW w \in Worker, Working(w), job[w] \in AllJobs
            PROVE  BuiltOnce(job'[w].built, graph'[0], attr')
        BY <1>1, <2>1, <4>1, WorkBuiltOnce, BuiltOnceStays
      <4> QED BY <2>3, <3>2, <4>1, JobsMove
    <3> QED BY <3>1, <3>2
  <2>5. BuiltOnce(result'.built, graph'[0], attr')
    <3>1. CASE result' = result
      BY <1>1, <2>1, <3>1, BuiltOnceStays
    <3>2. CASE LicenseCheckerFails \/ ReceiveResult
      <4>1. results # <<>> /\ result' = Head(results)
        BY <3>2 DEF LicenseCheckerFails, ReceiveResult
      <4> QED BY <2>3, <4>1, ResultEnded
    <3>3. Quiet => result' = result
      BY DEF Quiet
    <3>4. SubmitRequest \/ DrainPriority \/ DrainRequests => result' = result
      BY DEF SubmitRequest, DrainPriority, DrainRequests
    <3>5. ASSUME NEW w \in Worker, WorkerStep(w) PROVE result' = result
      BY <3>5, WorkerKeepsScheduler DEF KeepScheduler, schedVars
    <3> QED BY <3>1, <3>2, <3>3, <3>4, <3>5, MovingSteps
  <2>6. OneCopyInstalled'
    BY <2>1, InstalledStep
  <2> QED BY <2>2, <2>4, <2>5, <2>6
<1>5. Closing' = Closing
  BY DEF Closing
<1>6. ("deltaPaths" \notin err =>
          /\ OneCopyNamed(graph[0], attr)
          /\ \A j \in AllJobs : BuiltOnce(j.built, graph[0], attr)
          /\ BuiltOnce(result.built, graph[0], attr)
          /\ OneCopyInstalled)'
  BY <1>4 DEF BuiltOnce
<1> QED BY <1>2, <1>3, <1>5, <1>6 DEF CopyInv

\* At first nothing is built or installed.
LEMMA CopyInit ==
  ASSUME Init, CopiesBuild
  PROVE  CopyInv
<1>1. /\ newRequests = <<>> /\ requests = <<>> /\ priorityRequests = <<>> /\ results = <<>>
      /\ result = NoJob /\ wpc = [w \in Worker |-> "poll"] /\ err = {}
  BY DEF Init
<1>2. AllJobs = {}
  BY <1>1 DEF AllJobs, Outstanding, JobsIn, Busy
<1>3. BuiltOnce(result.built, graph[0], attr)
  BY <1>1 DEF NoJob, BuiltOnce
<1>4. OneCopyInstalled
  BY <1>1 DEF OneCopyInstalled
<1> QED BY <1>1, <1>2, <1>3, <1>4 DEF CopyInv, CopiesBuild

\* A package is never built with two copies of one RPM, the cached one and the rebuilt
\* one, unless the sanity check of setAssociatedDeltaPaths has failed: when the RPMs of
\* a delta are built, every node that is installed from one of them is redirected
\* together, or names the built RPM already.
THEOREM CopiesDoNotMix ==
  Spec /\ CopiesBuild => []("deltaPaths" \notin err => OneCopyInstalled)
<1>1. Init /\ CopiesBuild => CopyInv
  BY CopyInit
<1>2. Spec /\ CopiesBuild => [](TypeInv /\ OrderInv /\ FileInv)
  BY FilesHold DEF CopiesBuild
<1>3. TypeInv /\ OrderInv /\ FileInv /\ CopyInv /\ [Next]_vars => CopyInv'
  BY CopyStep
<1>4. CopyInv => ("deltaPaths" \notin err => OneCopyInstalled)
  BY DEF CopyInv
<1> QED BY <1>1, <1>2, <1>3, <1>4, PTL DEF Spec
=============================================================================
