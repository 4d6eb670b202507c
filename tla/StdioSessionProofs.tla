-------------------------- MODULE StdioSessionProofs --------------------------
(***************************************************************************)
(* What holds of StdioSession for every number of requests.                *)
(***************************************************************************)
EXTENDS StdioSession, TLAPS

Line == [id : 0..MaxRequests, kind : {"ok", "retry", "refused", "error"}] \cup {Broken}

LEMMA Bounds ==
    /\ MaxRequests \in Nat /\ Id \subseteq Nat /\ \A k : k \in Id <=> k \in 1..MaxRequests
    /\ \A l \in Line : l.id > 0 => l.id \in Id /\ l.kind \in {"ok", "retry", "refused", "error"}
BY RequestsAssumption DEF Id, Line, Broken

\* What is left of a sequence keeps its order.
LEMMA Removed ==
    ASSUME NEW S, NEW s \in Seq(S), NEW i \in DOMAIN s
    PROVE  /\ RemoveAt(s, i) \in Seq(S)
           /\ Len(RemoveAt(s, i)) = Len(s) - 1
           /\ \A j \in DOMAIN RemoveAt(s, i) :
                 /\ j \in DOMAIN s /\ j + 1 \in DOMAIN s
                 /\ RemoveAt(s, i)[j] = IF j < i THEN s[j] ELSE s[j + 1]
<1> DEFINE a == SubSeq(s, 1, i - 1)
           b == SubSeq(s, i + 1, Len(s))
<1>1. i \in 1..Len(s) /\ Len(s) \in Nat /\ \A j \in 1..Len(s) : s[j] \in S
  OBVIOUS
<1>2. a \in Seq(S) /\ Len(a) = i - 1 /\ \A j \in 1..(i - 1) : a[j] = s[j]
  BY <1>1
<1>3. b \in Seq(S) /\ Len(b) = Len(s) - i /\ \A j \in 1..(Len(s) - i) : b[j] = s[i + j]
  BY <1>1
<1>4. RemoveAt(s, i) = a \o b
  BY DEF RemoveAt
<1> HIDE DEF a, b
<1>5. /\ a \o b \in Seq(S) /\ Len(a \o b) = Len(s) - 1
      /\ \A j \in 1..(Len(s) - 1) : (a \o b)[j] = IF j < i THEN a[j] ELSE b[j - (i - 1)]
  <2>1. Len(a) = i - 1 /\ Len(b) = Len(s) - i /\ Len(a) + Len(b) = Len(s) - 1
    BY <1>1, <1>2, <1>3
  <2>2. /\ a \o b \in Seq(S) /\ Len(a \o b) = Len(a) + Len(b)
        /\ \A j \in 1..(Len(a) + Len(b)) : (a \o b)[j] = IF j <= Len(a) THEN a[j] ELSE b[j - Len(a)]
    BY SMTT(30), <1>2, <1>3
  <2>3. \A j \in 1..(Len(s) - 1) : j <= i - 1 <=> j < i
    BY <1>1
  <2>4. QED
    BY <2>1, <2>2, <2>3
<1>6. \A j \in 1..(Len(s) - 1) : (a \o b)[j] = IF j < i THEN s[j] ELSE s[j + 1]
  <2> TAKE j \in 1..(Len(s) - 1)
  <2>1. CASE j < i
    BY <2>1, <1>1, <1>2, <1>5
  <2>2. CASE ~(j < i)
    <3>1. j - (i - 1) \in 1..(Len(s) - i) /\ i + (j - (i - 1)) = j + 1
      BY <1>1, <2>2
    <3>2. QED
      BY <3>1, <2>2, <1>3, <1>5
  <2>3. QED
    BY <2>1, <2>2
<1>7. DOMAIN RemoveAt(s, i) = 1..(Len(s) - 1) /\ DOMAIN s = 1..Len(s)
  BY <1>4, <1>5
<1>8. \A j \in 1..(Len(s) - 1) : j \in 1..Len(s) /\ j + 1 \in 1..Len(s)
  BY <1>1
<1>9. QED
  BY <1>4, <1>5, <1>6, <1>7, <1>8

LEMMA InitIInv == Init => IInv
<1> SUFFICES ASSUME Init PROVE IInv
  OBVIOUS
<1> USE DEF Init
<1>1. TypeOK
  <2>1. stage \in {"initialize", "discover"} /\ era \in {"modern", "legacy"}
    OBVIOUS
  <2>2. /\ last \in 0..MaxRequests /\ stdin \in Seq(0..MaxRequests)
        /\ stdout \in Seq(Line)
    BY RequestsAssumption
  <2>3. QED
    BY <2>1, <2>2 DEF TypeOK, SessionTypeOK, Line
<1>2. WireInv /\ OpenInv /\ CloseInv /\ OwnAnswer /\ CleanMeansWhole
  BY Bounds DEF WireInv, OpenInv, CloseInv, OwnAnswer, CleanMeansWhole
<1>3. QED
  BY <1>1, <1>2 DEF IInv

\* The teardown knows what it did not see: no phase calls clean what is not.
LEMMA CloseStep ==
    ASSUME IInv, Next
    PROVE  CloseInv' /\ CleanMeansWhole'
<1>0. CloseInv /\ CleanMeansWhole /\ TypeOK
  BY DEF IInv
<1> USE <1>0 DEF CloseInv, CleanMeansWhole, TypeOK, SessionTypeOK, openVars, callVars, wireVars, pumpVars, closeVars
<1>1. CASE Begin
  BY <1>1 DEF Begin
<1>2. CASE WriteLine
  BY <1>2 DEF WriteLine
<1>3. ASSUME NEW kind, Conclude(kind), stage \notin {"closing", "over"} PROVE CloseInv' /\ CleanMeansWhole'
  BY <1>3 DEF Conclude, FailStartup, FallsBack
<1>4. CASE WriteFails \/ ReadLine \/ ReadEof \/ TimesOut
  <2>1. call # "none" /\ \E kind : Conclude(kind)
    BY <1>4 DEF WriteFails, ReadLine, ReadEof, TimesOut
  <2>2. stage \notin {"closing", "over"}
    BY <2>1 DEF IInv, OpenInv
  <2>3. QED
    BY <2>1, <2>2, <1>3
<1>5. CASE Announce
  BY <1>5 DEF Announce, FailStartup
<1>6. CASE Serve
  BY <1>6 DEF Serve
<1>7. CASE ChildExits \/ PipeCloses
  <2>1. CASE ChildExits
    <3>1. /\ child \in {"alive", "killed"}
          /\ UNCHANGED <<openVars, pumpVars, closeVars>>
      BY <2>1 DEF ChildExits
    <3>2. QED
      BY <3>1
  <2>2. CASE PipeCloses
    BY <2>2 DEF PipeCloses
  <2>3. QED
    BY <1>7, <2>1, <2>2
<1>8. CASE PumpEnds \/ PumpFails
  BY <1>8 DEF PumpEnds, PumpFails
<1>9. CASE BeginShutdown
  BY <1>9 DEF BeginShutdown
<1>10. CASE stage = "closing" /\ (GracefulPhase \/ ForcedPhase)
  BY <1>10 DEF GracefulPhase, ForcedPhase, Reap
<1>11. CASE stage = "closing" /\ PumpPhase
  BY <1>11 DEF PumpPhase, PumpJoined
<1>12. CASE stage = "closing" /\ ShutdownReturns
  BY <1>12 DEF ShutdownReturns
<1>13. CASE Dropped
  BY <1>13 DEF Dropped
<1>14. QED
  BY <1>1, <1>2, <1>4, <1>5, <1>6, <1>7, <1>8, <1>9, <1>10, <1>11, <1>12, <1>13
     DEF Next, Client, Server, Closing

Answers == {"ok", "retry", "refused", "error"}
EndsRequest == WriteFails \/ ReadLine \/ ReadEof \/ TimesOut

\* A request ends as the server answered it, or with an error of the client's own.
LEMMA EndOfRequest ==
    ASSUME IInv, EndsRequest
    PROVE  /\ \E kind \in Answers \cup {"stale", "broken", "timeout"} :
                 Conclude(kind) /\ (kind \in Answers => kind = answered[last])
           /\ call # "none" /\ stage \in {"discover", "retry", "initialize", "ready"}
           /\ last > 0 /\ last \in Id /\ method[last] = MethodAt(stage) /\ answered' = answered
<1>0. WireInv /\ OpenInv /\ TypeOK
  BY DEF IInv
<1>1. call # "none" /\ answered' = answered
  BY DEF EndsRequest, WriteFails, ReadLine, ReadEof, TimesOut, wireVars
<1>2. /\ stage \in {"discover", "retry", "initialize", "ready"}
      /\ last > 0 /\ last \in Id /\ method[last] = MethodAt(stage)
  BY <1>0, <1>1, Bounds DEF OpenInv, TypeOK, SessionTypeOK, Id
<1>3. WriteFails \/ ReadEof => Conclude("broken")
  BY DEF WriteFails, ReadEof
<1>4. TimesOut => Conclude("timeout")
  BY DEF TimesOut
<1>5. ReadLine => \E kind \in Answers \cup {"stale", "broken"} :
                     Conclude(kind) /\ (kind \in Answers => kind = answered[last])
  <2> SUFFICES ASSUME ReadLine
               PROVE  \E kind \in Answers \cup {"stale", "broken"} :
                         Conclude(kind) /\ (kind \in Answers => kind = answered[last])
    OBVIOUS
  <2> DEFINE line == Head(stdout)
             kind == IF halfRead \/ line.id < 1 THEN "broken"
                     ELSE IF line.id # last THEN "stale" ELSE line.kind
  <2>1. Conclude(kind) /\ stdout # <<>>
    BY DEF ReadLine
  <2>2. line \in Line /\ line = stdout[1] /\ 1 \in DOMAIN stdout
    BY <2>1, <1>0 DEF TypeOK, SessionTypeOK, Line
  <2>3. kind \in Answers \cup {"stale", "broken"}
    BY <2>2, Bounds DEF Answers, Line, Broken
  <2>4. kind \in Answers => kind = answered[last]
    <3>1. CASE kind \in {"stale", "broken"}
      BY <3>1 DEF Answers
    <3>2. CASE kind \notin {"stale", "broken"}
      BY <2>2, <3>2, <1>0, <1>2 DEF WireInv
    <3>3. QED
      BY <3>1, <3>2
  <2>5. QED
    BY <2>1, <2>3, <2>4
<1>6. QED
  BY <1>1, <1>2, <1>3, <1>4, <1>5 DEF EndsRequest, Answers

\* A session is only ready when the server answered what opens its era.
LEMMA OpenStep ==
    ASSUME IInv, Next
    PROVE  OpenInv'
<1>0. OpenInv /\ WireInv /\ TypeOK
  BY DEF IInv
<1> USE <1>0 DEF OpenInv, TypeOK, SessionTypeOK, openVars, callVars, wireVars, pumpVars, closeVars
<1>1. CASE Begin
  <2>1. /\ last' = last + 1 /\ last' \in Id /\ last \in Nat /\ call' = "writing"
        /\ method' = [method EXCEPT ![last'] = MethodAt(stage)]
        /\ stage \in {"discover", "retry", "initialize", "ready"}
        /\ UNCHANGED <<stage, era, answered, announced>>
    <3>1. /\ last' = last + 1 /\ last \in Nat /\ last < MaxRequests /\ call' = "writing"
          /\ stage \in {"discover", "retry", "initialize", "ready"}
          /\ UNCHANGED <<stage, era, answered, announced>>
      BY <1>1, RequestsAssumption DEF Begin
    <3>2. last' \in Id
      BY <3>1, RequestsAssumption DEF Id
    <3>3. method' = [method EXCEPT ![last'] = MethodAt(stage)]
      <4>1. CASE stage = "ready"
        BY <1>1, <4>1 DEF Begin, MethodAt
      <4>2. CASE stage = "initialize"
        BY <1>1, <4>2 DEF Begin, MethodAt
      <4>3. CASE stage \in {"discover", "retry"}
        BY <1>1, <4>3 DEF Begin, MethodAt
      <4>4. QED
        BY <3>1, <4>1, <4>2, <4>3
    <3>4. QED
      BY <3>1, <3>2, <3>3
  <2>2. (Initialized => Initialized') /\ (Discovered => Discovered')
    <3>1. \A k \in 1..last : k \in 1..last' /\ k # last' /\ k \in Id
      BY <2>1, RequestsAssumption DEF Id
    <3>2. \A k \in 1..last : method'[k] = method[k] /\ answered'[k] = answered[k]
      BY <2>1, <3>1
    <3>3. QED
      BY <3>1, <3>2 DEF Initialized, Discovered
  <2>3. last' > 0 /\ method'[last'] = MethodAt(stage')
    BY <2>1
  <2>4. QED
    BY <2>1, <2>2, <2>3
<1>2. CASE WriteLine
  BY <1>2 DEF WriteLine, Initialized, Discovered
<1>3. CASE EndsRequest
  <2>1. PICK kind \in Answers \cup {"stale", "broken", "timeout"} :
           Conclude(kind) /\ (kind \in Answers => kind = answered[last])
    BY <1>3, EndOfRequest
  <2>2. /\ last > 0 /\ last \in Id /\ method[last] = MethodAt(stage) /\ answered' = answered
        /\ stage \in {"discover", "retry", "initialize", "ready"} /\ last \in 1..last
    BY <1>3, EndOfRequest, RequestsAssumption DEF Id
  <2>3. call' = "none" /\ UNCHANGED <<announced, last, method>>
    BY <2>1 DEF Conclude
  <2>4. Initialized' = Initialized /\ Discovered' = Discovered
    BY <2>2, <2>3 DEF Initialized, Discovered
  <2>5. kind = "ok" /\ stage \in {"discover", "retry"} => Discovered
    BY <2>1, <2>2 DEF Discovered, MethodAt, Answers
  <2>6. kind = "ok" /\ stage = "initialize" => Initialized
    BY <2>1, <2>2 DEF Initialized, MethodAt, Answers
  <2>7. CASE stage = "ready"
    BY <2>1, <2>2, <2>3, <2>4, <2>7 DEF Conclude
  <2>8. CASE stage \in {"discover", "retry"}
    <3>1. era = "modern"
      BY <2>8
    <3>2. \/ kind = "ok" /\ stage' = "ready" /\ era' = era
          \/ stage' = "retry" /\ era' = era
          \/ stage' = "initialize" /\ era' = "legacy"
          \/ stage' = "closing" /\ era' = era
      BY <2>1, <2>8 DEF Conclude, FailStartup
    <3>3. QED
      BY <2>2, <2>3, <2>4, <2>5, <3>1, <3>2, <2>8
  <2>9. CASE stage = "initialize"
    <3>1. \/ kind = "ok" /\ stage' = "announce" /\ era' = era
          \/ stage' = "closing" /\ era' = era
      BY <2>1, <2>9 DEF Conclude, FailStartup, FallsBack
    <3>2. QED
      BY <2>2, <2>3, <2>4, <2>6, <3>1, <2>9
  <2>10. QED
    BY <2>2, <2>7, <2>8, <2>9
<1>4. CASE Announce
  BY <1>4 DEF Announce, FailStartup, Initialized, Discovered
<1>5. CASE Serve
  <2>1. /\ UNCHANGED <<openVars, callVars>>
        /\ answered' = answered \/ \E k \in Id, kind \in Answers :
              answered[k] = "none" /\ answered' = [answered EXCEPT ![k] = kind]
    <3>1. PICK i \in DOMAIN stdin :
             \E kind \in IF stdin[i] = 0 THEN {"error"} ELSE Answer(method[stdin[i]]) :
                answered' = IF stdin[i] = 0 THEN answered ELSE [answered EXCEPT ![stdin[i]] = kind]
      BY <1>5 DEF Serve
    <3>2. stdin[i] # 0 => stdin[i] \in Id /\ answered[stdin[i]] = "none"
      BY RequestsAssumption DEF WireInv, Id
    <3>3. \A k : Answer(method[k]) \subseteq Answers
      BY DEF Answer, Answers
    <3>4. CASE stdin[i] = 0
      BY <1>5, <3>1, <3>4 DEF Serve
    <3>5. CASE stdin[i] # 0
      <4>1. PICK kind \in Answer(method[stdin[i]]) : answered' = [answered EXCEPT ![stdin[i]] = kind]
        BY <3>1, <3>5
      <4>2. kind \in Answers /\ stdin[i] \in Id /\ answered[stdin[i]] = "none"
        BY <3>2, <3>3, <3>5, <4>1
      <4>3. UNCHANGED <<openVars, callVars>>
        BY <1>5 DEF Serve
      <4>4. QED
        BY <4>1, <4>2, <4>3
    <3>6. QED
      BY <3>4, <3>5
  <2>2. \A k \in Id : answered[k] = "ok" => answered'[k] = "ok"
    BY <2>1
  <2>3. 1..last \subseteq Id
    BY RequestsAssumption DEF Id
  <2>4. (Initialized => Initialized') /\ (Discovered => Discovered')
    BY <2>1, <2>2, <2>3 DEF Initialized, Discovered
  <2>5. QED
    BY <2>1, <2>4
<1>6. CASE ChildExits \/ PipeCloses \/ PumpEnds \/ PumpFails
  <2>1. UNCHANGED <<openVars, callVars, answered>>
    BY <1>6 DEF ChildExits, PipeCloses, PumpEnds, PumpFails
  <2>2. QED
    BY <2>1 DEF Initialized, Discovered
<1>7. CASE BeginShutdown \/ Dropped
  BY <1>7 DEF BeginShutdown, Dropped
<1>8. CASE stage = "closing" /\ Closing
  BY <1>8 DEF Closing, GracefulPhase, ForcedPhase, Reap, PumpPhase, PumpJoined, ShutdownReturns
<1>9. QED
  BY <1>1, <1>2, <1>3, <1>4, <1>5, <1>6, <1>7, <1>8 DEF Next, Client, Server, EndsRequest

\* What a caller was told is what the server answered, and stays so.
LEMMA OwnStep ==
    ASSUME IInv, Next
    PROVE  OwnAnswer'
<1>0. OwnAnswer /\ WireInv /\ TypeOK
  BY DEF IInv
<1> USE <1>0 DEF OwnAnswer, TypeOK, SessionTypeOK, openVars, callVars, wireVars, pumpVars, closeVars
<1>1. CASE EndsRequest
  <2>1. PICK kind \in Answers \cup {"stale", "broken", "timeout"} :
           Conclude(kind) /\ (kind \in Answers => kind = answered[last])
    BY <1>1, EndOfRequest
  <2>2. reply' = [reply EXCEPT ![last] = kind] /\ answered' = answered
    BY <1>1, <2>1, EndOfRequest DEF Conclude
  <2>3. QED
    BY <2>1, <2>2 DEF Answers
<1>2. CASE Serve
  <2>1. PICK i \in DOMAIN stdin :
           \E kind \in IF stdin[i] = 0 THEN {"error"} ELSE Answer(method[stdin[i]]) :
              answered' = IF stdin[i] = 0 THEN answered ELSE [answered EXCEPT ![stdin[i]] = kind]
    BY <1>2 DEF Serve
  <2>2. stdin[i] # 0 => answered[stdin[i]] = "none"
    BY RequestsAssumption DEF WireInv
  <2>3. \A k \in Id : answered[k] # "none" => answered'[k] = answered[k]
    BY <2>1, <2>2
  <2>4. reply' = reply
    BY <1>2 DEF Serve
  <2>5. QED
    BY <2>3, <2>4
<1>3. CASE UNCHANGED <<reply, answered>>
  BY <1>3
<1>4. Next => EndsRequest \/ Serve \/ UNCHANGED <<reply, answered>>
  BY DEF Next, Client, Server, Closing, EndsRequest, Begin, WriteLine, Announce, ChildExits, PipeCloses,
     PumpEnds, PumpFails, BeginShutdown, GracefulPhase, ForcedPhase, PumpPhase, ShutdownReturns, Dropped
<1>5. QED
  BY <1>1, <1>2, <1>3, <1>4

\* The server's queue after the client wrote a line, and after the server took one.
LEMMA Enqueue ==
    ASSUME IInv, call = "writing", call' # "writing", NEW x \in {0, last}, stdin' = Append(stdin, x),
           UNCHANGED <<last, answered>>
    PROVE  /\ \A i \in DOMAIN stdin' : stdin'[i] > 0 => stdin'[i] <= last' /\ answered'[stdin'[i]] = "none"
           /\ \A i, j \in DOMAIN stdin' : stdin'[i] = stdin'[j] /\ stdin'[i] > 0 => i = j
           /\ stdin' \in Seq(0..MaxRequests)
<1>1. WireInv /\ TypeOK
  BY DEF IInv
<1>2. /\ x \in 0..MaxRequests /\ last \in Nat /\ stdin \in Seq(0..MaxRequests)
  BY <1>1, RequestsAssumption DEF TypeOK, SessionTypeOK
<1>3. /\ stdin' \in Seq(0..MaxRequests) /\ Len(stdin') = Len(stdin) + 1 /\ Len(stdin) \in Nat
      /\ DOMAIN stdin' = 1..(Len(stdin) + 1) /\ DOMAIN stdin = 1..Len(stdin)
      /\ stdin'[Len(stdin) + 1] = x
      /\ \A i \in 1..Len(stdin) : stdin'[i] = stdin[i]
  BY <1>2
<1>4. \A i \in DOMAIN stdin' : i \in DOMAIN stdin \/ i = Len(stdin) + 1
  BY <1>3
<1>5. \A i \in DOMAIN stdin : stdin[i] # last
  BY <1>1 DEF WireInv
<1>6. QED
  BY <1>1, <1>2, <1>3, <1>4, <1>5 DEF WireInv

\* No two lines on the way are of one request, and no answer on the way is another's.
LEMMA WireStep ==
    ASSUME IInv, Next
    PROVE  WireInv' /\ stdin' \in Seq(0..MaxRequests) /\ stdout' \in Seq(Line)
<1>0. WireInv /\ TypeOK /\ stdin \in Seq(0..MaxRequests) /\ stdout \in Seq(Line)
  BY DEF IInv, TypeOK, SessionTypeOK, Line
<1>a. last \in Nat /\ last <= MaxRequests /\ MaxRequests \in Nat /\ Broken \in Line /\ Broken.id = -1
  BY <1>0, RequestsAssumption DEF TypeOK, SessionTypeOK, Line, Broken
<1> USE DEF WireInv, openVars, callVars, wireVars, pumpVars, closeVars
<1>1. CASE Begin
  <2>1. /\ last' = last + 1 /\ last' \in Id /\ call' = "writing" /\ UNCHANGED <<stdin, stdout, answered, reply>>
    BY <1>a, <1>1 DEF Begin, Id
  <2>2. answered[last'] = "none" /\ \A i \in DOMAIN stdin : stdin[i] # last'
    <3>1. \A i \in DOMAIN stdin : stdin[i] \in Nat
      BY <1>0, <1>a
    <3>2. QED
      <4>1. \A i \in DOMAIN stdin : stdin[i] > 0 => stdin[i] <= last
        BY <1>0
      <4>2. last' > last /\ last' > 0
        BY <1>a, <2>1
      <4>3. answered[last'] = "none"
        BY <1>0, <2>1, <4>2
      <4>4. \A i \in DOMAIN stdin : stdin[i] # last'
        BY <1>a, <2>1, <3>1, <4>1
      <4>5. QED
        BY <4>3, <4>4
  <2>3. \A i \in DOMAIN stdin : stdin[i] > 0 => stdin[i] <= last' /\ answered[stdin[i]] = "none"
    <3>1. \A i \in DOMAIN stdin : stdin[i] > 0
            => stdin[i] <= last /\ answered[stdin[i]] = "none" /\ stdin[i] \in Nat
      BY <1>0, <1>a
    <3>2. QED
      BY <1>a, <2>1, <3>1
  <2>4. \A k \in Id : k > last' => answered[k] = "none" /\ reply[k] = "none"
    <3>1. \A k \in Id : k > last' => k > last
      BY <1>a, <2>1 DEF Id
    <3>2. QED
      BY <1>0, <3>1
  <2>5. /\ \A i, j \in DOMAIN stdin : stdin[i] = stdin[j] /\ stdin[i] > 0 => i = j
        /\ \A i \in DOMAIN stdout : stdout[i].id > 0 => answered[stdout[i].id] = stdout[i].kind
    BY <1>0
  <2>6. QED
    BY <1>0, <2>1, <2>2, <2>3, <2>4, <2>5
<1>2. CASE WriteLine
  <2>1. /\ call = "writing" /\ call' = "reading" /\ UNCHANGED <<last, answered, stdout, reply>>
        /\ stdin' = Append(stdin, IF torn THEN 0 ELSE last)
    BY <1>2 DEF WriteLine
  <2>2. PICK x \in {0, last} : stdin' = Append(stdin, x)
    BY <2>1
  <2>3. QED
    BY <1>0, <2>1, <2>2, Enqueue
<1>3. CASE EndsRequest
  <2>1. /\ UNCHANGED <<last, answered>> /\ call' = "none"
        /\ last \in Id /\ \E kind : reply' = [reply EXCEPT ![last] = kind]
    BY <1>3, EndOfRequest DEF Conclude
  <2>2. \A k \in Id : k > last => answered'[k] = "none" /\ reply'[k] = "none"
    BY <1>0, <1>a, <2>1 DEF TypeOK, SessionTypeOK
  <2>3. stdout' = stdout \/ (stdout # <<>> /\ stdout' = Tail(stdout))
    BY <1>3 DEF EndsRequest, WriteFails, ReadLine, ReadEof, TimesOut
  <2>4. /\ stdout' \in Seq(Line)
        /\ \A i \in DOMAIN stdout' : stdout'[i].id > 0 => answered'[stdout'[i].id] = stdout'[i].kind
    <3>1. CASE stdout' = stdout
      BY <1>0, <2>1, <3>1
    <3>2. CASE stdout # <<>> /\ stdout' = Tail(stdout)
      <4>1. /\ stdout' \in Seq(Line) /\ DOMAIN stdout' = 1..(Len(stdout) - 1) /\ Len(stdout) \in Nat
            /\ DOMAIN stdout = 1..Len(stdout)
            /\ \A i \in 1..(Len(stdout) - 1) : stdout'[i] = stdout[i + 1] /\ i + 1 \in 1..Len(stdout)
        BY <1>0, <3>2
      <4>2. QED
        <5>1. \A i \in 1..Len(stdout) : stdout[i].id > 0 => answered[stdout[i].id] = stdout[i].kind
          BY <1>0, <4>1
        <5>2. QED
          BY <2>1, <4>1, <5>1
    <3>3. QED
      BY <2>3, <3>1, <3>2
  <2>5. CASE stdin' = stdin
    BY <1>0, <2>1, <2>2, <2>4, <2>5
  <2>6. ASSUME NEW x \in {0, last}, call = "writing", stdin' = Append(stdin, x)
        PROVE  WireInv' /\ stdin' \in Seq(0..MaxRequests) /\ stdout' \in Seq(Line)
    BY <2>1, <2>2, <2>4, <2>6, Enqueue
  <2>7. stdin' = stdin \/ \E x \in {0, last} : call = "writing" /\ stdin' = Append(stdin, x)
    <3>1. CASE TimesOut
      BY <3>1 DEF TimesOut
    <3>2. CASE WriteFails \/ ReadLine \/ ReadEof
      BY <3>2 DEF WriteFails, ReadLine, ReadEof
    <3>3. QED
      BY <1>3, <3>1, <3>2 DEF EndsRequest
  <2>8. QED
    BY <2>5, <2>6, <2>7
<1>4. CASE Serve
  <2>1. PICK i \in DOMAIN stdin :
           /\ stdin' = RemoveAt(stdin, i)
           /\ \E kind \in IF stdin[i] = 0 THEN {"error"} ELSE Answer(method[stdin[i]]) :
                /\ stdout' = Append(stdout, [id |-> stdin[i], kind |-> kind])
                /\ answered' = IF stdin[i] = 0 THEN answered ELSE [answered EXCEPT ![stdin[i]] = kind]
    BY <1>4 DEF Serve
  <2>2. PICK kind : /\ stdout' = Append(stdout, [id |-> stdin[i], kind |-> kind])
                    /\ answered' = IF stdin[i] = 0 THEN answered ELSE [answered EXCEPT ![stdin[i]] = kind]
                    /\ kind \in Answers
    BY <2>1 DEF Answer, Answers
  <2>3. stdin[i] \in 0..MaxRequests /\ UNCHANGED <<call, last, reply>>
    <3>1. stdin[i] \in 0..MaxRequests
      <4>1. \A j \in DOMAIN stdin : stdin[j] \in 0..MaxRequests
        BY <1>0, <1>a
      <4>2. QED
        BY <2>1, <4>1
    <3>2. QED
      BY <3>1, <1>4 DEF Serve
  <2>4. stdin[i] > 0 => stdin[i] \in Id /\ answered[stdin[i]] = "none" /\ stdin[i] <= last
    BY <1>0, <1>a, <2>3 DEF Id
  <2>5. /\ stdin' \in Seq(0..MaxRequests)
        /\ \A j \in DOMAIN stdin' : /\ j \in DOMAIN stdin /\ j + 1 \in DOMAIN stdin
                                    /\ stdin'[j] = IF j < i THEN stdin[j] ELSE stdin[j + 1]
    BY <1>0, <2>1, Removed
  <2>6. DOMAIN stdin \subseteq Nat /\ DOMAIN stdin' \subseteq Nat /\ \A j \in DOMAIN stdin : stdin[j] \in Nat
    <3>1. DOMAIN stdin = 1..Len(stdin) /\ DOMAIN stdin' = 1..Len(stdin')
      BY <1>0, <2>5
    <3>2. \A j \in DOMAIN stdin : stdin[j] \in Nat
      BY <1>0, <1>a
    <3>3. QED
      BY <3>1, <3>2
  <2>7. \A j \in DOMAIN stdin' : \E m \in DOMAIN stdin : m # i /\ stdin'[j] = stdin[m]
    BY <2>5, <2>6
  <2>8. \A j \in DOMAIN stdin' : stdin'[j] > 0 => stdin'[j] # stdin[i]
    BY <1>0, <2>6, <2>7
  <2>9. \A k : k # stdin[i] => answered'[k] = answered[k]
    BY <2>2
  <2>10. \A j \in DOMAIN stdin' : stdin'[j] > 0 => stdin'[j] <= last' /\ answered'[stdin'[j]] = "none"
    BY <1>0, <2>3, <2>7, <2>8, <2>9
  <2>11. \A j, m \in DOMAIN stdin' : stdin'[j] = stdin'[m] /\ stdin'[j] > 0 => j = m
    <3> DEFINE from(j) == IF j < i THEN j ELSE j + 1
    <3>1. \A j \in DOMAIN stdin' : from(j) \in DOMAIN stdin /\ stdin'[j] = stdin[from(j)]
      BY <2>5
    <3>2. \A j, m \in DOMAIN stdin' : from(j) = from(m) => j = m
      BY <2>6
    <3> HIDE DEF from
    <3>3. \A j, m \in DOMAIN stdin : stdin[j] = stdin[m] /\ stdin[j] > 0 => j = m
      BY <1>0
    <3>4. QED
      BY <3>1, <3>2, <3>3
  <2>12. call' = "writing" => answered'[last'] = "none" /\ \A j \in DOMAIN stdin' : stdin'[j] # last'
    BY <1>0, <2>3, <2>7, <2>9
  <2>13. \A k \in Id : k > last' => answered'[k] = "none" /\ reply'[k] = "none"
    <3>1. \A k \in Id : k > last => k # stdin[i]
      <4>1. \A k \in Id : k \in Nat /\ k > 0
        BY <1>a DEF Id
      <4>2. QED
        BY <1>a, <2>3, <2>4, <4>1
    <3>2. \A k \in Id : k > last => answered[k] = "none" /\ reply[k] = "none"
      BY <1>0
    <3>3. QED
      BY <2>3, <2>9, <3>1, <3>2
  <2>14. /\ stdout' \in Seq(Line)
         /\ \A j \in DOMAIN stdout' : stdout'[j].id > 0 => answered'[stdout'[j].id] = stdout'[j].kind
    <3> DEFINE new == [id |-> stdin[i], kind |-> kind]
    <3>1. new \in Line /\ new.id = stdin[i] /\ new.kind = kind
      BY <2>2, <2>3 DEF Line, Answers
    <3> HIDE DEF new
    <3>2. /\ stdout' = Append(stdout, new) /\ stdout' \in Seq(Line) /\ Len(stdout) \in Nat
          /\ DOMAIN stdout' = 1..(Len(stdout) + 1) /\ DOMAIN stdout = 1..Len(stdout)
          /\ stdout'[Len(stdout) + 1] = new /\ \A j \in 1..Len(stdout) : stdout'[j] = stdout[j]
      <4>1. stdout' = Append(stdout, new)
        BY <2>2 DEF new
      <4>2. QED
        BY <1>0, <3>1, <4>1
    <3>3. new.id > 0 => answered'[new.id] = new.kind
      BY <1>0, <2>2, <2>4, <3>1 DEF TypeOK, SessionTypeOK
    <3>4. \A j \in 1..Len(stdout) : stdout[j].id > 0 => stdout[j].id # stdin[i] /\ answered[stdout[j].id] = stdout[j].kind
      <4>1. \A j \in 1..Len(stdout) : stdout[j].id > 0
              => answered[stdout[j].id] = stdout[j].kind /\ stdout[j].kind \in {"ok", "retry", "refused", "error"}
        BY <1>0, <3>2, Bounds
      <4>2. QED
        BY <2>4, <4>1
    <3>5. \A j \in 1..(Len(stdout) + 1) : j \in 1..Len(stdout) \/ j = Len(stdout) + 1
      BY <3>2
    <3>6. QED
      BY <2>9, <3>2, <3>3, <3>4, <3>5
  <2>15. QED
    BY <2>5, <2>10, <2>11, <2>12, <2>13, <2>14
<1>5. CASE ChildExits
  <2>1. /\ UNCHANGED <<call, last, reply, stdin, answered>>
        /\ stdout' = stdout \/ stdout' = Append(stdout, Broken)
    BY <1>5 DEF ChildExits
  <2>2. /\ stdout' \in Seq(Line)
        /\ \A j \in DOMAIN stdout' : stdout'[j] = Broken \/ (j \in DOMAIN stdout /\ stdout'[j] = stdout[j])
    <3>1. CASE stdout' = stdout
      BY <1>0, <3>1
    <3>2. CASE stdout' = Append(stdout, Broken)
      <4>1. /\ stdout' \in Seq(Line) /\ DOMAIN stdout' = 1..(Len(stdout) + 1) /\ Len(stdout) \in Nat
            /\ DOMAIN stdout = 1..Len(stdout)
            /\ stdout'[Len(stdout) + 1] = Broken /\ \A j \in 1..Len(stdout) : stdout'[j] = stdout[j]
        BY <1>0, <1>a, <3>2
      <4>2. QED
        BY <4>1
    <3>3. QED
      BY <2>1, <3>1, <3>2
  <2>3. \A j \in DOMAIN stdout' : stdout'[j].id > 0 => answered'[stdout'[j].id] = stdout'[j].kind
    BY <1>0, <1>a, <2>1, <2>2
  <2>4. QED
    BY <1>0, <2>1, <2>2, <2>3
<1>6. CASE UNCHANGED <<last, reply, stdin, stdout, answered>> /\ (call' = call \/ call' = "none")
  BY <1>0, <1>6
<1>7. CASE Announce \/ PipeCloses \/ PumpEnds \/ PumpFails \/ BeginShutdown \/ Dropped
           \/ (stage = "closing" /\ Closing)
  <2>1. UNCHANGED <<last, reply, stdin, stdout, answered>> /\ (call' = call \/ call' = "none")
    BY <1>7 DEF Announce, PipeCloses, PumpEnds, PumpFails, BeginShutdown, Dropped, Closing, GracefulPhase,
       ForcedPhase, PumpPhase, ShutdownReturns
  <2>2. QED
    BY <1>6, <2>1
<1> HIDE DEF WireInv
<1>8. QED
  BY <1>1, <1>2, <1>3, <1>4, <1>5, <1>7 DEF Next, Client, Server, EndsRequest

\* Every variable keeps its type; the lines on the way keep theirs by WireStep.
LEMMA TypeStep ==
    ASSUME IInv, Next, stdin' \in Seq(0..MaxRequests), stdout' \in Seq(Line)
    PROVE  TypeOK'
<1> SUFFICES SessionTypeOK'
  BY DEF TypeOK, Line
<1>0. SessionTypeOK
  BY DEF IInv, TypeOK
<1> USE <1>0 DEF SessionTypeOK, openVars, callVars, wireVars, pumpVars, closeVars
<1>1. CASE Begin
  <2>1. /\ last' \in 0..MaxRequests /\ call' = "writing"
        /\ \E m \in {"discover", "initialize", "call"} : method' = [method EXCEPT ![last'] = m]
        /\ UNCHANGED <<openVars, reply, torn, halfRead, wireVars, child, pipeOpen, pumpVars, closeVars>>
    <3>1. last' = last + 1 /\ last < MaxRequests /\ last \in Nat
      BY <1>1, RequestsAssumption DEF Begin
    <3>2. \E m \in {"discover", "initialize", "call"} : method' = [method EXCEPT ![last'] = m]
      <4>1. CASE stage = "ready"
        BY <1>1, <4>1 DEF Begin
      <4>2. CASE stage = "initialize"
        BY <1>1, <4>2 DEF Begin
      <4>3. CASE stage \in {"discover", "retry"}
        BY <1>1, <4>3 DEF Begin
      <4>4. QED
        BY <1>1, <4>1, <4>2, <4>3 DEF Begin
    <3>3. /\ call' = "writing"
          /\ UNCHANGED <<openVars, reply, torn, halfRead, wireVars, child, pipeOpen, pumpVars, closeVars>>
      BY <1>1 DEF Begin
    <3>4. last' \in 0..MaxRequests
      BY <3>1, RequestsAssumption
    <3>5. QED
      BY <3>2, <3>3, <3>4
  <2>2. PICK m \in {"discover", "initialize", "call"} : method' = [method EXCEPT ![last'] = m]
    BY <2>1
  <2>3. method' \in [Id -> {"none", "discover", "initialize", "call"}]
    BY <2>2
  <2>4. QED
    BY <2>1, <2>3
<1>2. CASE WriteLine
  <2>1. /\ call' = "reading" /\ torn' \in BOOLEAN
        /\ UNCHANGED <<openVars, last, method, reply, halfRead, answered, child, pipeOpen, pumpVars,
                       closeVars>>
    BY <1>2 DEF WriteLine
  <2>2. QED
    BY <2>1
<1>3. CASE EndsRequest
  <2>1. PICK kind \in Answers \cup {"stale", "broken", "timeout"} : Conclude(kind)
    BY <1>3, EndOfRequest
  <2>2. /\ torn' \in BOOLEAN /\ halfRead' \in BOOLEAN /\ answered' = answered
    <3>1. CASE TimesOut
      BY <3>1 DEF TimesOut
    <3>2. CASE WriteFails \/ ReadLine \/ ReadEof
      BY <3>2 DEF WriteFails, ReadLine, ReadEof
    <3>3. QED
      BY <1>3, <3>1, <3>2 DEF EndsRequest
  <2>3. /\ call' = "none" /\ reply' = [reply EXCEPT ![last] = kind]
        /\ UNCHANGED <<mode, announced, last, method, child, pipeOpen, pumpVars, childError, pumpError,
                       verdict, pumpCancel, pumpAbort>>
    BY <2>1 DEF Conclude
  <2>4. /\ stage' \in {"retry", "initialize", "announce", "ready", "closing"}
        /\ era' \in {"modern", "legacy"} /\ close' \in {close, "graceful"}
        /\ startupError' \in {startupError, "retry", "refused", "error", "stale", "broken", "timeout"}
    <3>1. stage \in {"discover", "retry", "initialize", "ready"}
      BY <1>3, EndOfRequest
    <3>2. kind # "ok" => kind \in {"retry", "refused", "error", "stale", "broken", "timeout"}
      BY DEF Answers
    <3>3. CASE stage = "ready"
      BY <2>1, <3>3 DEF Conclude
    <3>4. CASE stage \in {"discover", "retry"}
      BY <2>1, <3>2, <3>4 DEF Conclude, FailStartup
    <3>5. CASE stage = "initialize"
      BY <2>1, <3>2, <3>5 DEF Conclude, FailStartup, FallsBack
    <3>6. QED
      BY <3>1, <3>3, <3>4, <3>5
  <2>5. /\ mode = "legacy" => era' = "legacy"
        /\ mode = "stateless" => era' = "modern"
        /\ era' = "legacy" => stage' \notin {"discover", "retry"}
    <3>1. stage \in {"discover", "retry", "initialize", "ready"}
      BY <1>3, EndOfRequest
    <3>2. CASE stage \in {"discover", "retry"}
      BY <2>1, <3>2 DEF Conclude, FailStartup, FallsBack
    <3>3. CASE stage \in {"initialize", "ready"}
      BY <2>1, <3>3 DEF Conclude, FailStartup, FallsBack
    <3>4. QED
      BY <3>1, <3>2, <3>3
  <2>6. reply' \in [Id -> {"none", "ok", "retry", "refused", "error", "stale", "broken", "timeout"}]
    BY <2>3 DEF Answers
  <2>7. QED
    BY <2>2, <2>3, <2>4, <2>5, <2>6
<1>4. CASE Announce
  <2>1. /\ announced' \in BOOLEAN /\ stage' \in {"ready", "closing"} /\ close' \in {close, "graceful"}
        /\ startupError' \in {startupError, "timeout", "broken"}
        /\ UNCHANGED <<mode, era, callVars, wireVars, child, pipeOpen, pumpVars, childError, pumpError,
                       verdict, pumpCancel, pumpAbort>>
    BY <1>4 DEF Announce, FailStartup
  <2>2. QED
    BY <2>1
<1>5. CASE Serve
  <2>1. /\ UNCHANGED <<openVars, callVars, child, pipeOpen, pumpVars, closeVars>>
        /\ answered' = answered \/ \E k, kind : kind \in Answers /\ answered' = [answered EXCEPT ![k] = kind]
    <3>1. PICK i \in DOMAIN stdin :
             \E kind \in IF stdin[i] = 0 THEN {"error"} ELSE Answer(method[stdin[i]]) :
                answered' = IF stdin[i] = 0 THEN answered ELSE [answered EXCEPT ![stdin[i]] = kind]
      BY <1>5 DEF Serve
    <3>2. PICK kind \in Answers :
             answered' = IF stdin[i] = 0 THEN answered ELSE [answered EXCEPT ![stdin[i]] = kind]
      BY <3>1 DEF Answer, Answers
    <3>3. QED
      BY <1>5, <3>2 DEF Serve
  <2>2. answered' \in [Id -> {"none", "ok", "retry", "refused", "error"}]
    BY <2>1 DEF Answers
  <2>3. QED
    BY <2>1, <2>2
<1>6. CASE ChildExits
  <2>1. /\ UNCHANGED <<openVars, callVars, stdin, answered, pumpVars, closeVars>>
        /\ child' = "exited" /\ pipeOpen' \in BOOLEAN
    BY <1>6 DEF ChildExits
  <2>2. QED
    BY <2>1
<1>7. CASE PipeCloses
  <2>1. /\ pipeOpen' \in BOOLEAN
        /\ UNCHANGED <<openVars, callVars, wireVars, child, pumpVars, closeVars>>
    BY <1>7 DEF PipeCloses
  <2>2. QED
    BY <2>1
<1>8. CASE PumpEnds \/ PumpFails
  <2>1. /\ pump' \in {"ok", "aborted", "failed"} /\ captured' \in BOOLEAN
        /\ UNCHANGED <<openVars, callVars, wireVars, child, pipeOpen, closeVars>>
    BY <1>8 DEF PumpEnds, PumpFails
  <2>2. QED
    BY <2>1
<1>9. CASE BeginShutdown
  BY <1>9 DEF BeginShutdown
<1>10. CASE Dropped
  BY <1>10 DEF Dropped
<1>11. CASE GracefulPhase \/ ForcedPhase
  <2>1. /\ child' \in {child, "reaped", "killed"} /\ childError' \in BOOLEAN
        /\ close' \in {"forced", "drain"}
        /\ UNCHANGED <<openVars, callVars, wireVars, pipeOpen, pumpVars, pumpError, verdict,
                       pumpCancel, pumpAbort>>
    BY <1>11 DEF GracefulPhase, ForcedPhase, Reap
  <2>2. QED
    BY <2>1
<1>12. CASE PumpPhase
  <2>1. /\ close' \in {"cancel", "abort", "done"} /\ pumpError' \in BOOLEAN
        /\ pumpCancel' \in BOOLEAN /\ pumpAbort' \in BOOLEAN
        /\ UNCHANGED <<openVars, callVars, wireVars, child, pipeOpen, pumpVars, childError, verdict>>
    BY <1>12 DEF PumpPhase, PumpJoined
  <2>2. QED
    BY <2>1
<1>13. CASE ShutdownReturns
  BY <1>13 DEF ShutdownReturns
<1> HIDE DEF SessionTypeOK
<1>14. QED
  BY <1>1, <1>2, <1>3, <1>4, <1>5, <1>6, <1>7, <1>8, <1>9, <1>10, <1>11, <1>12, <1>13
     DEF Next, Client, Server, Closing, EndsRequest

\* A session over pipes keeps its inductive invariant, whatever the server does.
THEOREM SessionInvariant == Spec => []IInv
<1>1. ASSUME IInv, [Next]_vars PROVE IInv'
  <2>1. CASE Next
    BY <1>1, <2>1, WireStep, TypeStep, OpenStep, CloseStep, OwnStep DEF IInv
  <2>2. CASE UNCHANGED vars
    BY <1>1, <2>2 DEF vars, openVars, callVars, wireVars, pumpVars, closeVars, IInv, TypeOK, SessionTypeOK, WireInv,
       OpenInv, Initialized, Discovered, CloseInv, OwnAnswer, CleanMeansWhole
  <2>3. QED
    BY <1>1, <2>1, <2>2
<1>2. QED
  BY InitIInv, <1>1, PTL DEF Spec

\* No late answer and no torn line is ever taken for another call's answer, for any
\* number of calls and of dropped ones (Session::request).
THEOREM AnswersAreOwn == Spec => []OwnAnswer
<1>1. IInv => OwnAnswer
  BY DEF IInv
<1>2. QED
  BY <1>1, SessionInvariant, PTL

\* The server agreed to the era of every session that is handed out
\* (from_transport_auto, from_transport_stateless).
THEOREM ErasAreAgreed == Spec => []EraIsAgreed
<1>1. IInv => EraIsAgreed
  <2> SUFFICES ASSUME IInv, stage = "ready"
               PROVE  \E k \in Id : /\ answered[k] = "ok"
                                    /\ \/ era = "modern" /\ method[k] = "discover"
                                       \/ era = "legacy" /\ method[k] = "initialize" /\ announced
    BY DEF EraIsAgreed
  <2>1. 1..last \subseteq Id /\ era \in {"modern", "legacy"}
    BY RequestsAssumption DEF IInv, TypeOK, SessionTypeOK, Id
  <2>2. IF era = "modern" THEN Discovered ELSE Initialized /\ announced
    BY DEF IInv, OpenInv
  <2>3. QED
    BY <2>1, <2>2 DEF Discovered, Initialized
<1>2. QED
  BY <1>1, SessionInvariant, PTL

\* A clean teardown reaped the child and captured all of its stderr
\* (shutdown::run, stop_stderr_pump).
THEOREM CleanTeardowns == Spec => []CleanMeansWhole
<1>1. IInv => CleanMeansWhole
  BY DEF IInv
<1>2. QED
  BY <1>1, SessionInvariant, PTL

\* What a session reports as answered was answered so, for any number of calls.
THEOREM AnswersHold == Spec => []AnswersAreTrue
<1>1. IInv => TypeOK
  BY DEF IInv
<1>2. QED
  BY <1>1, SessionInvariant, AnswersAreOwn, ErasAreAgreed, PTL DEF AnswersAreTrue
=============================================================================
