---------------------------- MODULE RemoteProofs ----------------------------
(***************************************************************************)
(* Safety of what speaks to another process over a stream: the SSE         *)
(* transport's permits, guard and shutdown, the requests of the HTTP       *)
(* transport, the frames of the control channel, the WebSocket transport   *)
(* and both parsers of an event stream, for all limits, budgets, tools,    *)
(* arguments, sizes and streams.                                           *)
(***************************************************************************)
EXTENDS RemoteTransports, WsTransport, FiniteSums, SequenceTheorems, TLAPS

\* A set of numbers that is not empty has its least one.
LEMMA LeastOne ==
    ASSUME NEW S \in SUBSET Nat, S # {}
    PROVE  Min(S) \in S /\ \A y \in S : Min(S) <= y
BY LeastNumber DEF Min
-----------------------------------------------------------------------------
(***************************************************************************)
(* SSE.                                                                    *)
(***************************************************************************)
\* A task that is over met what it met before, and only a shutdown that joined it, or noted
\* that it could not, comes to a verdict.
SseInv ==
    /\ ~astray
    /\ ended # "none" => stage = "over"
    /\ ended = "ok" => task = "done" /\ latch = "none"
    /\ stage = "verdict" /\ ~trouble => task = "done"

LEMMA SseBegins == SseInit => SseInv
BY DEF SseInit, SseInv

LEMMA SseKeeps == SseInv /\ SseStep => SseInv'
<1> SUFFICES ASSUME SseInv, SseStep PROVE SseInv'
  OBVIOUS
<1> USE DEF SseInv
<1>1. CASE \E h \in Hosts, listing \in BOOLEAN, secrets \in BOOLEAN : OpenStream(h, listing, secrets)
  <2>1. PICK h \in Hosts, listing \in BOOLEAN, secrets \in BOOLEAN : OpenStream(h, listing, secrets)
    BY <1>1
  <2>2. ~astray'
    <3>1. CASE ResolveAndCheck(h, listing)
      <4>1. ~(~h.listed /\ TRUE \in h.private)
        BY <3>1, Zenon DEF ResolveAndCheck
      <4>2. h.origin /\ astray' = (astray \/ (~h.listed /\ TRUE \in h.private) \/ (secrets /\ ~h.origin))
        BY <2>1, <3>1, Zenon DEF OpenStream, Dial
      <4>3. QED
        BY <4>1, <4>2, Zenon
    <3>2. CASE ~ResolveAndCheck(h, listing)
      BY <2>1, <3>2 DEF OpenStream
    <3>3. QED
      BY <3>1, <3>2
  <2>3. QED
    BY <2>1, <2>2 DEF OpenStream, sseReader, sseClose
<1>2. CASE \E h \in Hosts, listing \in BOOLEAN : EndpointNamed(h, listing)
  <2>1. PICK h \in Hosts, listing \in BOOLEAN : EndpointNamed(h, listing)
    BY <1>2
  <2>2. ~astray'
    <3>1. CASE (stage = "endpoint_with_secrets" => h.origin) /\ ResolveAndCheck(h, listing)
      <4>1. ~(~h.listed /\ TRUE \in h.private)
        BY <3>1, Zenon DEF ResolveAndCheck
      <4>2. astray' = (astray \/ (~h.listed /\ TRUE \in h.private)
                             \/ (stage = "endpoint_with_secrets" /\ ~h.origin))
        BY <2>1, <3>1, Zenon DEF EndpointNamed, Dial
      <4>3. QED
        BY <3>1, <4>1, <4>2, Zenon
    <3>2. CASE ~((stage = "endpoint_with_secrets" => h.origin) /\ ResolveAndCheck(h, listing))
      BY <2>1, <3>2 DEF EndpointNamed
    <3>3. QED
      BY <3>1, <3>2
  <2>3. QED
    BY <2>1, <2>2 DEF EndpointNamed, sseClose
<1>3. CASE NoEndpoint
  BY <1>3 DEF NoEndpoint, sseReader, sseClose
<1>4. CASE Peer
  BY <1>4 DEF Peer, ReadEvent, ReaderFails, sseClose
<1>5. CASE ReaderMoves
  BY <1>5 DEF ReaderMoves, SendEvent, ReaderStops, TaskAborted, sseClose
<1>6. CASE CallMoves
  BY <1>6 DEF CallMoves, LookInStash, TakeEvent, GiveUp, sseReader, sseClose
<1>7. CASE CloseMoves
  BY <1>7 DEF CloseMoves, TaskJoined, JoinTimesOut, ShutdownEnds, sseReader, sseClose
<1>8. CASE Post \/ PostEnds \/ CallerLeaves \/ ShutDown
  BY <1>8 DEF Post, PostEnds, CallerLeaves, ShutDown, sseReader, sseClose
<1>9. QED
  BY <1>1, <1>2, <1>3, <1>4, <1>5, <1>6, <1>7, <1>8 DEF SseStep, Connecting

-----------------------------------------------------------------------------
(***************************************************************************)
(* The frames of an SSE stream and the permits they hold.                  *)
(***************************************************************************)
\* What a queue of the SSE transport may hold.
SseEntry == SseFrame \cup {ErrorEvent}

LEMMA SizesOfEntries ==
    /\ \A f \in SseEntry : f.size \in Nat
    /\ NoEvent.size = 0 /\ ErrorEvent.size = 0 /\ NoEvent \notin SseEntry /\ ErrorEvent \notin SseFrame
    /\ InboundBudget \in Nat /\ EventCap \in Nat \ {0} /\ StashCap \in Nat /\ SseCalls \in Nat
<1>1. \A f \in SseFrame : f.size \in Nat /\ f.id \in 0..SseCalls
  BY SseAssumption DEF SseFrame
<1>2. NoEvent.size = 0 /\ ErrorEvent.size = 0 /\ NoEvent.id = -1 /\ ErrorEvent.id = -2
  BY DEF NoEvent, ErrorEvent
<1>3. NoEvent \notin SseFrame /\ ErrorEvent \notin SseFrame
  BY <1>1, <1>2
<1>4. QED
  BY <1>1, <1>2, <1>3, SseAssumption DEF SseEntry

\* A queue without the entry k is charged that much less.
LEMMA ChargeLacks ==
    ASSUME NEW s \in Seq(SseEntry), NEW t \in Seq(SseEntry), NEW k, Lacks(t, s, k)
    PROVE  Charged(s) = s[k].size + Charged(t)
<1> DEFINE w == [i \in DOMAIN s |-> s[i].size]
           v == [i \in DOMAIN t |-> t[i].size]
<1>1. Lacks(v, w, k) /\ k \in DOMAIN s
  BY DEF Lacks
<1>2. \A i \in DOMAIN w : w[i] \in Int
  BY SizesOfEntries
<1>3. w[k] = s[k].size
  BY <1>1
<1> HIDE DEF w, v
<1>4. SumFunction(w) = w[k] + SumFunction(v)
  BY <1>1, <1>2, SumLacks
<1>5. QED
  BY <1>3, <1>4 DEF Charged, w, v

\* An empty queue is charged nothing, and none less than that.
LEMMA ChargeOfQueue ==
    /\ Charged(<<>>) = 0
    /\ \A s \in Seq(SseEntry) : Charged(s) \in Nat
<1>1. Charged(<<>>) = 0
  BY SumOfNone DEF Charged, SumFunction
<1>2. ASSUME NEW s \in Seq(SseEntry) PROVE Charged(s) \in Nat
  <2> DEFINE w == [i \in DOMAIN s |-> s[i].size]
  <2>1. IsFiniteSet(DOMAIN w)
    BY FS_Interval
  <2>2. \A i \in DOMAIN w : w[i] \in Nat
    BY SizesOfEntries
  <2> HIDE DEF w
  <2>3. SumFunctionOnSet(w, DOMAIN w) \in Nat
    BY <2>1, <2>2, SumIsNat
  <2>4. QED
    BY <2>3 DEF Charged, SumFunction, w
<1>3. QED
  BY <1>1, <1>2

\* What is appended, taken or removed is what the charge changes by.
LEMMA ChargeAppended ==
    ASSUME NEW s \in Seq(SseEntry), NEW f \in SseEntry
    PROVE  Append(s, f) \in Seq(SseEntry) /\ Charged(Append(s, f)) = Charged(s) + f.size
<1> DEFINE t == Append(s, f)
<1>1. t \in Seq(SseEntry) /\ t[Len(s) + 1] = f /\ Lacks(s, t, Len(s) + 1)
  BY AppendLacks
<1> HIDE DEF t
<1>2. Charged(t) = f.size + Charged(s)
  BY <1>1, ChargeLacks
<1>3. Charged(s) \in Nat /\ f.size \in Nat
  BY ChargeOfQueue, SizesOfEntries
<1>4. QED
  BY <1>1, <1>2, <1>3 DEF t

LEMMA ChargeTaken ==
    ASSUME NEW s \in Seq(SseEntry), s # <<>>
    PROVE  Tail(s) \in Seq(SseEntry) /\ Head(s) \in SseEntry /\ Charged(s) = Head(s).size + Charged(Tail(s))
<1>1. Tail(s) \in Seq(SseEntry) /\ Head(s) = s[1] /\ Head(s) \in SseEntry /\ Lacks(Tail(s), s, 1)
  BY TailLacks
<1>2. Charged(s) = s[1].size + Charged(Tail(s))
  BY <1>1, ChargeLacks, Zenon
<1>3. QED
  BY <1>1, <1>2, Zenon

LEMMA ChargeRemoved ==
    ASSUME NEW s \in Seq(SseEntry), NEW k \in 1..Len(s)
    PROVE  RemoveAt(s, k) \in Seq(SseEntry) /\ Charged(s) = s[k].size + Charged(RemoveAt(s, k))
<1>1. RemoveAt(s, k) \in Seq(SseEntry) /\ Lacks(RemoveAt(s, k), s, k)
  BY RemoveAtLacks
<1>2. QED
  BY <1>1, ChargeLacks

\* The frames of the stash that carry the id that is asked for.
Found == {i \in 1..Len(stash) : stash[i].id = asked}

LEMMA WaitingFinds ==
    /\ Waiting = 0 \/ Waiting \in 1..Len(stash)
    /\ stash \in Seq(SseFrame) => (Waiting = 0 <=> Found = {})
<1>1. Waiting = IF Found # {} THEN Min(Found) ELSE 0
  BY DEF Waiting, SelectInSeq, Found
<1>2. Found # {} => Min(Found) \in Found
  <2>1. Found \in SUBSET Nat
    BY DEF Found
  <2>2. QED
    BY <2>1, LeastNumber DEF Min
<1>3. QED
  BY <1>1, <1>2 DEF Found

\* The reader has an event in hand exactly while it waits for room in the channel, and is
\* not there before the endpoint is known.
FramesInv ==
    /\ SseTypeOK /\ PermitsAreExact /\ StashIsSearched
    /\ task = "sending" <=> inHand # NoEvent
    /\ stage \in {"connect", "endpoint", "endpoint_with_secrets"} => task = "none"

LEMMA FramesBegin == SseInit => FramesInv
<1> SUFFICES ASSUME SseInit PROVE FramesInv
  OBVIOUS
<1> USE DEF SseInit
<1>1. Charged(events) = 0 /\ Charged(stash) = 0 /\ inHand.size = 0
  BY ChargeOfQueue, SizesOfEntries
<1>2. SseTypeOK
  <2>1. events \in Seq(SseEntry) /\ stash \in Seq(SseFrame) /\ Len(events) = 0 /\ Len(stash) = 0
    OBVIOUS
  <2>2. QED
    BY <2>1, SizesOfEntries DEF SseTypeOK, SseEntry
<1>3. PermitsAreExact
  BY <1>1, SizesOfEntries DEF PermitsAreExact
<1>4. QED
  BY <1>2, <1>3 DEF FramesInv, StashIsSearched

\* What the channel, the stash and the reader hold is charged a number of bytes.
LEMMA Charges ==
    ASSUME SseTypeOK
    PROVE  /\ events \in Seq(SseEntry) /\ stash \in Seq(SseEntry)
           /\ Charged(events) \in Nat /\ Charged(stash) \in Nat /\ inHand.size \in Nat
           /\ permits \in Nat
<1>1. events \in Seq(SseEntry) /\ stash \in Seq(SseEntry)
  BY DEF SseTypeOK, SseEntry
<1>2. inHand.size \in Nat
  BY SizesOfEntries DEF SseTypeOK, SseEntry
<1>3. QED
  BY <1>1, <1>2, ChargeOfQueue DEF SseTypeOK

\* The reader moves what it is charged for from the stream to the channel.
LEMMA FramesOfReader ==
    ASSUME FramesInv, Peer \/ ReaderMoves
    PROVE  FramesInv'
<1>0. SseTypeOK /\ PermitsAreExact /\ StashIsSearched /\ (task = "sending" <=> inHand # NoEvent)
      /\ (stage \in {"connect", "endpoint", "endpoint_with_secrets"} => task = "none")
  BY DEF FramesInv
<1>w. /\ events \in Seq(SseEntry) /\ stash \in Seq(SseEntry)
      /\ Charged(events) \in Nat /\ Charged(stash) \in Nat /\ inHand.size \in Nat
      /\ permits \in Nat
  BY <1>0, Charges
<1>e. permits + inHand.size + Charged(events) + Charged(stash) = InboundBudget /\ InboundBudget \in Nat
  BY <1>0, SizesOfEntries DEF PermitsAreExact
<1>1. UNCHANGED <<stage, stash, asked, replies>>
  BY DEF Peer, ReadEvent, ReaderFails, ReaderMoves, SendEvent, ReaderStops, TaskAborted
<1>2. StashIsSearched'
  BY <1>0, <1>1 DEF StashIsSearched, Waiting, SelectInSeq
<1>3. ASSUME NEW f \in SseFrame, ReadEvent(f) PROVE FramesInv'
  <2>1. /\ task = "reading" /\ f.size <= permits /\ task' = "sending" /\ inHand' = f
        /\ permits' = permits - f.size /\ UNCHANGED <<events, latch>>
    BY <1>3 DEF ReadEvent
  <2>2. f.size \in Nat /\ f # NoEvent /\ inHand.size = 0
    BY <1>0, <2>1, SizesOfEntries DEF SseEntry
  <2>3. permits' \in 0..InboundBudget
    BY <1>w, <1>e, <2>1, <2>2
  <2>4. SseTypeOK'
    BY <1>0, <1>1, <2>1, <2>3 DEF SseTypeOK
  <2>5. PermitsAreExact'
    BY <1>w, <1>e, <1>1, <2>1, <2>2 DEF PermitsAreExact
  <2>6. QED
    BY <1>0, <1>1, <1>2, <2>1, <2>2, <2>4, <2>5 DEF FramesInv
<1>4. ASSUME NEW e \in ReaderTerminalError, ReaderFails(e) PROVE FramesInv'
  <2>1. task = "reading" /\ task' = "sending" /\ inHand' = ErrorEvent /\ latch' = e /\ UNCHANGED <<events, permits>>
    BY <1>4 DEF ReaderFails
  <2>2. inHand.size = 0 /\ ErrorEvent.size = 0 /\ ErrorEvent # NoEvent
    BY <1>0, <2>1, SizesOfEntries DEF SseEntry
  <2>3. SseTypeOK'
    BY <1>0, <1>1, <2>1 DEF SseTypeOK
  <2>4. PermitsAreExact'
    BY <1>w, <1>e, <1>1, <2>1, <2>2 DEF PermitsAreExact
  <2>5. QED
    BY <1>0, <1>1, <1>2, <2>1, <2>2, <2>3, <2>4 DEF FramesInv
<1>5. CASE SendEvent
  <2>1. /\ task = "sending" /\ Len(events) < EventCap /\ events' = Append(events, inHand)
        /\ inHand' = NoEvent /\ task' \in {"done", "reading"} /\ UNCHANGED <<permits, latch>>
    BY <1>5 DEF SendEvent
  <2>2. inHand \in SseEntry
    BY <1>0, <2>1 DEF SseTypeOK, SseEntry
  <2>3. events' \in Seq(SseEntry) /\ Charged(events') = Charged(events) + inHand.size
    BY <1>w, <2>1, <2>2, ChargeAppended
  <2>4. Len(events') <= EventCap
    BY <1>w, <2>1, SizesOfEntries
  <2>5. SseTypeOK'
    BY <1>0, <1>1, <2>1, <2>3, <2>4 DEF SseTypeOK, SseEntry
  <2>6. PermitsAreExact'
    BY <1>w, <1>e, <1>1, <2>1, <2>3, SizesOfEntries DEF PermitsAreExact
  <2>7. QED
    BY <1>0, <1>1, <1>2, <2>1, <2>5, <2>6 DEF FramesInv
<1>6. CASE ReaderStops \/ TaskAborted
  <2>1. /\ task' = "done" /\ inHand' = NoEvent /\ permits' = permits + inHand.size /\ UNCHANGED <<events, latch>>
        /\ stage \notin {"connect", "endpoint", "endpoint_with_secrets"}
    BY <1>0, <1>6 DEF ReaderStops, TaskAborted
  <2>2. permits' \in 0..InboundBudget
    <3> DEFINE p == permits
               h == inHand.size
               e == Charged(events)
               s == Charged(stash)
    <3>1. p \in Nat /\ h \in Nat /\ e \in Nat /\ s \in Nat /\ InboundBudget \in Nat
      BY <1>w, <1>e
    <3>2. p + h + e + s = InboundBudget
      BY <1>e
    <3>3. permits' = p + h
      BY <2>1
    <3> HIDE DEF p, h, e, s
    <3>4. p + h \in 0..InboundBudget
      BY ONLY <3>1, <3>2
    <3>5. QED
      BY <3>3, <3>4
  <2>3. SseTypeOK'
    BY <1>0, <1>1, <2>1, <2>2 DEF SseTypeOK
  <2>4. PermitsAreExact'
    BY <1>w, <1>e, <1>1, <2>1, SizesOfEntries DEF PermitsAreExact
  <2>5. QED
    BY <1>0, <1>1, <1>2, <2>1, <2>3, <2>4 DEF FramesInv
<1>7. QED
  BY <1>3, <1>4, <1>5, <1>6 DEF Peer, ReaderMoves

\* A call that looks in the stash takes its answer from it, or finds that it is not there.
LEMMA FramesOfLook ==
    ASSUME FramesInv, LookInStash
    PROVE  FramesInv'
<1>0. SseTypeOK /\ PermitsAreExact /\ (task = "sending" <=> inHand # NoEvent)
  BY DEF FramesInv
<1>w. /\ events \in Seq(SseEntry) /\ stash \in Seq(SseEntry)
      /\ Charged(events) \in Nat /\ Charged(stash) \in Nat /\ inHand.size \in Nat
      /\ permits \in Nat
  BY <1>0, Charges
<1>e. permits + inHand.size + Charged(events) + Charged(stash) = InboundBudget /\ InboundBudget \in Nat
  BY <1>0, SizesOfEntries DEF PermitsAreExact
<1>1. /\ stage = "posted" /\ UNCHANGED <<task, inHand, latch, events, asked>>
      /\ \/ Waiting = 0 /\ stage' = "waiting" /\ UNCHANGED <<stash, permits>>
         \/ stage' = "idle" /\ UNCHANGED <<stash, permits>>
         \/ /\ Waiting # 0 /\ stage' = "idle"
            /\ stash' = RemoveAt(stash, Waiting) /\ permits' = permits + stash[Waiting].size
  BY DEF LookInStash, sseReader
<1>2. CASE UNCHANGED <<stash, permits>>
  <2>1. SseTypeOK'
    BY <1>0, <1>1, <1>2 DEF SseTypeOK
  <2>2. PermitsAreExact'
    BY <1>0, <1>1, <1>2 DEF PermitsAreExact
  <2>3. StashIsSearched'
    BY <1>1, <1>2 DEF StashIsSearched, Waiting, SelectInSeq
  <2>4. QED
    BY <1>0, <1>1, <2>1, <2>2, <2>3 DEF FramesInv
<1>3. CASE /\ Waiting # 0 /\ stage' = "idle"
           /\ stash' = RemoveAt(stash, Waiting) /\ permits' = permits + stash[Waiting].size
  <2>1. Waiting \in 1..Len(stash)
    BY <1>3, WaitingFinds
  <2>2. PICK k \in 1..Len(stash) : k = Waiting
    BY <2>1
  <2>3. stash' = RemoveAt(stash, k) /\ permits' = permits + stash[k].size
    BY <1>3, <2>2
  <2>4. stash' \in Seq(SseEntry) /\ Charged(stash) = stash[k].size + Charged(stash')
    BY <1>w, <2>3, ChargeRemoved
  <2>5. stash' \in Seq(SseFrame) /\ Len(stash') <= StashCap
    <3>1. stash \in Seq(SseFrame) /\ Len(stash) <= StashCap
      BY <1>0 DEF SseTypeOK
    <3>2. stash' \in Seq(SseFrame) /\ Lacks(stash', stash, k)
      BY <2>3, <3>1, RemoveAtLacks
    <3>3. Len(stash') <= Len(stash)
      BY <3>1, <3>2 DEF Lacks
    <3>4. QED
      BY <3>1, <3>2, <3>3, SizesOfEntries
  <2>6. stash[k].size \in Nat /\ Charged(stash') \in Nat
    BY <1>w, <2>4, SizesOfEntries, ChargeOfQueue
  <2>7. permits' \in 0..InboundBudget /\ PermitsAreExact'
    <3> DEFINE p == permits
               h == inHand.size
               e == Charged(events)
               x == stash[k].size
               y == Charged(stash')
    <3>1. p \in Nat /\ h \in Nat /\ e \in Nat /\ x \in Nat /\ y \in Nat /\ InboundBudget \in Nat
      BY <1>w, <1>e, <2>6
    <3>2. p + h + e + (x + y) = InboundBudget
      BY <1>e, <2>4
    <3>3. permits' = p + x /\ inHand' = inHand /\ events' = events
      BY <1>1, <2>3
    <3> HIDE DEF p, h, e, x, y
    <3>4. p + x \in 0..InboundBudget /\ (p + x) + h + e + y = InboundBudget
      BY ONLY <3>1, <3>2
    <3>5. QED
      BY <3>3, <3>4 DEF PermitsAreExact, h, e, y
  <2>8. SseTypeOK'
    BY <1>0, <1>1, <2>5, <2>7 DEF SseTypeOK
  <2>9. QED
    BY <1>0, <1>1, <1>3, <2>7, <2>8 DEF FramesInv, StashIsSearched
<1>4. QED
  BY <1>1, <1>2, <1>3

\* An event that is taken is answered, dropped with its permits, or stashed, and only a
\* frame that nobody waits for is stashed.
LEMMA FramesOfTake ==
    ASSUME FramesInv, TakeEvent
    PROVE  FramesInv'
<1>0. SseTypeOK /\ PermitsAreExact /\ StashIsSearched /\ (task = "sending" <=> inHand # NoEvent)
  BY DEF FramesInv
<1>w. /\ events \in Seq(SseEntry) /\ stash \in Seq(SseEntry)
      /\ Charged(events) \in Nat /\ Charged(stash) \in Nat /\ inHand.size \in Nat
      /\ permits \in Nat
  BY <1>0, Charges
<1>e. permits + inHand.size + Charged(events) + Charged(stash) = InboundBudget /\ InboundBudget \in Nat
  BY <1>0, SizesOfEntries DEF PermitsAreExact
<1>1. /\ stage = "waiting" /\ events # <<>> /\ events' = Tail(events) /\ UNCHANGED <<task, inHand, latch, asked>>
      /\ \/ Head(events) = ErrorEvent /\ stage' = "idle" /\ UNCHANGED <<stash, permits>>
         \/ stage' = "idle" /\ permits' = permits + Head(events).size /\ UNCHANGED stash
         \/ /\ Head(events) # ErrorEvent /\ Head(events).id # asked /\ ~(Len(stash) >= StashCap)
            /\ stash' = Append(stash, Head(events)) /\ UNCHANGED <<stage, permits>>
  BY DEF TakeEvent, sseReader
<1>2. events' \in Seq(SseEntry) /\ Head(events) \in SseEntry /\ Charged(events) = Head(events).size + Charged(events')
  BY <1>w, <1>1, ChargeTaken
<1>3. Len(events') <= EventCap /\ events' \in Seq(SseFrame \cup {ErrorEvent})
  <2>1. Len(events) <= EventCap /\ Len(events') = Len(events) - 1 /\ Len(events) \in Nat
    BY <1>0, <1>w, <1>1 DEF SseTypeOK
  <2>2. QED
    BY <1>2, <2>1, SizesOfEntries DEF SseEntry
<1>4. Head(events).size \in Nat /\ Charged(events') \in Nat
  BY <1>2, SizesOfEntries, ChargeOfQueue
<1>5. CASE Head(events) = ErrorEvent /\ stage' = "idle" /\ UNCHANGED <<stash, permits>>
  <2>1. Charged(events') = Charged(events)
    BY <1>2, <1>4, <1>5, SizesOfEntries
  <2>2. PermitsAreExact'
    BY <1>e, <1>1, <1>5, <2>1 DEF PermitsAreExact
  <2>3. SseTypeOK'
    BY <1>0, <1>1, <1>3, <1>5 DEF SseTypeOK
  <2>4. QED
    BY <1>0, <1>1, <1>5, <2>2, <2>3 DEF FramesInv, StashIsSearched
<1>6. CASE stage' = "idle" /\ permits' = permits + Head(events).size /\ UNCHANGED stash
  <2>1. permits' \in 0..InboundBudget /\ PermitsAreExact'
    <3> DEFINE p == permits
               h == inHand.size
               s == Charged(stash)
               x == Head(events).size
               y == Charged(events')
    <3>1. p \in Nat /\ h \in Nat /\ s \in Nat /\ x \in Nat /\ y \in Nat /\ InboundBudget \in Nat
      BY <1>w, <1>e, <1>4
    <3>2. p + h + (x + y) + s = InboundBudget
      BY <1>e, <1>2
    <3>3. permits' = p + x /\ inHand' = inHand /\ stash' = stash
      BY <1>1, <1>6
    <3> HIDE DEF p, h, s, x, y
    <3>4. p + x \in 0..InboundBudget /\ (p + x) + h + y + s = InboundBudget
      BY ONLY <3>1, <3>2
    <3>5. QED
      BY <3>3, <3>4 DEF PermitsAreExact, h, s, y
  <2>2. SseTypeOK'
    BY <1>0, <1>1, <1>3, <1>6, <2>1 DEF SseTypeOK
  <2>3. QED
    BY <1>0, <1>1, <1>6, <2>1, <2>2 DEF FramesInv, StashIsSearched
<1>7. CASE /\ Head(events) # ErrorEvent /\ Head(events).id # asked /\ ~(Len(stash) >= StashCap)
           /\ stash' = Append(stash, Head(events)) /\ UNCHANGED <<stage, permits>>
  <2> DEFINE f == Head(events)
  <2>1. f \in SseFrame /\ stash \in Seq(SseFrame) /\ Len(stash) \in Nat
    BY <1>0, <1>2, <1>7 DEF SseEntry, SseTypeOK
  <2>2. Charged(stash') = Charged(stash) + f.size
    BY <1>w, <1>2, <1>7, ChargeAppended
  <2>3. stash' \in Seq(SseFrame) /\ Len(stash') = Len(stash) + 1 /\ Len(stash') <= StashCap
    BY <1>7, <2>1, SizesOfEntries
  <2>4. PermitsAreExact'
    <3> DEFINE p == permits
               h == inHand.size
               s == Charged(stash)
               x == Head(events).size
               y == Charged(events')
    <3>1. p \in Nat /\ h \in Nat /\ s \in Nat /\ x \in Nat /\ y \in Nat /\ InboundBudget \in Nat
      BY <1>w, <1>e, <1>4
    <3>2. p + h + (x + y) + s = InboundBudget
      BY <1>e, <1>2
    <3>3. permits' = p /\ inHand' = inHand /\ Charged(stash') = s + x
      BY <1>1, <1>7, <2>2
    <3> HIDE DEF p, h, s, x, y
    <3>4. p + h + y + (s + x) = InboundBudget
      BY ONLY <3>1, <3>2
    <3>5. QED
      BY <3>3, <3>4 DEF PermitsAreExact, h, y
  <2>5. SseTypeOK'
    BY <1>0, <1>1, <1>3, <1>7, <2>3 DEF SseTypeOK
  <2>6. StashIsSearched'
    <3>1. Found = {}
      BY <1>0, <1>1, <2>1, WaitingFinds DEF StashIsSearched
    <3>2. \A i \in 1..Len(stash') : stash'[i] = IF i = Len(stash) + 1 THEN f ELSE stash[i]
      BY <1>7, <2>1
    <3>3. ASSUME NEW i \in 1..Len(stash') PROVE stash'[i].id # asked'
      <4>1. asked' = asked /\ f.id # asked
        BY <1>1, <1>7
      <4>2. CASE i = Len(stash) + 1
        BY <3>2, <4>1, <4>2
      <4>3. CASE i # Len(stash) + 1
        <5>1. i \in 1..Len(stash) /\ stash'[i] = stash[i]
          BY <2>1, <2>3, <3>2, <4>3
        <5>2. stash[i].id # asked
          BY <3>1, <5>1 DEF Found
        <5>3. QED
          BY <4>1, <5>1, <5>2
      <4>4. QED
        BY <4>2, <4>3
    <3>4. Waiting' = IF Found' # {} THEN Min(Found') ELSE 0
      BY DEF Waiting, SelectInSeq, Found
    <3>5. Found' = {}
      BY <3>3 DEF Found
    <3>6. QED
      BY <3>4, <3>5 DEF StashIsSearched
  <2>7. QED
    BY <1>0, <1>1, <1>7, <2>4, <2>5, <2>6 DEF FramesInv
<1>8. QED
  BY <1>1, <1>5, <1>6, <1>7

\* The rest of the transport moves no frame.
LEMMA FramesElsewhere ==
    ASSUME FramesInv, Connecting \/ GiveUp \/ CloseMoves \/ Post \/ PostEnds \/ CallerLeaves \/ ShutDown
    PROVE  FramesInv'
<1>0. SseTypeOK /\ PermitsAreExact /\ StashIsSearched /\ (task = "sending" <=> inHand # NoEvent)
      /\ (stage \in {"connect", "endpoint", "endpoint_with_secrets"} => task = "none")
  BY DEF FramesInv
<1>1. /\ UNCHANGED <<inHand, events, stash, permits, latch>>
      /\ asked' \in 0..SseCalls
      /\ stage' # "waiting"
  <2>1. CASE Connecting
    BY <1>0, <2>1 DEF Connecting, OpenStream, EndpointNamed, NoEndpoint, sseReader, SseTypeOK
  <2>2. CASE GiveUp \/ CallerLeaves \/ ShutDown \/ CloseMoves
    BY <1>0, <2>2 DEF GiveUp, CallerLeaves, ShutDown, CloseMoves, TaskJoined, JoinTimesOut, ShutdownEnds,
       sseReader, SseTypeOK
  <2>3. CASE Post \/ PostEnds
    BY <1>0, <2>3, SizesOfEntries DEF Post, PostEnds, sseReader, SseTypeOK
  <2>4. QED
    BY <2>1, <2>2, <2>3
<1>2. /\ task' \in {task, "reading"} /\ (task' # task => task = "none")
      /\ stage' \in {"connect", "endpoint", "endpoint_with_secrets"} => task' = "none"
  <2>1. CASE Connecting
    BY <1>0, <2>1 DEF Connecting, OpenStream, EndpointNamed, NoEndpoint, sseReader
  <2>2. CASE GiveUp \/ CallerLeaves \/ ShutDown \/ CloseMoves \/ Post \/ PostEnds
    BY <1>0, <2>2 DEF GiveUp, CallerLeaves, ShutDown, CloseMoves, TaskJoined, JoinTimesOut, ShutdownEnds,
       Post, PostEnds, sseReader
  <2>3. QED
    BY <2>1, <2>2
<1>3. SseTypeOK'
  BY <1>0, <1>1, <1>2 DEF SseTypeOK
<1>4. PermitsAreExact'
  BY <1>0, <1>1 DEF PermitsAreExact
<1>5. QED
  BY <1>0, <1>1, <1>2, <1>3, <1>4 DEF FramesInv, StashIsSearched

LEMMA FramesKeep == FramesInv /\ SseStep => FramesInv'
BY FramesOfReader, FramesOfLook, FramesOfTake, FramesElsewhere DEF SseStep, CallMoves

LEMMA FramesStutter == FramesInv /\ UNCHANGED sseVars => FramesInv'
<1> SUFFICES ASSUME FramesInv, UNCHANGED sseVars PROVE FramesInv'
  OBVIOUS
<1>1. /\ stage' = stage /\ events' = events /\ stash' = stash /\ permits' = permits /\ asked' = asked
      /\ replies' = replies /\ task' = task /\ inHand' = inHand /\ latch' = latch
  BY DEF sseVars, sseReader
<1>2. SseTypeOK'
  BY <1>1 DEF FramesInv, SseTypeOK
<1>3. PermitsAreExact'
  BY <1>1 DEF FramesInv, PermitsAreExact
<1>4. StashIsSearched'
  BY <1>1 DEF FramesInv, StashIsSearched, Waiting, SelectInSeq
<1>5. QED
  BY <1>1, <1>2, <1>3, <1>4 DEF FramesInv

-----------------------------------------------------------------------------
(***************************************************************************)
(* HTTP.                                                                   *)
(***************************************************************************)
\* The registry holds of a tool what the last list that named it annotated, and a request
\* on its way has the headers it had when it was prepared.
HttpInv ==
    /\ stateless \in BOOLEAN
    /\ DOMAIN registry \subseteq Tools
    /\ offered \in [Tools -> Schemas \cup {Unlisted}]
    /\ \A t \in DOMAIN registry :
          registry[t] = CollectToolHeaders(offered[t]) /\ offered[t] # Unlisted /\ Acceptable(offered[t])
    /\ exchange # <<>> => exchange[1].request \in Requests
    /\ HttpTypeOK /\ HeadersFollowSchema /\ StreamAnswersOwn

LEMMA HttpBegins == HttpInit => HttpInv
BY DEF HttpInit, HttpInv, HttpTypeOK, HeadersFollowSchema, StreamAnswersOwn

\* What a stream gives back is a response, if anything.
LEMMA StreamsGiveAnswers ==
    ASSUME NEW resp \in Responses, Streamed(resp)
    PROVE  ReadSseResponse(resp) \in {"too_many", "own", "http", "closed"}
<1> DEFINE I == {i \in 1..Len(resp.stream) : IsAnswer(resp.stream[i])}
<1>1. resp.stream \in Seq(Events)
  BY ExchangeAssumption DEF Responses, Streamed, SeqOf
<1>2. I # {} => Min(I) \in I
  <2>1. I \in SUBSET Nat
    BY <1>1
  <2>2. QED
    BY <2>1, LeastOne
<1>3. SelectInSeq(resp.stream, IsAnswer) # 0 => resp.stream[SelectInSeq(resp.stream, IsAnswer)] = "own"
  BY <1>2 DEF SelectInSeq, IsAnswer
<1>4. QED
  BY <1>3 DEF ReadSseResponse

LEMMA AnswersAreTyped ==
    ASSUME NEW resp \in Responses
    PROVE  Taken(resp) \in {"http", "body", "too_many", "own", "closed"}
BY StreamsGiveAnswers DEF Taken
\* A call is sent with the arguments its tool's schema annotates, if they are of the type.
LEMMA AskKeeps ==
    ASSUME HttpInv, NEW r \in Requests, Ask(r)
    PROVE  HttpInv'
<1> USE DEF HttpInv
<1>1. CASE Unpreparable(r)
  BY <1>1 DEF Ask, HttpTypeOK, HeadersFollowSchema, StreamAnswersOwn, Passed
<1>2. CASE ~Unpreparable(r)
  <2>1. /\ exchange' = <<[request |-> r, headers |-> HeadersOf(r)]>> /\ answer' = "none"
        /\ UNCHANGED <<stateless, registry, offered>>
    BY <1>2 DEF Ask
  <2>2. exchange'[1].request = r /\ exchange'[1].headers = HeadersOf(r)
    BY <2>1
  <2>3. HeadersFollowSchema'
    <3>1. SUFFICES ASSUME HeadersOf(r) # {}
                   PROVE  LET schema == offered[r.tool] IN
                          /\ stateless /\ schema # Unlisted /\ Acceptable(schema)
                          /\ HeadersOf(r) \subseteq {p \in Params : schema[p] = "fine" /\ r.args[p] = "fits"}
      BY <2>1, <2>2 DEF HeadersFollowSchema
    <3>2. /\ stateless /\ r.method = "tools/call" /\ r.tool \in DOMAIN registry
          /\ HeadersOf(r) = {p \in registry[r.tool] : r.args[p] # "absent"}
      BY <3>1 DEF HeadersOf, Mirrored
    <3>3. registry[r.tool] = {p \in Params : offered[r.tool][p] = "fine"}
      BY <3>2 DEF CollectToolHeaders
    <3>4. ASSUME NEW p \in registry[r.tool] PROVE r.args[p] \in Values \ {"other", "unsafe_integer"}
      <4>1. r.args \in [Params -> Values]
        BY <3>2 DEF Requests
      <4>2. r.args[p] \notin {"other", "unsafe_integer"}
        BY <1>2, <3>2 DEF Unpreparable, Mirrored
      <4>3. QED
        BY <3>3, <4>1, <4>2
    <3>5. QED
      BY <3>2, <3>3, <3>4 DEF Values
  <2>4. QED
    BY <2>1, <2>2, <2>3 DEF HttpTypeOK, StreamAnswersOwn, Passed
<1>3. QED
  BY <1>1, <1>2

\* What a list names replaces what was known of it, and a tool that is spoiled is removed.
LEMMA ListKeeps ==
    ASSUME HttpInv, NEW lists \in [Tools -> Schemas \cup {Unlisted}],
           registry' = ProcessToolsList(lists),
           offered' = [t \in Tools |-> IF lists[t] = Unlisted THEN offered[t] ELSE lists[t]]
    PROVE  /\ DOMAIN registry' \subseteq Tools
           /\ offered' \in [Tools -> Schemas \cup {Unlisted}]
           /\ \A t \in DOMAIN registry' :
                 /\ registry'[t] = CollectToolHeaders(offered'[t])
                 /\ offered'[t] # Unlisted /\ Acceptable(offered'[t])
<1> DEFINE listed == {t \in Tools : lists[t] # Unlisted}
           fine == {t \in listed : Acceptable(lists[t])}
<1>1. DOMAIN registry' = (DOMAIN registry \ listed) \cup fine
  BY DEF ProcessToolsList
<1>2. \A t \in DOMAIN registry' :
        registry'[t] = IF t \in fine THEN CollectToolHeaders(lists[t]) ELSE registry[t]
  BY DEF ProcessToolsList
<1>3. \A t \in fine : offered'[t] = lists[t] /\ lists[t] # Unlisted /\ Acceptable(lists[t])
  OBVIOUS
<1>4. \A t \in DOMAIN registry \ listed : t \notin fine /\ offered'[t] = offered[t]
  BY DEF HttpInv
<1>5. DOMAIN registry \subseteq Tools /\ offered \in [Tools -> Schemas \cup {Unlisted}]
  BY DEF HttpInv
<1>6. \A t \in DOMAIN registry :
        registry[t] = CollectToolHeaders(offered[t]) /\ offered[t] # Unlisted /\ Acceptable(offered[t])
  BY DEF HttpInv
<1>7. QED
  BY <1>1, <1>2, <1>3, <1>4, <1>5, <1>6

LEMMA RespondKeeps ==
    ASSUME HttpInv, NEW resp \in Responses, Respond(resp)
    PROVE  HttpInv'
<1>1. answer' \in {"http", "body", "too_many", "own", "closed"} /\ exchange' = <<>> /\ stateless' = stateless
  BY AnswersAreTyped DEF Respond
<1>2. /\ DOMAIN registry' \subseteq Tools
      /\ offered' \in [Tools -> Schemas \cup {Unlisted}]
      /\ \A t \in DOMAIN registry' :
            /\ registry'[t] = CollectToolHeaders(offered'[t])
            /\ offered'[t] # Unlisted /\ Acceptable(offered'[t])
  <2>1. CASE UNCHANGED <<registry, offered>>
    BY <2>1 DEF HttpInv
  <2>2. CASE ~UNCHANGED <<registry, offered>>
    <3>1. /\ exchange[1].request.method = "tools/list"
          /\ registry' = ProcessToolsList(exchange[1].request.lists)
          /\ offered' = [t \in Tools |-> IF exchange[1].request.lists[t] = Unlisted THEN offered[t]
                                         ELSE exchange[1].request.lists[t]]
      BY <2>2 DEF Respond
    <3>2. exchange[1].request \in Requests
      BY DEF HttpInv, Respond
    <3>3. exchange[1].request.lists \in [Tools -> Schemas \cup {Unlisted}]
      BY <3>1, <3>2 DEF Requests
    <3>4. QED
      BY <3>1, <3>3, ListKeeps
  <2>3. QED
    BY <2>1, <2>2
<1>3. \A t \in DOMAIN registry' : registry'[t] \subseteq Params
  BY <1>2 DEF CollectToolHeaders
<1>4. stateless' \in BOOLEAN
  BY <1>1, Zenon DEF HttpInv
<1>5. QED
  BY <1>1, <1>2, <1>3, <1>4 DEF HttpInv, HttpTypeOK, HeadersFollowSchema, StreamAnswersOwn, Passed

LEMMA HttpKeeps == HttpInv /\ HttpStep => HttpInv'
<1> SUFFICES ASSUME HttpInv, HttpStep PROVE HttpInv'
  OBVIOUS
<1>1. CASE Fails
  BY <1>1 DEF Fails, HttpInv, HttpTypeOK, HeadersFollowSchema, StreamAnswersOwn, Passed
<1>2. QED
  BY <1>1, AskKeeps, RespondKeeps DEF HttpStep

-----------------------------------------------------------------------------
(***************************************************************************)
(* The control channel.  What is between the writer and the reader is a    *)
(* suffix of the accepted frames on the wire, and the reader is between    *)
(* two frames, inside of one, or lost since a poll gave up inside of one.  *)
(***************************************************************************)
\* The n-th piece of frame k and its newline.
PieceAt(k, n) == [frame |-> k, part |-> IF n <= Size[k] THEN n ELSE 0]

Stream == pipe \o sending

\* Piece follows piece up to a newline, and then comes the next accepted frame.
OnTheWire(s, g) ==
    /\ s \in Seq(Piece)
    /\ \A i \in 1..Len(s) : s[i].frame <= g /\ s[i].part <= Size[s[i].frame]
    /\ \A i, j \in 1..Len(s) :
          i < j /\ (\A m \in i..(j - 1) : s[m].part # 0)
              => s[j] = PieceAt(s[i].frame, s[i].part + (j - i))
    /\ \A i, j \in 1..Len(s) :
          j = i + 1 /\ s[i].part = 0 => s[j].part = 1 /\ NextAccepted(s[i].frame, s[j].frame)

\* Of the first g frames none after the l-th is accepted.
NoneAfter(l, g) == \A k \in (l + 1)..g : ~Fits(k)

EndsWhole(s, g) == s # <<>> => s[Len(s)].part = 0 /\ NoneAfter(s[Len(s)].frame, g)

Between(s) ==
    /\ receiving => buffer = <<>>
    /\ s = <<>> => writer = "dead" \/ NoneAfter(LastGot, given)
    /\ s # <<>> => s[1].part = 1 /\ NextAccepted(LastGot, s[1].frame)

Inside(s, k, b) ==
    /\ receiving /\ k <= given /\ NextAccepted(LastGot, k)
    /\ b <= Size[k] /\ Len(buffer) = b
    /\ \A i \in 1..b : buffer[i] = PieceAt(k, i)
    /\ s = <<>> => writer = "dead"
    /\ s # <<>> => s[1] = PieceAt(k, b + 1)

Lost(s) ==
    /\ cut
    /\ receiving /\ buffer # <<>> => buffer[1].part # 1
    /\ s = <<>> => writer = "dead"
    /\ s # <<>> => s[1].part # 1

ReaderAt(s) ==
    \/ Lost(s)
    \/ ~cut /\ Between(s)
    \/ ~cut /\ \E k \in Frame : \E b \in 1..Size[k] : Inside(s, k, b)

ChannelInv ==
    /\ ChannelTypeOK
    /\ writer # "open" => sending = <<>>
    /\ result = "eof" => writer # "open"
    /\ result # "none" => ~receiving
    /\ OnTheWire(Stream, given)
    /\ writer # "dead" => EndsWhole(Stream, given)
    /\ result = "none" => ReaderAt(Stream)
    /\ InOrderWithoutGap /\ ErrorHasACause /\ EofAfterAllFrames

LEMMA FramesHaveSizes == Frame = 1..Len(Size) /\ Len(Size) \in Nat /\ \A k \in Frame : Size[k] \in Nat /\ Size[k] > 0
BY SizeAssumption DEF Frame

\* A frame on the wire is its pieces and a newline.
LEMMA WholeFrame ==
    ASSUME NEW k \in Frame
    PROVE  /\ Payload(k) \in Seq(Piece) /\ Len(Payload(k)) = Size[k]
           /\ \A i \in 1..Size[k] : Payload(k)[i] = PieceAt(k, i)
           /\ Append(Payload(k), Newline(k)) \in Seq(Piece)
           /\ Len(Append(Payload(k), Newline(k))) = Size[k] + 1
           /\ \A i \in 1..(Size[k] + 1) : Append(Payload(k), Newline(k))[i] = PieceAt(k, i)
<1>1. Size[k] \in Nat /\ Newline(k) \in Piece /\ Newline(k) = PieceAt(k, Size[k] + 1)
  BY FramesHaveSizes DEF Newline, Piece, PieceAt
<1>2. \A i \in 1..Size[k] : [frame |-> k, part |-> i] \in Piece /\ [frame |-> k, part |-> i] = PieceAt(k, i)
  BY <1>1 DEF Piece, PieceAt
<1>3. Payload(k) \in Seq(Piece) /\ Len(Payload(k)) = Size[k] /\ \A i \in 1..Size[k] : Payload(k)[i] = PieceAt(k, i)
  BY <1>1, <1>2 DEF Payload
<1>4. QED
  BY <1>1, <1>3

\* What is taken ends with the first newline, if there is one.
LEMMA TakeEnds ==
    ASSUME pipe \in Seq(Piece), NEW n \in 1..Len(pipe)
    PROVE  /\ Take(n) \in 1..n
           /\ \A m \in 1..(Take(n) - 1) : pipe[m].part # 0
           /\ pipe[Take(n)].part # 0 => Take(n) = n
<1> DEFINE ends == {i \in 1..n : pipe[i].part = 0}
<1>1. CASE ends = {}
  BY <1>1 DEF Take
<1>2. CASE ends # {}
  <2>1. Take(n) = Min(ends)
    BY <1>2 DEF Take, Min
  <2>2. ends \in SUBSET Nat
    OBVIOUS
  <2>3. Min(ends) \in ends /\ \A j \in ends : Min(ends) <= j
    BY <1>2, <2>2, LeastOne
  <2>4. Take(n) \in ends /\ \A j \in ends : Take(n) <= j
    BY <2>1, <2>3, Zenon
  <2>5. \A m \in 1..(Take(n) - 1) : m \in 1..n /\ m \notin ends
    BY <2>4
  <2>6. QED
    BY <2>4, <2>5
<1>3. QED
  BY <1>1, <1>2

LEMMA PiecesAreTyped ==
    ASSUME NEW s \in Seq(Piece)
    PROVE  /\ Len(s) \in Nat
           /\ \A i \in 1..Len(s) : s[i] \in Piece /\ s[i].frame \in Frame /\ s[i].frame \in Nat /\ s[i].part \in Nat
<1>1. \A i \in 1..Len(s) : s[i] \in Piece
  OBVIOUS
<1>2. \A p \in Piece : p.frame \in Frame /\ p.frame \in Nat /\ p.part \in Nat
  BY FramesHaveSizes DEF Piece
<1>3. QED
  BY <1>1, <1>2

LEMMA WireShortened ==
    ASSUME NEW g \in Nat, NEW s, OnTheWire(s, g), NEW t \in Seq(Piece), Len(t) <= Len(s),
           \A i \in 1..Len(t) : t[i] = s[i]
    PROVE  OnTheWire(t, g)
<1>1. Len(s) \in Nat /\ Len(t) \in Nat
  BY DEF OnTheWire
<1>2. ASSUME NEW i \in 1..Len(t), NEW j \in 1..Len(t), i < j, \A m \in i..(j - 1) : t[m].part # 0
      PROVE  t[j] = PieceAt(t[i].frame, t[i].part + (j - i))
  <2>1. i \in 1..Len(s) /\ j \in 1..Len(s) /\ \A m \in i..(j - 1) : s[m].part # 0
    <3>1. i \in 1..Len(s) /\ j \in 1..Len(s) /\ \A m \in i..(j - 1) : m \in 1..Len(t)
      BY <1>1
    <3>2. \A m \in i..(j - 1) : s[m] = t[m]
      BY <3>1, Zenon
    <3>3. QED
      BY <1>2, <3>1, <3>2, Zenon
  <2>2. s[j] = PieceAt(s[i].frame, s[i].part + (j - i))
    BY <1>2, <2>1 DEF OnTheWire
  <2>3. QED
    BY <2>2
<1>3. ASSUME NEW i \in 1..Len(t), NEW j \in 1..Len(t), j = i + 1, t[i].part = 0
      PROVE  t[j].part = 1 /\ NextAccepted(t[i].frame, t[j].frame)
  BY <1>1, <1>3 DEF OnTheWire
<1>4. \A i \in 1..Len(t) : t[i].frame <= g /\ t[i].part <= Size[t[i].frame]
  BY <1>1 DEF OnTheWire
<1>5. QED
  BY <1>2, <1>3, <1>4 DEF OnTheWire

LEMMA WireConsumed ==
    ASSUME NEW g \in Nat, NEW s, OnTheWire(s, g), NEW t \in Seq(Piece), NEW d \in Nat, Len(s) = Len(t) + d,
           \A i \in 1..Len(t) : t[i] = s[i + d]
    PROVE  OnTheWire(t, g) /\ (EndsWhole(s, g) => EndsWhole(t, g))
<1>1. s \in Seq(Piece) /\ Len(s) \in Nat /\ Len(t) \in Nat
  BY DEF OnTheWire
<1>2. \A i \in 1..Len(t) : i + d \in 1..Len(s) /\ t[i] = s[i + d]
  BY <1>1
<1>3. \A i \in 1..Len(t) : t[i].frame <= g /\ t[i].part <= Size[t[i].frame]
  BY <1>2 DEF OnTheWire
<1>4. ASSUME NEW i \in 1..Len(t), NEW j \in 1..Len(t), i < j, \A m \in i..(j - 1) : t[m].part # 0
      PROVE  t[j] = PieceAt(t[i].frame, t[i].part + (j - i))
  <2>1. ASSUME NEW m \in (i + d)..((j + d) - 1) PROVE s[m].part # 0
    <3>1. m - d \in i..(j - 1) /\ m - d \in 1..Len(t) /\ (m - d) + d = m
      BY <1>1
    <3>2. QED
      BY <1>2, <1>4, <3>1
  <2>2. i + d \in 1..Len(s) /\ j + d \in 1..Len(s) /\ i + d < j + d /\ (j + d) - (i + d) = j - i
    BY <1>1, <1>4
  <2>3. s[j + d] = PieceAt(s[i + d].frame, s[i + d].part + ((j + d) - (i + d)))
    <3> DEFINE a == i + d
               b == j + d
    <3>1. a \in 1..Len(s) /\ b \in 1..Len(s) /\ a < b /\ \A m \in a..(b - 1) : s[m].part # 0
      BY <2>1, <2>2
    <3> HIDE DEF a, b
    <3>2. s[b] = PieceAt(s[a].frame, s[a].part + (b - a))
      BY <3>1 DEF OnTheWire
    <3>3. QED
      BY <3>2 DEF a, b
  <2>4. QED
    BY <1>2, <2>2, <2>3
<1>5. ASSUME NEW i \in 1..Len(t), NEW j \in 1..Len(t), j = i + 1, t[i].part = 0
      PROVE  t[j].part = 1 /\ NextAccepted(t[i].frame, t[j].frame)
  <2>1. i + d \in 1..Len(s) /\ j + d \in 1..Len(s) /\ j + d = (i + d) + 1 /\ s[i + d].part = 0
    <3>1. i + d \in 1..Len(s) /\ j + d \in 1..Len(s) /\ t[i] = s[i + d]
      BY <1>2, Zenon
    <3>2. j + d = (i + d) + 1
      BY <1>1, <1>5
    <3>3. QED
      BY <1>5, <3>1, <3>2, Zenon
  <2>2. s[j + d].part = 1 /\ NextAccepted(s[i + d].frame, s[j + d].frame)
    BY <2>1 DEF OnTheWire
  <2>3. QED
    BY <1>2, <2>2
<1>6. EndsWhole(s, g) => EndsWhole(t, g)
  <2>1. t # <<>> => Len(t) \in 1..Len(t) /\ s # <<>> /\ t[Len(t)] = s[Len(s)]
    BY <1>1
  <2>2. QED
    BY <2>1 DEF EndsWhole
<1>7. QED
  BY <1>3, <1>4, <1>5, <1>6 DEF OnTheWire

\* The next frame, if it is accepted, follows what is on the wire.
LEMMA WireExtended ==
    ASSUME NEW g \in Nat, NEW s, OnTheWire(s, g), EndsWhole(s, g), g + 1 \in Frame, Fits(g + 1),
           NEW w, w = Append(Payload(g + 1), Newline(g + 1))
    PROVE  OnTheWire(s \o w, g + 1) /\ EndsWhole(s \o w, g + 1)
<1> DEFINE k == g + 1
           l == Len(s)
           u == s \o w
<1>1. s \in Seq(Piece) /\ l \in Nat
  BY DEF OnTheWire
<1>2. /\ Size[k] \in Nat /\ Size[k] > 0
      /\ w \in Seq(Piece) /\ Len(w) = Size[k] + 1
      /\ \A i \in 1..(Size[k] + 1) : w[i] = PieceAt(k, i)
  BY WholeFrame, FramesHaveSizes
<1> HIDE DEF k, l
<1>3. /\ u \in Seq(Piece) /\ Len(u) = l + Size[k] + 1
      /\ \A i \in 1..l : u[i] = s[i]
      /\ \A i \in (l + 1)..(l + Size[k] + 1) : u[i] = PieceAt(k, i - l)
  <2>1. /\ u \in Seq(Piece) /\ Len(u) = l + Size[k] + 1
        /\ \A i \in 1..(l + Size[k] + 1) : u[i] = IF i <= l THEN s[i] ELSE w[i - l]
    <3>1. /\ u \in Seq(Piece) /\ Len(u) = Len(s) + Len(w)
          /\ \A i \in 1..(Len(s) + Len(w)) : u[i] = IF i <= Len(s) THEN s[i] ELSE w[i - Len(s)]
      BY <1>1, <1>2, ConcatProperties
    <3>2. Len(s) = l /\ Len(s) + Len(w) = l + Size[k] + 1
      <4>1. Len(s) = l
        BY DEF l
      <4>2. Len(w) = Size[k] + 1
        BY <1>2, Zenon
      <4>3. l \in Nat /\ Size[k] \in Nat
        BY <1>1, <1>2, Zenon
      <4>4. l + (Size[k] + 1) = l + Size[k] + 1
        BY <4>3
      <4>5. QED
        BY <4>1, <4>2, <4>4, Zenon
    <3>3. QED
      BY <3>1, <3>2, Zenon
  <2>2. ASSUME NEW i \in (l + 1)..(l + Size[k] + 1) PROVE u[i] = PieceAt(k, i - l)
    <3>1. i - l \in 1..(Size[k] + 1) /\ i \in 1..(l + Size[k] + 1) /\ ~(i <= l)
      BY <1>1, <1>2
    <3>2. QED
      BY <1>2, <2>1, <3>1
  <2>3. \A i \in 1..l : i \in 1..(l + Size[k] + 1) /\ i <= l
    BY <1>1, <1>2
  <2>4. \A i \in 1..l : u[i] = s[i]
    BY <2>1, <2>3, Zenon
  <2>5. QED
    BY <2>1, <2>2, <2>4
<1> HIDE DEF u
<1>4. \A i \in 1..Len(u) : u[i].frame <= k /\ u[i].part <= Size[u[i].frame]
  <2>1. SUFFICES ASSUME NEW i \in 1..Len(u) PROVE u[i].frame <= k /\ u[i].part <= Size[u[i].frame]
    OBVIOUS
  <2>2. CASE i \in 1..l
    <3>1. s[i].frame <= g /\ s[i].part <= Size[s[i].frame] /\ s[i].frame \in Nat /\ u[i] = s[i]
      BY <1>1, <1>3, <2>2, PiecesAreTyped DEF OnTheWire, l
    <3>2. QED
      BY <3>1 DEF k
  <2>3. CASE i \in (l + 1)..(l + Size[k] + 1)
    <3>1. u[i] = PieceAt(k, i - l)
      BY <1>3, <2>3
    <3>2. u[i].frame = k /\ u[i].part = IF i - l <= Size[k] THEN i - l ELSE 0
      BY <3>1 DEF PieceAt
    <3>3. QED
      BY <1>1, <1>2, <3>2, <2>3 DEF k
  <2>4. QED
    BY <1>1, <1>2, <1>3, <2>2, <2>3
<1>5. ASSUME NEW i \in 1..Len(u), NEW j \in 1..Len(u), i < j, \A m \in i..(j - 1) : u[m].part # 0
      PROVE  u[j] = PieceAt(u[i].frame, u[i].part + (j - i))
  <2>1. CASE j <= l
    <3>1. i \in 1..l /\ j \in 1..l /\ \A m \in i..(j - 1) : s[m].part # 0
      BY <1>1, <1>3, <1>5, <2>1
    <3>2. s[j] = PieceAt(s[i].frame, s[i].part + (j - i))
      BY <3>1, <1>5 DEF OnTheWire, l
    <3>3. QED
      BY <3>1, <3>2, <1>3
  <2>2. CASE i <= l /\ j > l
    <3>1. l \in i..(j - 1) /\ s # <<>> /\ u[l] = s[l]
      BY <1>1, <1>3, <2>2 DEF l
    <3>2. s[l].part = 0
      BY <3>1 DEF EndsWhole, l
    <3>3. QED
      BY <3>1, <3>2, <1>5
  <2>3. CASE i > l
    <3>1. /\ i \in (l + 1)..(l + Size[k] + 1) /\ j \in (l + 1)..(l + Size[k] + 1)
          /\ i \in i..(j - 1)
      <4>1. l \in Nat /\ Size[k] \in Nat /\ Len(u) = l + Size[k] + 1 /\ i < j
        BY <1>1, <1>2, <1>3, <1>5, Zenon
      <4>2. QED
        BY <4>1, <2>3
    <3>2. u[i] = PieceAt(k, i - l) /\ u[j] = PieceAt(k, j - l) /\ u[i].part # 0
      BY <1>3, <1>5, <3>1
    <3>5. u[i].frame = k /\ u[i].part = i - l
      BY <3>2 DEF PieceAt
    <3>3. (i - l) + (j - i) = j - l
      BY <1>1
    <3>4. QED
      BY <3>2, <3>3, <3>5
  <2>4. QED
    BY <1>1, <1>3, <2>1, <2>2, <2>3
<1>6. ASSUME NEW i \in 1..Len(u), NEW j \in 1..Len(u), j = i + 1, u[i].part = 0
      PROVE  u[j].part = 1 /\ NextAccepted(u[i].frame, u[j].frame)
  <2>1. CASE j <= l
    <3>1. i \in 1..l /\ j \in 1..l /\ u[i] = s[i] /\ u[j] = s[j]
      BY <1>1, <1>3, <1>6, <2>1
    <3>2. QED
      BY <3>1, <1>6 DEF OnTheWire, l
  <2>2. CASE i = l
    <3>1. s # <<>> /\ l \in 1..l /\ u[i] = s[l] /\ l + 1 - l = 1 /\ u[j] = PieceAt(k, l + 1 - l)
      <4>1. l \in 1..l /\ j \in (l + 1)..(l + Size[k] + 1) /\ j = l + 1
        BY <1>1, <1>2, <1>6, <2>2
      <4>2. s # <<>>
        BY <4>1 DEF l
      <4>3. QED
        BY <1>1, <1>3, <2>2, <4>1, <4>2
    <3>2. NoneAfter(s[l].frame, g) /\ s[l].frame <= g /\ s[l].frame \in Nat
      BY <1>1, <3>1, PiecesAreTyped DEF EndsWhole, OnTheWire, l
    <3>3. NextAccepted(s[l].frame, k)
      BY <3>2 DEF NextAccepted, NoneAfter, k
    <3>4. PieceAt(k, 1).part = 1 /\ PieceAt(k, 1).frame = k
      BY <1>2 DEF PieceAt
    <3>5. QED
      BY <3>1, <3>3, <3>4
  <2>3. CASE i > l
    <3>1. i \in (l + 1)..(l + Size[k]) /\ i - l \in 1..Size[k]
      <4>1. i \in Nat /\ i + 1 \in 1..(l + Size[k] + 1)
        BY <1>3, <1>6
      <4>2. QED
        <5>1. l \in Nat /\ Size[k] \in Nat
          BY <1>1, <1>2, Zenon
        <5>2. QED
          BY <2>3, <4>1, <5>1
    <3>2. u[i] = PieceAt(k, i - l)
      BY <1>1, <1>2, <1>3, <3>1
    <3>3. u[i].part = i - l
      BY <3>1, <3>2 DEF PieceAt
    <3>4. QED
      BY <1>1, <1>6, <3>1, <3>3
  <2>4. QED
    BY <1>1, <1>3, <1>6, <2>1, <2>2, <2>3
<1>7. EndsWhole(u, k)
  <2>1. u[Len(u)] = PieceAt(k, Size[k] + 1)
    <3>1. l \in Nat /\ Size[k] \in Nat /\ Len(u) = l + Size[k] + 1
      BY <1>1, <1>2, <1>3, Zenon
    <3>2. Len(u) \in (l + 1)..(l + Size[k] + 1) /\ Len(u) - l = Size[k] + 1
      BY <3>1
    <3>3. u[Len(u)] = PieceAt(k, Len(u) - l)
      BY <1>3, <3>2, Zenon
    <3>4. QED
      BY <3>2, <3>3
  <2>2. u[Len(u)].part = 0 /\ u[Len(u)].frame = k
    BY <1>2, <2>1 DEF PieceAt
  <2>3. QED
    BY <2>2 DEF EndsWhole, NoneAfter, k
<1>8. QED
  BY <1>3, <1>4, <1>5, <1>6, <1>7 DEF OnTheWire, u, k

LEMMA GotIsGiven ==
    ASSUME ChannelInv
    PROVE  LastGot \in Nat /\ LastGot <= given /\ given \in Nat
<1>1. given \in Nat /\ got \in Seq(Frame)
  BY FramesHaveSizes DEF ChannelInv, ChannelTypeOK
<1>2. CASE got = <<>>
  BY <1>1, <1>2 DEF LastGot
<1>3. CASE got # <<>>
  <2>1. Len(got) \in 1..Len(got) /\ got[Len(got)] \in Frame
    BY <1>1, <1>3
  <2>2. got[Len(got)] <= given
    BY <2>1 DEF ChannelInv, InOrderWithoutGap
  <2>3. QED
    BY <1>1, <1>3, <2>1, <2>2, FramesHaveSizes DEF LastGot
<1>4. QED
  BY <1>2, <1>3

LEMMA StreamOfBoth ==
    ASSUME ChannelTypeOK
    PROVE  /\ Stream \in Seq(Piece) /\ Len(pipe) \in Nat /\ Len(sending) \in Nat
           /\ Len(Stream) = Len(pipe) + Len(sending)
           /\ \A i \in 1..(Len(pipe) + Len(sending)) :
                 Stream[i] = IF i <= Len(pipe) THEN pipe[i] ELSE sending[i - Len(pipe)]
           /\ sending = <<>> => Stream = pipe
           /\ Stream = <<>> <=> pipe = <<>> /\ sending = <<>>
<1>1. pipe \in Seq(Piece) /\ sending \in Seq(Piece)
  BY DEF ChannelTypeOK
<1>2. /\ Stream \in Seq(Piece) /\ Len(Stream) = Len(pipe) + Len(sending)
      /\ \A i \in 1..(Len(pipe) + Len(sending)) :
            Stream[i] = IF i <= Len(pipe) THEN pipe[i] ELSE sending[i - Len(pipe)]
  BY <1>1, ConcatProperties DEF Stream
<1>3. (sending = <<>> => Stream = pipe) /\ (Stream = <<>> <=> pipe = <<>> /\ sending = <<>>)
  BY <1>1, ConcatEmptySeq, ConcatEqualIffEmpty DEF Stream
<1>4. QED
  BY <1>1, <1>2, <1>3

\* What moves no piece past the reader leaves it where it is.
LEMMA ReaderStays ==
    ASSUME ReaderAt(Stream), Stream' = Stream,
           UNCHANGED <<given, writer, buffer, receiving, got, cut>>
    PROVE  ReaderAt(Stream)'
BY DEF ReaderAt, Between, Inside, Lost, LastGot

LEMMA SendKeeps ==
    ASSUME ChannelInv, Send
    PROVE  ChannelInv'
<1>1. /\ writer = "open" /\ sending = <<>> /\ given < Len(Size) /\ given' = given + 1
      /\ sending' = IF Size[given'] > SendLimit THEN <<>> ELSE Append(Payload(given'), Newline(given'))
      /\ UNCHANGED <<writer, pipe, buffer, receiving, got, result, cut>>
  BY DEF Send
<1>2. given \in Nat /\ LastGot \in Nat /\ LastGot <= given /\ LastGot' = LastGot
  BY <1>1, GotIsGiven DEF LastGot
<1>3. given + 1 \in Frame /\ Size[given + 1] \in Nat /\ SendLimit \in Nat
  BY <1>1, <1>2, FramesHaveSizes, LimitAssumption
<1>4. ChannelTypeOK
  BY DEF ChannelInv
<1>5. Stream = pipe /\ Stream \in Seq(Piece) /\ OnTheWire(Stream, given) /\ EndsWhole(Stream, given)
  BY <1>1, <1>4, StreamOfBoth DEF ChannelInv
<1>6. InOrderWithoutGap' /\ ErrorHasACause' /\ EofAfterAllFrames'
  <2>1. InOrderWithoutGap'
    <3>1. got \in Seq(Frame)
      BY <1>4 DEF ChannelTypeOK
    <3>2. ASSUME NEW i \in 1..Len(got)
          PROVE  got[i] <= given + 1 /\ NextAccepted(IF i = 1 THEN 0 ELSE got[i - 1], got[i])
      <4>1. got[i] <= given /\ NextAccepted(IF i = 1 THEN 0 ELSE got[i - 1], got[i])
        BY DEF ChannelInv, InOrderWithoutGap
      <4>2. got[i] \in Nat
        BY <3>1, FramesHaveSizes
      <4>3. QED
        BY <1>2, <4>1, <4>2
    <3>3. QED
      BY <1>1, <3>2 DEF InOrderWithoutGap
  <2>2. Oversized => Oversized'
    BY <1>1, <1>2 DEF Oversized
  <2>3. QED
    BY <1>1, <2>1, <2>2 DEF ChannelInv, ErrorHasACause, EofAfterAllFrames
<1>7. CASE ~Fits(given + 1)
  <2>1. sending' = <<>> /\ Stream' = Stream
    <3>1. Size[given'] > SendLimit
      BY <1>1, <1>3, <1>7 DEF Fits
    <3>2. QED
      BY <1>1, <3>1 DEF Stream
  <2>2. \A l \in Nat : NoneAfter(l, given) => NoneAfter(l, given + 1)
    BY <1>2, <1>7 DEF NoneAfter
  <2>3. OnTheWire(Stream, given + 1)
    <3>1. \A i \in 1..Len(Stream) : Stream[i].frame \in Nat
      BY <1>5, PiecesAreTyped
    <3>2. \A i \in 1..Len(Stream) : Stream[i].frame <= given + 1 /\ Stream[i].part <= Size[Stream[i].frame]
      <4>1. \A i \in 1..Len(Stream) : Stream[i].frame <= given /\ Stream[i].part <= Size[Stream[i].frame]
        BY <1>5, Zenon DEF OnTheWire
      <4>2. \A f \in Nat : f <= given => f <= given + 1
        BY <1>2
      <4>3. QED
        BY <3>1, <4>1, <4>2, Zenon
    <3>3. QED
      BY <1>5, <3>2, Zenon DEF OnTheWire
  <2>4. EndsWhole(Stream, given + 1)
    <3>1. Stream # <<>> => Stream[Len(Stream)].frame \in Nat
      <4>1. Stream # <<>> => Len(Stream) \in 1..Len(Stream)
        BY <1>5
      <4>2. QED
        BY <1>5, <4>1, PiecesAreTyped
    <3>2. QED
      BY <1>5, <2>2, <3>1 DEF EndsWhole
  <2>5. ReaderAt(Stream) => ReaderAt(Stream)'
    <3>1. \A k \in Frame : k <= given => k <= given'
      BY <1>1, <1>2, FramesHaveSizes
    <3>2. Lost(Stream) => Lost(Stream)'
      BY <1>1, <2>1 DEF Lost
    <3>3. Between(Stream) => Between(Stream)'
      BY <1>1, <1>2, <2>1, <2>2 DEF Between
    <3>4. \A k \in Frame : \A b \in 1..Size[k] : Inside(Stream, k, b) => Inside(Stream, k, b)'
      BY <1>1, <1>2, <2>1, <3>1 DEF Inside
    <3>5. QED
      BY <1>1, <3>2, <3>3, <3>4 DEF ReaderAt
  <2>6. ChannelTypeOK'
    BY <1>1, <1>2, <1>4, <2>1 DEF ChannelTypeOK
  <2>7. QED
    BY <1>1, <1>6, <2>1, <2>3, <2>4, <2>5, <2>6 DEF ChannelInv
<1>8. CASE Fits(given + 1)
  <2> DEFINE w == Append(Payload(given + 1), Newline(given + 1))
  <2>1. sending' = w /\ Stream' = Stream \o w
    <3>1. ~(Size[given'] > SendLimit)
      BY <1>1, <1>3, <1>8 DEF Fits
    <3>2. sending' = w
      BY <1>1, <3>1
    <3>3. Stream' = pipe' \o sending'
      BY DEF Stream
    <3>4. QED
      BY <1>1, <1>5, <3>2, <3>3
  <2>2. OnTheWire(Stream', given') /\ EndsWhole(Stream', given')
    BY <1>1, <1>2, <1>3, <1>5, <1>8, <2>1, WireExtended
  <2>3. /\ w \in Seq(Piece) /\ Len(w) \in Nat /\ Len(w) > 0 /\ w[1] = PieceAt(given + 1, 1)
    BY <1>3, WholeFrame, FramesHaveSizes
  <2> HIDE DEF w
  <2>4. /\ Stream' # <<>>
        /\ Stream # <<>> => Stream'[1] = Stream[1]
        /\ Stream = <<>> => Stream'[1] = PieceAt(given + 1, 1)
    <3>1. /\ Len(Stream') = Len(Stream) + Len(w) /\ Len(Stream) \in Nat
          /\ Stream'[1] = IF 1 <= Len(Stream) THEN Stream[1] ELSE w[1 - Len(Stream)]
      BY <1>5, <2>1, <2>3, ConcatProperties
    <3>2. Stream' # <<>>
      BY <2>3, <3>1
    <3>3. QED
      BY <1>5, <2>3, <3>1, <3>2
  <2>5. ReaderAt(Stream) => ReaderAt(Stream)'
    <3>1. \A k \in Frame : k <= given => k <= given'
      BY <1>1, <1>2, FramesHaveSizes
    <3>2. Lost(Stream) => Lost(Stream)'
      BY <1>1, <2>4 DEF Lost
    <3>3. Between(Stream) => Between(Stream)'
      <4>1. NoneAfter(LastGot, given) => NextAccepted(LastGot, given + 1)
        BY <1>2, <1>8 DEF NoneAfter, NextAccepted
      <4>2. PieceAt(given + 1, 1).part = 1 /\ PieceAt(given + 1, 1).frame = given + 1
        BY <1>3, FramesHaveSizes DEF PieceAt
      <4>3. QED
        BY <1>1, <1>2, <2>4, <4>1, <4>2 DEF Between
    <3>4. \A k \in Frame : \A b \in 1..Size[k] : Inside(Stream, k, b) => Inside(Stream, k, b)'
      BY <1>1, <1>2, <2>4, <3>1 DEF Inside
    <3>5. QED
      BY <1>1, <3>2, <3>3, <3>4 DEF ReaderAt
  <2>6. ChannelTypeOK'
    <3>1. given' \in 0..Len(Size)
      BY <1>1, <1>2, FramesHaveSizes
    <3>2. sending' \in Seq(Piece)
      BY <2>1, <2>3
    <3>3. QED
      BY <1>1, <1>4, <3>1, <3>2 DEF ChannelTypeOK
  <2>7. QED
    BY <1>1, <1>6, <2>2, <2>5, <2>6 DEF ChannelInv
<1>9. QED
  BY <1>7, <1>8

LEMMA WriteKeeps ==
    ASSUME ChannelInv, Write
    PROVE  ChannelInv'
<1>1. PICK n \in 1..Len(sending) :
          /\ pipe' = pipe \o SubSeq(sending, 1, n)
          /\ sending' = SubSeq(sending, n + 1, Len(sending))
  BY DEF Write
<1>2. writer = "open" /\ UNCHANGED <<given, writer, buffer, receiving, got, result, cut>>
  BY DEF Write
<1>3. pipe \in Seq(Piece) /\ sending \in Seq(Piece) /\ Len(sending) \in Nat
  BY DEF ChannelInv, ChannelTypeOK
<1>4. SubSeq(sending, 1, n) \in Seq(Piece) /\ sending' \in Seq(Piece) /\ pipe' \in Seq(Piece)
  <2>1. SubSeq(sending, 1, n) \in Seq(Piece) /\ SubSeq(sending, n + 1, Len(sending)) \in Seq(Piece)
    BY <1>3
  <2>2. QED
    BY <1>1, <1>3, <2>1, ConcatProperties
<1>5. SubSeq(sending, 1, n) \o SubSeq(sending, n + 1, Len(sending)) = sending
  <2>1. SubSeq(sending, 1, n) \o SubSeq(sending, n + 1, Len(sending)) = SubSeq(sending, 1, Len(sending))
    BY <1>3, ConcatAdjacentSubSeq
  <2>2. QED
    BY <1>3, <2>1, SubSeqFull
<1>6. Stream' = Stream
  <2>1. Stream' = pipe' \o sending'
    BY DEF Stream
  <2>2. (pipe \o SubSeq(sending, 1, n)) \o sending' = pipe \o (SubSeq(sending, 1, n) \o sending')
    BY <1>3, <1>4, ConcatAssociative, SMTT(30)
  <2>3. QED
    BY <1>1, <1>5, <2>1, <2>2 DEF Stream
<1>7. ChannelTypeOK'
  BY <1>2, <1>4 DEF ChannelInv, ChannelTypeOK
<1>8. ReaderAt(Stream) => ReaderAt(Stream)'
  BY <1>2, <1>6, ReaderStays
<1>9. InOrderWithoutGap' /\ ErrorHasACause' /\ EofAfterAllFrames'
  BY <1>2 DEF ChannelInv, InOrderWithoutGap, ErrorHasACause, EofAfterAllFrames, Oversized, LastGot
<1>10. QED
  BY <1>2, <1>6, <1>7, <1>8, <1>9 DEF ChannelInv

LEMMA CloseKeeps ==
    ASSUME ChannelInv, Close
    PROVE  ChannelInv'
<1>1. /\ writer = "open" /\ sending = <<>> /\ writer' = "closed"
      /\ UNCHANGED <<given, sending, pipe, buffer, receiving, got, result, cut>>
  BY DEF Close
<1>2. Stream' = Stream
  BY <1>1 DEF Stream
<1>3. ReaderAt(Stream) => ReaderAt(Stream)'
  BY <1>1, <1>2 DEF ReaderAt, Between, Inside, Lost, LastGot
<1>4. ChannelTypeOK' /\ InOrderWithoutGap' /\ ErrorHasACause'
  BY <1>1 DEF ChannelInv, ChannelTypeOK, InOrderWithoutGap, ErrorHasACause, Oversized
<1>5. QED
  BY <1>1, <1>2, <1>3, <1>4 DEF ChannelInv, EofAfterAllFrames

LEMMA WriterDiesKeeps ==
    ASSUME ChannelInv, WriterDies
    PROVE  ChannelInv'
<1>1. /\ writer = "open" /\ writer' = "dead" /\ sending' = <<>>
      /\ UNCHANGED <<given, pipe, buffer, receiving, got, result, cut>>
  BY DEF WriterDies
<1>2. ChannelTypeOK'
  BY <1>1 DEF ChannelInv, ChannelTypeOK
<1>3. /\ Stream' \in Seq(Piece) /\ Len(Stream') <= Len(Stream)
      /\ \A i \in 1..Len(Stream') : Stream'[i] = Stream[i]
      /\ Stream' # <<>> => Stream # <<>> /\ Stream'[1] = Stream[1]
  <2>1. ChannelTypeOK
    BY DEF ChannelInv
  <2>2. Stream' = pipe /\ pipe \in Seq(Piece)
    BY <1>1, <2>1, ConcatEmptySeq DEF Stream, ChannelTypeOK
  <2>3. /\ Len(pipe) \in Nat /\ Len(sending) \in Nat /\ Len(Stream) = Len(pipe) + Len(sending)
        /\ \A i \in 1..(Len(pipe) + Len(sending)) :
              Stream[i] = IF i <= Len(pipe) THEN pipe[i] ELSE sending[i - Len(pipe)]
        /\ pipe # <<>> => Stream # <<>> /\ Len(pipe) > 0
    BY <2>1, <2>2, StreamOfBoth
  <2>4. \A i \in 1..Len(pipe) : Stream[i] = pipe[i]
    BY <2>3
  <2>5. QED
    BY <2>2, <2>3, <2>4
<1>4. OnTheWire(Stream', given)
  BY <1>3, FramesHaveSizes, WireShortened DEF ChannelInv, ChannelTypeOK
<1>5. ReaderAt(Stream) => ReaderAt(Stream)'
  BY <1>1, <1>3 DEF ReaderAt, Between, Inside, Lost, LastGot
<1>6. InOrderWithoutGap' /\ ErrorHasACause' /\ EofAfterAllFrames'
  BY <1>1 DEF ChannelInv, InOrderWithoutGap, ErrorHasACause, EofAfterAllFrames
<1>7. QED
  BY <1>1, <1>2, <1>4, <1>5, <1>6 DEF ChannelInv

LEMMA StartReceiveKeeps ==
    ASSUME ChannelInv, StartReceive
    PROVE  ChannelInv'
<1>1. /\ result = "none" /\ ~receiving /\ receiving' = TRUE /\ buffer' = <<>>
      /\ UNCHANGED <<given, sending, writer, pipe, got, result, cut>>
  BY DEF StartReceive
<1>2. Stream' = Stream
  BY <1>1 DEF Stream
<1>3. ReaderAt(Stream) => ReaderAt(Stream)'
  BY <1>1, <1>2 DEF ReaderAt, Between, Inside, Lost, LastGot
<1>4. ChannelTypeOK'
  BY <1>1, LimitAssumption DEF ChannelInv, ChannelTypeOK
<1>5. InOrderWithoutGap' /\ ErrorHasACause' /\ EofAfterAllFrames'
  BY <1>1 DEF ChannelInv, InOrderWithoutGap, ErrorHasACause, EofAfterAllFrames, ErrorResult
<1>6. QED
  BY <1>1, <1>2, <1>3, <1>4, <1>5 DEF ChannelInv

\* A poll that gives up inside a frame loses its head, and with it the frame.
LEMMA PollExpiresKeeps ==
    ASSUME ChannelInv, PollExpires
    PROVE  ChannelInv'
<1>1. /\ receiving /\ pipe = <<>> /\ writer = "open" /\ receiving' = FALSE
      /\ cut' = (cut \/ buffer # <<>>)
      /\ UNCHANGED <<given, sending, writer, pipe, buffer, got, result>>
  BY DEF PollExpires
<1>2. Stream' = Stream
  BY <1>1 DEF Stream
<1>3. result = "none" /\ ReaderAt(Stream)
  BY <1>1 DEF ChannelInv
<1>4. ReaderAt(Stream)'
  <2>1. CASE Lost(Stream)
    BY <1>1, <1>2, <2>1 DEF ReaderAt, Lost
  <2>2. CASE ~cut /\ Between(Stream)
    BY <1>1, <1>2, <2>2 DEF ReaderAt, Between, LastGot
  <2>3. CASE ~cut /\ \E k \in Frame : \E b \in 1..Size[k] : Inside(Stream, k, b)
    <3>1. PICK k \in Frame : \E b \in 1..Size[k] : Inside(Stream, k, b)
      BY <2>3
    <3>2. PICK b \in 1..Size[k] : Inside(Stream, k, b)
      BY <3>1
    <3>3. buffer # <<>> /\ Stream # <<>> /\ Stream[1] = PieceAt(k, b + 1)
      BY <1>1, <3>2, FramesHaveSizes DEF Inside
    <3>4. Stream[1].part # 1
      BY <3>3, FramesHaveSizes DEF PieceAt
    <3>5. QED
      BY <1>1, <1>2, <3>3, <3>4 DEF ReaderAt, Lost
  <2>4. QED
    BY <1>3, <2>1, <2>2, <2>3 DEF ReaderAt
<1>5. ChannelTypeOK'
  BY <1>1 DEF ChannelInv, ChannelTypeOK
<1>6. InOrderWithoutGap' /\ ErrorHasACause' /\ EofAfterAllFrames'
  BY <1>1, <1>3 DEF ChannelInv, InOrderWithoutGap, ErrorHasACause, EofAfterAllFrames, ErrorResult
<1>7. QED
  BY <1>1, <1>2, <1>3, <1>4, <1>5, <1>6 DEF ChannelInv

\* The stream of a writer that lived ends between two frames.
LEMMA EofKeeps ==
    ASSUME ChannelInv, Eof
    PROVE  ChannelInv'
<1>1. /\ receiving /\ pipe = <<>> /\ writer # "open" /\ receiving' = FALSE
      /\ result' = IF buffer = <<>> THEN "eof" ELSE "unterminated"
      /\ UNCHANGED <<given, sending, writer, pipe, buffer, got, cut>>
  BY DEF Eof, Stop
<1>2. Stream' = Stream
  BY <1>1 DEF Stream
<1>3. Stream = <<>> /\ ReaderAt(Stream)
  <2>1. sending = <<>>
    BY <1>1 DEF ChannelInv
  <2>2. QED
    BY <1>1, <2>1, StreamOfBoth DEF ChannelInv
<1>4. ErrorHasACause' /\ EofAfterAllFrames'
  <2>1. CASE Lost(Stream)
    BY <1>1, <2>1 DEF Lost, ErrorHasACause, EofAfterAllFrames
  <2>2. CASE ~cut /\ Between(Stream)
    BY <1>1, <1>3, <2>2 DEF Between, NoneAfter, LastGot, ErrorHasACause, EofAfterAllFrames, ErrorResult
  <2>3. CASE ~cut /\ \E k \in Frame : \E b \in 1..Size[k] : Inside(Stream, k, b)
    BY <1>1, <1>3, <2>3 DEF Inside, ErrorHasACause, EofAfterAllFrames
  <2>4. QED
    BY <1>3, <2>1, <2>2, <2>3 DEF ReaderAt
<1>5. ChannelTypeOK' /\ InOrderWithoutGap'
  BY <1>1 DEF ChannelInv, ChannelTypeOK, InOrderWithoutGap, Result
<1>6. QED
  BY <1>1, <1>2, <1>4, <1>5 DEF ChannelInv

\* The pieces before the newline of what is taken, and the frame as read with them.
Before(n) == IF pipe[Take(n)].part = 0 THEN Take(n) - 1 ELSE Take(n)

ReadWith(n) == buffer \o SubSeq(pipe, 1, Before(n))

\* What a turn of the loop takes from the wire, and what is left.
LEMMA TakenFromTheWire ==
    ASSUME ChannelInv, NEW n \in 1..Len(pipe)
    PROVE  /\ Take(n) \in 1..Len(Stream) /\ Take(n) \in 1..Len(pipe) /\ Stream # <<>>
           /\ \A i \in 1..Take(n) : Stream[i] = pipe[i] /\ pipe[i] \in Piece
           /\ \A m \in 1..(Take(n) - 1) : Stream[m].part # 0
<1>1. ChannelTypeOK /\ pipe \in Seq(Piece)
  BY DEF ChannelInv, ChannelTypeOK
<1>2. /\ Stream \in Seq(Piece) /\ Len(pipe) \in Nat /\ Len(sending) \in Nat
      /\ Len(Stream) = Len(pipe) + Len(sending)
      /\ \A i \in 1..(Len(pipe) + Len(sending)) :
            Stream[i] = IF i <= Len(pipe) THEN pipe[i] ELSE sending[i - Len(pipe)]
  BY <1>1, StreamOfBoth
<1>3. Take(n) \in 1..n /\ \A m \in 1..(Take(n) - 1) : pipe[m].part # 0
  BY <1>1, TakeEnds
<1>4. Take(n) \in 1..Len(pipe) /\ Take(n) \in 1..Len(Stream)
  BY <1>2, <1>3
<1>5. \A i \in 1..Take(n) : Stream[i] = pipe[i] /\ pipe[i] \in Piece
  <2>1. \A i \in 1..Take(n) : i \in 1..Len(pipe) /\ i \in 1..(Len(pipe) + Len(sending)) /\ i <= Len(pipe)
    BY <1>2, <1>4
  <2>2. QED
    BY <1>1, <1>2, <2>1
<1>6. QED
  BY <1>2, <1>3, <1>4, <1>5

LEMMA LeftOnTheWire ==
    ASSUME ChannelInv, NEW t \in 1..Len(pipe), pipe' = SubSeq(pipe, t + 1, Len(pipe)), sending' = sending
    PROVE  /\ pipe' \in Seq(Piece) /\ Stream' \in Seq(Piece) /\ Len(Stream) = Len(Stream') + t
           /\ \A i \in 1..Len(Stream') : Stream'[i] = Stream[i + t]
<1>1. ChannelTypeOK /\ pipe \in Seq(Piece) /\ sending \in Seq(Piece)
  BY DEF ChannelInv, ChannelTypeOK
<1>2. /\ Stream \in Seq(Piece) /\ Len(pipe) \in Nat /\ Len(sending) \in Nat
      /\ Len(Stream) = Len(pipe) + Len(sending)
      /\ \A i \in 1..(Len(pipe) + Len(sending)) :
            Stream[i] = IF i <= Len(pipe) THEN pipe[i] ELSE sending[i - Len(pipe)]
  BY <1>1, StreamOfBoth
<1>3. /\ pipe' \in Seq(Piece) /\ Len(pipe') = Len(pipe) - t
      /\ \A i \in 1..(Len(pipe) - t) : pipe'[i] = pipe[i + t]
  BY <1>1, <1>2
<1>4. Stream' = pipe' \o sending
  BY DEF Stream
<1>5. /\ Stream' \in Seq(Piece) /\ Len(Stream') = Len(pipe') + Len(sending)
      /\ \A i \in 1..(Len(pipe') + Len(sending)) :
            Stream'[i] = IF i <= Len(pipe') THEN pipe'[i] ELSE sending[i - Len(pipe')]
  BY <1>1, <1>3, <1>4, ConcatProperties
<1>6. Len(Stream) = Len(Stream') + t
  BY <1>2, <1>3, <1>5
<1>7. ASSUME NEW i \in 1..Len(Stream') PROVE Stream'[i] = Stream[i + t]
  <2>1. i + t \in 1..(Len(pipe) + Len(sending)) /\ i \in 1..(Len(pipe') + Len(sending))
    BY <1>2, <1>3, <1>5
  <2>2. CASE i <= Len(pipe')
    <3>1. i + t <= Len(pipe) /\ i \in 1..(Len(pipe) - t)
      BY <1>2, <1>3, <2>1, <2>2
    <3>2. Stream'[i] = pipe'[i] /\ Stream[i + t] = pipe[i + t]
      BY <1>2, <1>5, <2>1, <2>2, <3>1, Zenon
    <3>3. QED
      BY <1>3, <3>1, <3>2, Zenon
  <2>3. CASE ~(i <= Len(pipe'))
    <3>1. ~(i + t <= Len(pipe)) /\ (i + t) - Len(pipe) = i - Len(pipe')
      <4>1. Len(pipe') = Len(pipe) - t /\ Len(pipe) \in Nat
        BY <1>2, <1>3, Zenon
      <4>2. i \in Nat /\ t \in Nat
        BY <2>1
      <4>3. \A m \in Nat : ~(i <= m - t) => ~(i + t <= m) /\ (i + t) - m = i - (m - t)
        BY <4>2
      <4>4. QED
        BY <2>3, <4>1, <4>3, Zenon
    <3>2. QED
      BY <1>2, <1>5, <2>1, <2>3, <3>1
  <2>4. QED
    BY <2>2, <2>3
<1>8. QED
  BY <1>3, <1>5, <1>6, <1>7

\* The reader reads on in one accepted frame.
LEMMA ReadsOneFrame ==
    ASSUME ChannelInv, receiving, ~cut, ReaderAt(Stream), Stream # <<>>
    PROVE  \E k \in Frame :
              /\ k <= given /\ NextAccepted(LastGot, k)
              /\ Len(buffer) \in 0..Size[k]
              /\ \A i \in 1..Len(buffer) : buffer[i] = PieceAt(k, i)
              /\ Stream[1] = PieceAt(k, Len(buffer) + 1)
<1>1. Stream \in Seq(Piece) /\ 1 \in 1..Len(Stream)
  BY DEF ChannelInv, OnTheWire
<1>2. CASE Between(Stream)
  <2>1. buffer = <<>> /\ Stream[1].part = 1 /\ NextAccepted(LastGot, Stream[1].frame)
    BY <1>2 DEF Between
  <2>2. Stream[1] \in Piece /\ Stream[1].frame \in Frame /\ Stream[1].frame <= given
    BY <1>1, PiecesAreTyped DEF ChannelInv, OnTheWire
  <2>3. \A p \in Piece : p.part = 1 => p = PieceAt(p.frame, 1)
    BY FramesHaveSizes DEF Piece, PieceAt
  <2>4. Size[Stream[1].frame] \in Nat /\ Len(buffer) = 0
    BY <2>1, <2>2, FramesHaveSizes
  <2>5. QED
    BY <2>1, <2>2, <2>3, <2>4
<1>3. CASE \E k \in Frame : \E b \in 1..Size[k] : Inside(Stream, k, b)
  <2>1. PICK k \in Frame : \E b \in 1..Size[k] : Inside(Stream, k, b)
    BY <1>3
  <2>2. PICK b \in 1..Size[k] : Inside(Stream, k, b)
    BY <2>1
  <2>3. QED
    BY <2>2, FramesHaveSizes DEF Inside
<1>4. QED
  BY <1>2, <1>3 DEF ReaderAt, Lost

LEMMA WhatIsRead ==
    ASSUME ChannelInv, NEW n \in 1..Len(pipe)
    PROVE  /\ Before(n) \in Nat /\ ReadWith(n) \in Seq(Piece) /\ Len(ReadWith(n)) = Len(buffer) + Before(n)
           /\ \A i \in 1..Len(buffer) : ReadWith(n)[i] = buffer[i]
           /\ \A i \in 1..Before(n) : ReadWith(n)[Len(buffer) + i] = Stream[i]
<1>1. pipe \in Seq(Piece) /\ buffer \in Seq(Piece) /\ Len(buffer) \in Nat /\ Len(pipe) \in Nat
  BY DEF ChannelInv, ChannelTypeOK
<1>2. Take(n) \in 1..Len(pipe) /\ \A i \in 1..Take(n) : Stream[i] = pipe[i] /\ pipe[i] \in Piece
  BY TakenFromTheWire
<1>3. Before(n) \in 0..Take(n)
  BY <1>1, <1>2 DEF Before
<1>4. /\ SubSeq(pipe, 1, Before(n)) \in Seq(Piece) /\ Len(SubSeq(pipe, 1, Before(n))) = Before(n)
      /\ \A i \in 1..Before(n) : SubSeq(pipe, 1, Before(n))[i] = Stream[i]
  BY <1>1, <1>2, <1>3
<1> DEFINE u == SubSeq(pipe, 1, Before(n))
<1> HIDE DEF u
<1>5. /\ u \in Seq(Piece) /\ Len(u) = Before(n) /\ \A i \in 1..Before(n) : u[i] = Stream[i]
      /\ ReadWith(n) = buffer \o u
  BY <1>4 DEF u, ReadWith
<1>6. /\ ReadWith(n) \in Seq(Piece) /\ Len(ReadWith(n)) = Len(buffer) + Len(u)
      /\ \A i \in 1..(Len(buffer) + Len(u)) :
            ReadWith(n)[i] = IF i <= Len(buffer) THEN buffer[i] ELSE u[i - Len(buffer)]
  <2>1. /\ buffer \o u \in Seq(Piece) /\ Len(buffer \o u) = Len(buffer) + Len(u)
        /\ \A i \in 1..(Len(buffer) + Len(u)) :
              (buffer \o u)[i] = IF i <= Len(buffer) THEN buffer[i] ELSE u[i - Len(buffer)]
    BY <1>1, <1>5, ConcatProperties
  <2>2. QED
    BY <1>5, <2>1, Zenon
<1>7. \A i \in 1..Len(buffer) : ReadWith(n)[i] = buffer[i]
  BY <1>1, <1>3, <1>5, <1>6
<1>8. ASSUME NEW i \in 1..Before(n) PROVE ReadWith(n)[Len(buffer) + i] = Stream[i]
  <2>1. /\ Len(buffer) + i \in 1..(Len(buffer) + Len(u)) /\ ~(Len(buffer) + i <= Len(buffer))
        /\ (Len(buffer) + i) - Len(buffer) = i
    BY <1>1, <1>3, <1>5
  <2>2. QED
    BY <1>5, <1>6, <2>1
<1>9. QED
  BY <1>1, <1>2, <1>3, <1>5, <1>6, <1>7, <1>8

\* Up to its newline, what is read is the frame.
LEMMA ReadsTheFrame ==
    ASSUME ChannelInv, receiving, ~cut, ReaderAt(Stream),
           NEW n \in 1..Len(pipe)
    PROVE  \E k \in Frame :
              /\ k <= given /\ NextAccepted(LastGot, k)
              /\ Len(ReadWith(n)) <= Size[k]
              /\ \A i \in 1..Len(ReadWith(n)) : ReadWith(n)[i] = PieceAt(k, i)
              /\ Stream[Take(n)].frame = k
              /\ pipe[Take(n)].part = 0 => ReadWith(n) = Payload(k)
              /\ pipe[Take(n)].part # 0 => Stream[Take(n)].part = Len(ReadWith(n))
<1>1. /\ Take(n) \in 1..Len(Stream) /\ Take(n) \in 1..Len(pipe) /\ Stream # <<>>
      /\ \A i \in 1..Take(n) : Stream[i] = pipe[i] /\ pipe[i] \in Piece
      /\ \A m \in 1..(Take(n) - 1) : Stream[m].part # 0
  BY TakenFromTheWire
<1>2. /\ Before(n) \in Nat /\ ReadWith(n) \in Seq(Piece) /\ Len(ReadWith(n)) = Len(buffer) + Before(n)
      /\ \A i \in 1..Len(buffer) : ReadWith(n)[i] = buffer[i]
      /\ \A i \in 1..Before(n) : ReadWith(n)[Len(buffer) + i] = Stream[i]
  BY WhatIsRead
<1> DEFINE b == Len(buffer)
<1>3. b \in Nat /\ Len(Stream) \in Nat /\ Take(n) \in Nat /\ Take(n) > 0
  <2>1. buffer \in Seq(Piece) /\ Stream \in Seq(Piece)
    BY DEF ChannelInv, ChannelTypeOK, OnTheWire
  <2>2. QED
    BY <1>1, <2>1
<1>4. PICK k \in Frame :
         /\ k <= given /\ NextAccepted(LastGot, k)
         /\ b \in 0..Size[k]
         /\ \A i \in 1..b : buffer[i] = PieceAt(k, i)
         /\ Stream[1] = PieceAt(k, b + 1)
  BY <1>1, ReadsOneFrame
<1>5. Size[k] \in Nat /\ Size[k] > 0
  BY FramesHaveSizes
<1> HIDE DEF b
<1>6. ASSUME NEW j \in 1..Take(n) PROVE Stream[j] = PieceAt(k, b + j)
  <2>1. CASE j = 1
    BY <1>4, <2>1
  <2>2. CASE j # 1
    <3>1. /\ 1 \in 1..Len(Stream) /\ j \in 1..Len(Stream) /\ 1 < j /\ 1 \in 1..(Take(n) - 1)
          /\ \A m \in 1..(j - 1) : Stream[m].part # 0
      BY <1>1, <1>3, <2>2
    <3>2. Stream[j] = PieceAt(Stream[1].frame, Stream[1].part + (j - 1))
      BY <3>1 DEF ChannelInv, OnTheWire
    <3>3. Stream[1].frame = k /\ Stream[1].part = b + 1
      <4>1. PieceAt(k, b + 1).part # 0
        BY <1>1, <1>4, <3>1
      <4>2. QED
        BY <1>4, <4>1 DEF PieceAt
    <3>4. (b + 1) + (j - 1) = b + j
      BY <1>3
    <3>5. QED
      BY <3>2, <3>3, <3>4
  <2>3. QED
    BY <2>1, <2>2
<1>7. \A j \in 1..Take(n) : Stream[j].frame = k /\ Stream[j].part = IF b + j <= Size[k] THEN b + j ELSE 0
  <2>1. \A m \in Nat : PieceAt(k, m).frame = k /\ PieceAt(k, m).part = IF m <= Size[k] THEN m ELSE 0
    BY DEF PieceAt
  <2>2. \A j \in 1..Take(n) : b + j \in Nat
    BY <1>3
  <2>3. QED
    BY <1>6, <2>1, <2>2
<1>8. Stream[Take(n)] = pipe[Take(n)] /\ Take(n) \in 1..Take(n)
  BY <1>1, <1>3
<1>9. Take(n) - 1 > 0 => b + (Take(n) - 1) <= Size[k]
  <2>1. ASSUME Take(n) - 1 > 0 PROVE b + (Take(n) - 1) <= Size[k]
    <3>1. Take(n) - 1 \in 1..Take(n) /\ Take(n) - 1 \in 1..(Take(n) - 1)
      BY <1>3, <2>1
    <3>2. QED
      BY <1>1, <1>7, <3>1
  <2>2. QED
    BY <2>1
<1>10. b + (Take(n) - 1) <= Size[k]
  BY <1>3, <1>4, <1>9
<1>11. CASE pipe[Take(n)].part = 0
  <2>1. Before(n) = Take(n) - 1 /\ b + Take(n) > Size[k]
    <3>1. b + Take(n) > 0 /\ b + Take(n) \in Nat
      BY <1>3
    <3>2. QED
      BY <1>5, <1>7, <1>8, <1>11, <3>1 DEF Before
  <2>2. b + Before(n) = Size[k]
    BY <1>3, <1>5, <1>10, <2>1
  <2>3. QED
    <3>1. Len(ReadWith(n)) = Size[k]
      BY <1>2, <2>2 DEF b
    <3>2. \A i \in 1..Len(ReadWith(n)) : ReadWith(n)[i] = PieceAt(k, i)
      <4>1. SUFFICES ASSUME NEW i \in 1..Len(ReadWith(n)) PROVE ReadWith(n)[i] = PieceAt(k, i)
        OBVIOUS
      <4>2. CASE i <= b
        BY <1>2, <1>3, <1>4, <4>2 DEF b
      <4>3. CASE ~(i <= b)
        <5>1. i - b \in 1..Before(n) /\ i - b \in 1..Take(n) /\ b + (i - b) = i
          BY <1>3, <1>5, <2>1, <2>2, <3>1, <4>3
        <5>2. QED
          BY <1>2, <1>6, <5>1 DEF b
      <4>4. QED
        BY <4>2, <4>3
    <3>3. ReadWith(n) = Payload(k)
      <4>1. /\ Payload(k) \in Seq(Piece) /\ Len(Payload(k)) = Size[k]
            /\ \A i \in 1..Size[k] : Payload(k)[i] = PieceAt(k, i)
        BY WholeFrame
      <4>2. Len(ReadWith(n)) = Len(Payload(k)) /\ \A i \in 1..Len(ReadWith(n)) : ReadWith(n)[i] = Payload(k)[i]
        BY <3>1, <3>2, <4>1
      <4>3. ReadWith(n) \in Seq(Piece)
        BY <1>2
      <4>4. QED
        BY <4>1, <4>2, <4>3, SeqEqual
    <3>4. QED
      BY <1>4, <1>5, <1>7, <1>8, <1>11, <3>1, <3>2, <3>3
<1>12. CASE pipe[Take(n)].part # 0
  <2>1. Before(n) = Take(n) /\ b + Take(n) <= Size[k] /\ Stream[Take(n)].part = b + Take(n)
    BY <1>7, <1>8, <1>12 DEF Before
  <2>2. Len(ReadWith(n)) = b + Take(n)
    BY <1>2, <2>1 DEF b
  <2>3. \A i \in 1..Len(ReadWith(n)) : ReadWith(n)[i] = PieceAt(k, i)
    <3>1. SUFFICES ASSUME NEW i \in 1..Len(ReadWith(n)) PROVE ReadWith(n)[i] = PieceAt(k, i)
      OBVIOUS
    <3>2. CASE i <= b
      BY <1>2, <1>3, <1>4, <3>2 DEF b
    <3>3. CASE ~(i <= b)
      <4>1. i - b \in 1..Before(n) /\ i - b \in 1..Take(n) /\ b + (i - b) = i
        BY <1>3, <2>1, <2>2, <3>3
      <4>2. QED
        BY <1>2, <1>6, <4>1 DEF b
    <3>4. QED
      BY <3>2, <3>3
  <2>4. QED
    BY <1>4, <1>7, <1>8, <1>12, <2>1, <2>2, <2>3
<1>13. QED
  BY <1>11, <1>12

\* What a lost reader reads is no frame, for its head is missing.
LEMMA ReadsNoFrame ==
    ASSUME ChannelInv, receiving, Lost(Stream),
           NEW n \in 1..Len(pipe)
    PROVE  /\ ~IsFrame(ReadWith(n)) /\ (ReadWith(n) # <<>> => ReadWith(n)[1].part # 1)
           /\ pipe[Take(n)].part # 0 => ReadWith(n) # <<>>
<1>1. /\ Take(n) \in 1..Len(Stream) /\ Take(n) \in 1..Len(pipe) /\ Stream # <<>> /\ Len(pipe) \in Nat
  BY TakenFromTheWire DEF ChannelInv, ChannelTypeOK
<1>2. /\ Before(n) \in Nat /\ ReadWith(n) \in Seq(Piece) /\ Len(ReadWith(n)) = Len(buffer) + Before(n)
      /\ \A i \in 1..Len(buffer) : ReadWith(n)[i] = buffer[i]
      /\ \A i \in 1..Before(n) : ReadWith(n)[Len(buffer) + i] = Stream[i]
  BY WhatIsRead
<1>3. buffer \in Seq(Piece) /\ Len(buffer) \in Nat
  BY DEF ChannelInv, ChannelTypeOK
<1>4. ReadWith(n) # <<>> => ReadWith(n)[1].part # 1
  <2>1. CASE buffer # <<>>
    <3>1. 1 \in 1..Len(buffer) /\ ReadWith(n)[1] = buffer[1]
      BY <1>2, <1>3, <2>1
    <3>2. QED
      BY <2>1, <3>1 DEF Lost
  <2>2. CASE buffer = <<>> /\ Before(n) > 0
    <3>1. Len(buffer) = 0 /\ 1 \in 1..Before(n) /\ Len(buffer) + 1 = 1
      BY <1>2, <2>2
    <3>2. ReadWith(n)[1] = Stream[1]
      BY <1>2, <3>1
    <3>3. QED
      BY <1>1, <3>2 DEF Lost
  <2>3. CASE buffer = <<>> /\ Before(n) = 0
    <3>1. Len(ReadWith(n)) = 0
      BY <1>2, <2>3
    <3>2. QED
      BY <1>2, <3>1
  <2>4. QED
    BY <1>2, <2>1, <2>2, <2>3
<1>5. \A k \in Frame : Payload(k) # <<>> /\ Payload(k)[1].part = 1
  <2>1. SUFFICES ASSUME NEW k \in Frame PROVE Payload(k) # <<>> /\ Payload(k)[1].part = 1
    OBVIOUS
  <2>2. Size[k] \in Nat /\ Size[k] > 0 /\ 1 \in 1..Size[k]
    BY FramesHaveSizes
  <2>3. Payload(k) \in Seq(Piece) /\ Len(Payload(k)) = Size[k] /\ Payload(k)[1] = PieceAt(k, 1)
    BY <2>2, WholeFrame
  <2>4. QED
    BY <2>2, <2>3 DEF PieceAt
<1>6. pipe[Take(n)].part # 0 => Len(ReadWith(n)) > 0
  BY <1>1, <1>2, <1>3 DEF Before
<1>7. QED
  BY <1>4, <1>5, <1>6 DEF IsFrame

\* One turn of the loop: the reader is told of an oversized frame, reads on, or ends a
\* frame, which is the next one unless its head was lost.
LEMMA FillCases ==
    ASSUME Fill
    PROVE  /\ receiving /\ UNCHANGED <<given, sending, writer, cut>>
           /\ \E n \in 1..Len(pipe) :
                 \/ /\ Len(ReadWith(n)) > MaxFrameBytes /\ result' = "too_large" /\ receiving' = FALSE
                    /\ UNCHANGED <<pipe, buffer, got>>
                 \/ /\ Len(ReadWith(n)) <= MaxFrameBytes /\ buffer' = ReadWith(n)
                    /\ pipe' = SubSeq(pipe, Take(n) + 1, Len(pipe))
                    /\ \/ pipe[Take(n)].part # 0 /\ UNCHANGED <<receiving, got, result>>
                       \/ /\ pipe[Take(n)].part = 0 /\ ReadWith(n) = <<>>
                          /\ result' = "empty" /\ receiving' = FALSE /\ UNCHANGED got
                       \/ /\ pipe[Take(n)].part = 0 /\ ReadWith(n) # <<>> /\ ~IsFrame(ReadWith(n))
                          /\ result' = "json" /\ receiving' = FALSE /\ UNCHANGED got
                       \/ /\ pipe[Take(n)].part = 0 /\ IsFrame(ReadWith(n))
                          /\ got' = Append(got, ReadWith(n)[1].frame)
                          /\ receiving' = FALSE /\ UNCHANGED result
BY DEF Fill, Stop, ReadWith, Before

LEMMA TooLargeKeeps ==
    ASSUME ChannelInv, NEW n \in 1..Len(pipe), receiving, UNCHANGED <<given, sending, writer, cut>>,
           Len(ReadWith(n)) > MaxFrameBytes, result' = "too_large", receiving' = FALSE,
           UNCHANGED <<pipe, buffer, got>>
    PROVE  ChannelInv'
<1>1. Stream' = Stream
  BY DEF Stream
<1>2. result = "none" /\ ReaderAt(Stream) /\ Stream # <<>>
  BY TakenFromTheWire DEF ChannelInv
<1>3. ErrorHasACause'
  <2>1. CASE cut
    BY <2>1 DEF ErrorHasACause
  <2>2. CASE ~cut
    <3>1. PICK k \in Frame : k <= given /\ Len(ReadWith(n)) <= Size[k]
      BY <1>2, <2>2, ReadsTheFrame
    <3>2. k \in 1..given
      BY <3>1, FramesHaveSizes DEF ChannelInv, ChannelTypeOK
    <3>3. Len(ReadWith(n)) \in Nat /\ Size[k] \in Nat /\ MaxFrameBytes \in Nat
      <4>1. ReadWith(n) \in Seq(Piece)
        BY WhatIsRead
      <4>2. QED
        BY <4>1, FramesHaveSizes, LimitAssumption
    <3>4. Size[k] > MaxFrameBytes
      BY <3>1, <3>3
    <3>5. Oversized'
      BY <3>2, <3>4 DEF Oversized
    <3>6. QED
      BY <3>5 DEF ErrorHasACause
  <2>3. QED
    BY <2>1, <2>2
<1>4. ChannelTypeOK' /\ InOrderWithoutGap' /\ EofAfterAllFrames'
  BY DEF ChannelInv, ChannelTypeOK, InOrderWithoutGap, EofAfterAllFrames, Result
<1>5. QED
  BY <1>1, <1>3, <1>4 DEF ChannelInv

\* What the reader takes leaves a suffix on the wire.
LEMMA RestOfTheWire ==
    ASSUME ChannelInv, NEW n \in 1..Len(pipe), UNCHANGED <<given, sending, writer, cut>>,
           pipe' = SubSeq(pipe, Take(n) + 1, Len(pipe))
    PROVE  /\ pipe' \in Seq(Piece)
           /\ OnTheWire(Stream, given)'
           /\ (writer # "dead" => EndsWhole(Stream, given))'
           /\ (writer # "open" => sending = <<>>)'
           /\ Stream' # <<>> => Take(n) + 1 \in 1..Len(Stream) /\ Stream'[1] = Stream[Take(n) + 1]
           /\ Stream' = <<>> => Take(n) = Len(Stream)
<1>1. /\ Take(n) \in 1..Len(Stream) /\ Take(n) \in 1..Len(pipe)
  BY TakenFromTheWire
<1>2. /\ pipe' \in Seq(Piece) /\ Stream' \in Seq(Piece) /\ Len(Stream) = Len(Stream') + Take(n)
      /\ \A i \in 1..Len(Stream') : Stream'[i] = Stream[i + Take(n)]
  BY <1>1, LeftOnTheWire
<1>3. given \in Nat /\ OnTheWire(Stream, given) /\ Stream \in Seq(Piece) /\ Take(n) \in Nat /\ Len(Stream') \in Nat
  <2>1. given \in Nat /\ OnTheWire(Stream, given) /\ Stream \in Seq(Piece)
    BY FramesHaveSizes DEF ChannelInv, ChannelTypeOK, OnTheWire
  <2>2. QED
    BY <1>1, <1>2, <2>1
<1>4. OnTheWire(Stream', given) /\ (EndsWhole(Stream, given) => EndsWhole(Stream', given))
  BY <1>2, <1>3, WireConsumed
<1>5. Stream' # <<>> => Take(n) + 1 \in 1..Len(Stream) /\ Stream'[1] = Stream[Take(n) + 1]
  <2>1. Stream' # <<>> => 1 \in 1..Len(Stream') /\ 1 + Take(n) = Take(n) + 1
    BY <1>2, <1>3
  <2>2. Stream' # <<>> => Stream'[1] = Stream[Take(n) + 1]
    BY <1>2, <2>1
  <2>3. Stream' # <<>> => Take(n) + 1 \in 1..Len(Stream)
    <3>1. Len(Stream) = Len(Stream') + Take(n) /\ Len(Stream') \in Nat /\ Take(n) \in Nat
      BY <1>2, <1>3, Zenon
    <3>2. QED
      BY <2>1, <3>1
  <2>4. QED
    BY <2>2, <2>3
<1>6. Stream' = <<>> => Take(n) = Len(Stream)
  BY <1>2, <1>3
<1>7. QED
  BY <1>2, <1>4, <1>5, <1>6 DEF ChannelInv

LEMMA ReadOnKeeps ==
    ASSUME ChannelInv, NEW n \in 1..Len(pipe), receiving, UNCHANGED <<given, sending, writer, cut>>,
           Len(ReadWith(n)) <= MaxFrameBytes, buffer' = ReadWith(n),
           pipe' = SubSeq(pipe, Take(n) + 1, Len(pipe)),
           pipe[Take(n)].part # 0, UNCHANGED <<receiving, got, result>>
    PROVE  ChannelInv'
<1> DEFINE t == Take(n)
<1>1. result = "none" /\ ReaderAt(Stream)
  BY DEF ChannelInv
<1>2. /\ t \in 1..Len(Stream) /\ Stream # <<>> /\ Stream[t] = pipe[t] /\ Stream[t].part # 0
  <2>1. /\ t \in 1..Len(Stream) /\ t \in 1..Len(pipe) /\ Stream # <<>>
        /\ \A i \in 1..t : Stream[i] = pipe[i]
    BY TakenFromTheWire
  <2>2. t \in 1..t
    BY <2>1
  <2>3. QED
    BY <2>1, <2>2
<1>3. /\ pipe' \in Seq(Piece)
      /\ OnTheWire(Stream, given)'
      /\ (writer # "dead" => EndsWhole(Stream, given))'
      /\ (writer # "open" => sending = <<>>)'
      /\ Stream' # <<>> => t + 1 \in 1..Len(Stream) /\ Stream'[1] = Stream[t + 1]
      /\ Stream' = <<>> => t = Len(Stream)
  BY RestOfTheWire
<1>4. ReadWith(n) \in Seq(Piece)
  BY WhatIsRead
<1>5. ChannelTypeOK'
  BY <1>3, <1>4 DEF ChannelInv, ChannelTypeOK
<1>6. InOrderWithoutGap' /\ ErrorHasACause' /\ EofAfterAllFrames'
  BY <1>1 DEF ChannelInv, InOrderWithoutGap, ErrorHasACause, EofAfterAllFrames, ErrorResult
<1> HIDE DEF t
<1>7. Stream' = <<>> => writer = "dead"
  BY <1>2, <1>3 DEF ChannelInv, EndsWhole
<1>8. Stream' # <<>> => Stream'[1] = PieceAt(Stream[t].frame, Stream[t].part + 1)
  <2>1. SUFFICES ASSUME Stream' # <<>> PROVE Stream'[1] = PieceAt(Stream[t].frame, Stream[t].part + 1)
    OBVIOUS
  <2>2. /\ t + 1 \in 1..Len(Stream) /\ t < t + 1 /\ (t + 1) - t = 1
        /\ \A m \in t..((t + 1) - 1) : Stream[m].part # 0
    BY <1>2, <1>3, <2>1
  <2>3. Stream[t + 1] = PieceAt(Stream[t].frame, Stream[t].part + ((t + 1) - t))
    BY <1>2, <2>2 DEF ChannelInv, OnTheWire
  <2>4. QED
    BY <1>3, <2>1, <2>2, <2>3
<1>9. CASE Lost(Stream)
  <2>1. ReadWith(n) # <<>> /\ ReadWith(n)[1].part # 1
    BY <1>9, ReadsNoFrame
  <2>2. Stream' # <<>> => Stream'[1].part # 1
    <3>1. Stream[t].part \in Nat
      BY <1>2, PiecesAreTyped DEF ChannelInv, OnTheWire
    <3>2. QED
      <4>1. \A f, m : PieceAt(f, m).part = IF m <= Size[f] THEN m ELSE 0
        BY DEF PieceAt
      <4>2. Stream[t].part + 1 # 1
        BY <1>2, <3>1, SMTT(30)
      <4>3. QED
        BY <1>8, <4>1, <4>2
  <2>3. Lost(Stream)'
    BY <1>7, <1>9, <2>1, <2>2 DEF Lost
  <2>4. QED
    BY <1>1, <1>3, <1>5, <1>6, <2>3 DEF ChannelInv, ReaderAt
<1>10. CASE ~cut
  <2>1. PICK k \in Frame :
           /\ k <= given /\ NextAccepted(LastGot, k)
           /\ Len(ReadWith(n)) <= Size[k]
           /\ \A i \in 1..Len(ReadWith(n)) : ReadWith(n)[i] = PieceAt(k, i)
           /\ Stream[t].frame = k /\ Stream[t].part = Len(ReadWith(n))
    BY <1>1, <1>2, <1>10, ReadsTheFrame DEF t
  <2>2. PICK b \in 1..Size[k] : b = Len(ReadWith(n))
    BY <1>2, <1>4, <2>1, FramesHaveSizes
  <2>3. LastGot' = LastGot
    BY DEF LastGot
  <2>4. Inside(Stream, k, b)'
    BY <1>7, <1>8, <2>1, <2>2, <2>3 DEF Inside
  <2>5. ReaderAt(Stream)'
    BY <1>10, <2>2, <2>4 DEF ReaderAt, Inside
  <2>6. QED
    BY <1>1, <1>3, <1>5, <1>6, <2>5 DEF ChannelInv
<1>11. QED
  BY <1>1, <1>9, <1>10 DEF ReaderAt, Lost

\* Only a lost reader ends with an empty frame or one it cannot read.
LEMMA UnreadableKeeps ==
    ASSUME ChannelInv, NEW n \in 1..Len(pipe), receiving, UNCHANGED <<given, sending, writer, cut>>,
           Len(ReadWith(n)) <= MaxFrameBytes, buffer' = ReadWith(n),
           pipe' = SubSeq(pipe, Take(n) + 1, Len(pipe)),
           pipe[Take(n)].part = 0, ReadWith(n) = <<>> \/ ~IsFrame(ReadWith(n)),
           result' \in {"empty", "json"}, receiving' = FALSE, UNCHANGED got
    PROVE  ChannelInv'
<1>1. result = "none" /\ ReaderAt(Stream) /\ Stream # <<>>
  BY TakenFromTheWire DEF ChannelInv
<1>2. cut
  <2>1. SUFFICES ASSUME ~cut PROVE FALSE
    OBVIOUS
  <2>2. PICK k \in Frame : ReadWith(n) = Payload(k)
    BY <1>1, <2>1, ReadsTheFrame
  <2>3. Payload(k) \in Seq(Piece) /\ Len(Payload(k)) > 0
    BY WholeFrame, FramesHaveSizes
  <2>4. QED
    BY <2>2, <2>3 DEF IsFrame
<1>3. /\ pipe' \in Seq(Piece)
      /\ OnTheWire(Stream, given)'
      /\ (writer # "dead" => EndsWhole(Stream, given))'
      /\ (writer # "open" => sending = <<>>)'
  BY RestOfTheWire
<1>4. ReadWith(n) \in Seq(Piece)
  BY WhatIsRead
<1>5. ChannelTypeOK'
  BY <1>3, <1>4 DEF ChannelInv, ChannelTypeOK, Result
<1>6. InOrderWithoutGap' /\ ErrorHasACause' /\ EofAfterAllFrames'
  BY <1>2 DEF ChannelInv, InOrderWithoutGap, ErrorHasACause, EofAfterAllFrames
<1>7. QED
  BY <1>3, <1>5, <1>6 DEF ChannelInv

\* A frame that ends is the next accepted one, and the reader is between two frames.
LEMMA FrameKeeps ==
    ASSUME ChannelInv, NEW n \in 1..Len(pipe), receiving, UNCHANGED <<given, sending, writer, cut>>,
           Len(ReadWith(n)) <= MaxFrameBytes, buffer' = ReadWith(n),
           pipe' = SubSeq(pipe, Take(n) + 1, Len(pipe)),
           pipe[Take(n)].part = 0, IsFrame(ReadWith(n)),
           got' = Append(got, ReadWith(n)[1].frame), receiving' = FALSE, UNCHANGED result
    PROVE  ChannelInv'
<1> DEFINE t == Take(n)
<1>1. result = "none" /\ ReaderAt(Stream)
  BY DEF ChannelInv
<1>2. t \in 1..Len(Stream) /\ Stream # <<>> /\ Stream[t] = pipe[t] /\ Stream[t].part = 0
  <2>1. /\ t \in 1..Len(Stream) /\ t \in 1..Len(pipe) /\ Stream # <<>>
        /\ \A i \in 1..t : Stream[i] = pipe[i]
    BY TakenFromTheWire
  <2>2. t \in 1..t
    BY <2>1
  <2>3. QED
    BY <2>1, <2>2
<1>3. ~cut
  BY <1>1, ReadsNoFrame DEF ReaderAt
<1>4. PICK k \in Frame :
         k <= given /\ NextAccepted(LastGot, k) /\ Stream[t].frame = k /\ ReadWith(n) = Payload(k)
  BY <1>1, <1>2, <1>3, ReadsTheFrame
<1>5. got' = Append(got, k)
  <2>1. 1 \in 1..Size[k]
    BY FramesHaveSizes
  <2>2. Payload(k)[1] = PieceAt(k, 1)
    BY <2>1, WholeFrame
  <2>3. QED
    BY <1>4, <2>2 DEF PieceAt
<1>6. got \in Seq(Frame) /\ Len(got) \in Nat
  BY DEF ChannelInv, ChannelTypeOK
<1>7. /\ got' \in Seq(Frame) /\ Len(got') = Len(got) + 1 /\ got' # <<>>
      /\ got'[Len(got) + 1] = k /\ \A i \in 1..Len(got) : got'[i] = got[i]
  <2>1. \A i \in 1..Len(got) : Append(got, k)[i] = got[i]
    BY <1>6
  <2>2. /\ Append(got, k) \in Seq(Frame) /\ Len(Append(got, k)) = Len(got) + 1
        /\ Append(got, k)[Len(got) + 1] = k
    BY <1>6
  <2>3. Append(got, k) # <<>>
    <3>1. Len(Append(got, k)) # 0 /\ Len(<<>>) = 0
      BY <1>6, <2>2
    <3>2. QED
      BY <3>1, Zenon
  <2>4. QED
    BY <1>5, <2>1, <2>2, <2>3
<1>8. LastGot' = k
  BY <1>7 DEF LastGot
<1>9. InOrderWithoutGap'
  <2>1. SUFFICES ASSUME NEW i \in 1..Len(got')
                 PROVE  got'[i] <= given /\ NextAccepted(IF i = 1 THEN 0 ELSE got'[i - 1], got'[i])
    BY DEF InOrderWithoutGap
  <2>2. CASE i <= Len(got)
    <3>1. i \in 1..Len(got) /\ got'[i] = got[i]
      BY <1>6, <1>7, <2>2
    <3>2. i # 1 => i - 1 \in 1..Len(got) /\ got'[i - 1] = got[i - 1]
      BY <1>6, <1>7, <3>1
    <3>3. got[i] <= given /\ NextAccepted(IF i = 1 THEN 0 ELSE got[i - 1], got[i])
      BY <3>1 DEF ChannelInv, InOrderWithoutGap
    <3>4. CASE i = 1
      BY <3>1, <3>3, <3>4
    <3>5. CASE i # 1
      BY <3>1, <3>2, <3>3, <3>5
    <3>6. QED
      BY <3>4, <3>5
  <2>3. CASE i = Len(got) + 1
    <3>1. got'[i] = k
      BY <1>7, <2>3
    <3>2. (IF i = 1 THEN 0 ELSE got'[i - 1]) = LastGot
      <4>1. CASE got = <<>>
        BY <1>6, <2>3, <4>1 DEF LastGot
      <4>2. CASE got # <<>>
        <5>1. Len(got) \in 1..Len(got) /\ i # 1 /\ i - 1 = Len(got)
          BY <1>6, <2>3, <4>2
        <5>2. got'[i - 1] = got[Len(got)]
          BY <1>7, <5>1
        <5>3. QED
          BY <4>2, <5>1, <5>2 DEF LastGot
      <4>3. QED
        BY <4>1, <4>2
    <3>3. QED
      BY <1>4, <3>1, <3>2
  <2>4. QED
    BY <1>6, <1>7, <2>2, <2>3
<1>10. /\ pipe' \in Seq(Piece)
       /\ OnTheWire(Stream, given)'
       /\ (writer # "dead" => EndsWhole(Stream, given))'
       /\ (writer # "open" => sending = <<>>)'
       /\ Stream' # <<>> => t + 1 \in 1..Len(Stream) /\ Stream'[1] = Stream[t + 1]
       /\ Stream' = <<>> => t = Len(Stream)
  BY RestOfTheWire
<1>11. ReadWith(n) \in Seq(Piece)
  BY WhatIsRead
<1>12. ChannelTypeOK'
  BY <1>7, <1>10, <1>11 DEF ChannelInv, ChannelTypeOK
<1> HIDE DEF t
<1>13. Between(Stream)'
  <2>1. Stream' = <<>> => writer = "dead" \/ NoneAfter(k, given)
    BY <1>2, <1>4, <1>10 DEF ChannelInv, EndsWhole
  <2>2. Stream' # <<>> => Stream'[1].part = 1 /\ NextAccepted(k, Stream'[1].frame)
    BY <1>2, <1>4, <1>10 DEF ChannelInv, OnTheWire
  <2>3. QED
    BY <1>8, <2>1, <2>2 DEF Between
<1>14. ErrorHasACause' /\ EofAfterAllFrames'
  BY <1>1 DEF ErrorHasACause, EofAfterAllFrames, ErrorResult
<1>15. QED
  BY <1>1, <1>3, <1>9, <1>10, <1>12, <1>13, <1>14 DEF ChannelInv, ReaderAt

LEMMA FillKeeps ==
    ASSUME ChannelInv, Fill
    PROVE  ChannelInv'
<1>1. receiving /\ UNCHANGED <<given, sending, writer, cut>>
  BY FillCases
<1>2. PICK n \in 1..Len(pipe) :
         \/ /\ Len(ReadWith(n)) > MaxFrameBytes /\ result' = "too_large" /\ receiving' = FALSE
            /\ UNCHANGED <<pipe, buffer, got>>
         \/ /\ Len(ReadWith(n)) <= MaxFrameBytes /\ buffer' = ReadWith(n)
            /\ pipe' = SubSeq(pipe, Take(n) + 1, Len(pipe))
            /\ \/ pipe[Take(n)].part # 0 /\ UNCHANGED <<receiving, got, result>>
               \/ /\ pipe[Take(n)].part = 0 /\ ReadWith(n) = <<>>
                  /\ result' = "empty" /\ receiving' = FALSE /\ UNCHANGED got
               \/ /\ pipe[Take(n)].part = 0 /\ ReadWith(n) # <<>> /\ ~IsFrame(ReadWith(n))
                  /\ result' = "json" /\ receiving' = FALSE /\ UNCHANGED got
               \/ /\ pipe[Take(n)].part = 0 /\ IsFrame(ReadWith(n))
                  /\ got' = Append(got, ReadWith(n)[1].frame)
                  /\ receiving' = FALSE /\ UNCHANGED result
  BY FillCases
<1>3. CASE Len(ReadWith(n)) > MaxFrameBytes
  <2>1. result' = "too_large" /\ receiving' = FALSE /\ UNCHANGED <<pipe, buffer, got>>
    <3>1. Len(ReadWith(n)) \in Nat /\ MaxFrameBytes \in Nat
      <4>1. ReadWith(n) \in Seq(Piece)
        BY WhatIsRead
      <4>2. QED
        BY <4>1, LimitAssumption
    <3>2. QED
      BY <1>2, <1>3, <3>1
  <2>2. QED
    BY <1>1, <1>3, <2>1, TooLargeKeeps
<1>4. CASE /\ Len(ReadWith(n)) <= MaxFrameBytes /\ buffer' = ReadWith(n)
           /\ pipe' = SubSeq(pipe, Take(n) + 1, Len(pipe))
           /\ pipe[Take(n)].part # 0 /\ UNCHANGED <<receiving, got, result>>
  BY <1>1, <1>4, ReadOnKeeps
<1>5. CASE /\ Len(ReadWith(n)) <= MaxFrameBytes /\ buffer' = ReadWith(n)
           /\ pipe' = SubSeq(pipe, Take(n) + 1, Len(pipe))
           /\ pipe[Take(n)].part = 0 /\ (ReadWith(n) = <<>> \/ ~IsFrame(ReadWith(n)))
           /\ result' \in {"empty", "json"} /\ receiving' = FALSE /\ UNCHANGED got
  BY <1>1, <1>5, UnreadableKeeps
<1>6. CASE /\ Len(ReadWith(n)) <= MaxFrameBytes /\ buffer' = ReadWith(n)
           /\ pipe' = SubSeq(pipe, Take(n) + 1, Len(pipe))
           /\ pipe[Take(n)].part = 0 /\ IsFrame(ReadWith(n))
           /\ got' = Append(got, ReadWith(n)[1].frame)
           /\ receiving' = FALSE /\ UNCHANGED result
  BY <1>1, <1>6, FrameKeeps
<1>7. QED
  BY <1>2, <1>3, <1>4, <1>5, <1>6

LEMMA ChannelBegins == ChannelInit => ChannelInv
<1> SUFFICES ASSUME ChannelInit PROVE ChannelInv
  OBVIOUS
<1>1. Stream = <<>>
  BY ConcatEmptySeq DEF ChannelInit, Stream
<1>2. OnTheWire(Stream, given) /\ EndsWhole(Stream, given)
  BY <1>1 DEF OnTheWire, EndsWhole
<1>3. Between(Stream)
  BY <1>1 DEF ChannelInit, Between, NoneAfter, LastGot
<1>4. ChannelTypeOK
  <2>1. 0 \in 0..Len(Size) /\ MaxFrameBytes \in Nat /\ 0 <= MaxFrameBytes
    BY FramesHaveSizes, LimitAssumption
  <2>2. <<>> \in Seq(Piece) /\ <<>> \in Seq(Frame) /\ Len(<<>>) = 0
    OBVIOUS
  <2>3. QED
    BY <2>1, <2>2 DEF ChannelInit, ChannelTypeOK, Result
<1>5. QED
  BY <1>2, <1>3, <1>4 DEF ChannelInit, ChannelInv, ReaderAt, InOrderWithoutGap, ErrorHasACause,
     ErrorResult, EofAfterAllFrames

LEMMA ChannelKeeps == ChannelInv /\ ChannelNext => ChannelInv'
BY SendKeeps, WriteKeeps, CloseKeeps, WriterDiesKeeps, StartReceiveKeeps, FillKeeps, EofKeeps,
   PollExpiresKeeps DEF ChannelNext

LEMMA ChannelStutters == ChannelInv /\ UNCHANGED channelVars => ChannelInv'
<1> SUFFICES ASSUME ChannelInv, UNCHANGED channelVars PROVE ChannelInv'
  OBVIOUS
<1>1. UNCHANGED <<given, sending, writer, pipe, buffer, receiving, got, result, cut>>
  BY DEF channelVars
<1>2. Stream' = Stream
  BY <1>1 DEF Stream
<1>3. ReaderAt(Stream) => ReaderAt(Stream)'
  BY <1>1, <1>2, ReaderStays
<1>4. ChannelTypeOK' /\ InOrderWithoutGap' /\ ErrorHasACause' /\ EofAfterAllFrames'
  BY <1>1 DEF ChannelInv, ChannelTypeOK, InOrderWithoutGap, ErrorHasACause, EofAfterAllFrames,
     Oversized, LastGot
<1>5. QED
  BY <1>1, <1>2, <1>3, <1>4 DEF ChannelInv

-----------------------------------------------------------------------------
(***************************************************************************)
(* The theorems.                                                           *)
(***************************************************************************)
LEMMA RemoteInvariant == Spec => [](SseInv /\ FramesInv /\ HttpInv /\ ChannelInv)
<1> DEFINE Inv == SseInv /\ FramesInv /\ HttpInv /\ ChannelInv
<1>1. Init => Inv
  BY SseBegins, FramesBegin, HttpBegins, ChannelBegins DEF Init
<1>2. Inv /\ [Next]_remoteVars => Inv'
  <2> SUFFICES ASSUME Inv, [Next]_remoteVars PROVE Inv'
    OBVIOUS
  <2>1. SseInv'
    <3>1. SseStep \/ UNCHANGED sseVars
      BY DEF Next, Over, OverSse, OverChannel, remoteVars
    <3>2. CASE UNCHANGED sseVars
      BY <3>2 DEF sseVars, sseReader, sseClose, SseInv
    <3>3. QED
      BY <3>1, <3>2, SseKeeps
  <2>2. HttpInv'
    <3>1. HttpStep \/ UNCHANGED httpVars
      BY DEF Next, Over, OverSse, OverChannel, remoteVars
    <3>2. CASE UNCHANGED httpVars
      BY <3>2 DEF httpVars, HttpInv, HttpTypeOK, HeadersFollowSchema, StreamAnswersOwn
    <3>3. QED
      BY <3>1, <3>2, HttpKeeps
  <2>3. ChannelInv'
    <3>1. ChannelNext \/ UNCHANGED channelVars
      BY DEF Next, Over, OverSse, OverChannel, remoteVars
    <3>2. QED
      BY <3>1, ChannelKeeps, ChannelStutters
  <2>4. FramesInv'
    <3>1. SseStep \/ UNCHANGED sseVars
      BY DEF Next, Over, OverSse, OverChannel, remoteVars
    <3>2. QED
      BY <3>1, FramesKeep, FramesStutter
  <2>5. QED
    BY <2>1, <2>2, <2>3, <2>4
<1>3. QED
  BY <1>1, <1>2, PTL DEF Spec

\* A request over SSE goes to no private address and takes no secret elsewhere, whatever
\* endpoint the server names, and a shutdown that says Ok met no failure
\* (resolve_and_check, same_origin, shutdown).
THEOREM SseStaysGuarded == Spec => []SseIsGuarded
<1>1. SseInv => SseIsGuarded
  BY DEF SseInv, SseIsGuarded, OnlyCheckedAddresses, FailureIsTold
<1>2. QED
  BY <1>1, RemoteInvariant, PTL

\* A frame holds the permits of the budget it was charged from the stream until it is
\* answered, dropped or taken from the stash, the channel and the stash keep their capacity,
\* and no call waits for an answer that its stash holds (acquire, recv_from_stash, stash_frame).
THEOREM FramesStayKept == Spec => []FramesAreKept
<1>1. FramesInv => FramesAreKept
  BY DEF FramesInv, FramesAreKept
<1>2. QED
  BY <1>1, RemoteInvariant, PTL

\* However tool lists and calls follow each other, the headers of a call are those its
\* tool's newest schema annotates, and a stream gives back nothing but a response to the
\* request (prepare, process_tools_list, read_sse_response).
THEOREM HttpStaysOwn == Spec => []HttpIsOwn
<1>1. HttpInv => HttpIsOwn
  BY DEF HttpInv, HttpIsOwn
<1>2. QED
  BY <1>1, RemoteInvariant, PTL

\* However the frames are cut on their way and whichever polls give up, receive returns the
\* accepted frames in order and without a gap, an error has a cause outside of the framing,
\* and the end of a stream that was closed comes after all of them (receive_inner, close).
THEOREM ChannelStaysOrdered == Spec => []ChannelIsOrdered
<1>1. ChannelInv => ChannelIsOrdered
  BY DEF ChannelInv, ChannelIsOrdered
<1>2. QED
  BY <1>1, RemoteInvariant, PTL

-----------------------------------------------------------------------------
(***************************************************************************)
(* WebSocket.                                                              *)
(***************************************************************************)
\* The three kinds of entry are told apart by their ids.
LEMMA Entries ==
    /\ Failure \notin WsFrame /\ Nothing \notin WsFrame /\ Failure # Nothing
BY BoundsAssumption DEF WsFrame, Failure, Nothing

LEMMA InitIInv == WsInit => IInv
BY Entries DEF WsInit, IInv, LatchInv, ShutdownInv, QueueInv, TeardownTellsFailure, NoAnswerOverlooked

\* The queues hold frames, whoever moves them.
LEMMA QueueStep ==
    ASSUME IInv, WsNext
    PROVE  QueueInv'
<1>0. QueueInv
  BY DEF IInv
<1> USE <1>0, Entries DEF QueueInv
<1>1. ASSUME NEW f \in WsFrame, ReadFrame(f) PROVE QueueInv'
  BY <1>1 DEF ReadFrame, callVars, closeVars
<1>2. CASE ReadClose \/ ReadFailure
  BY <1>2 DEF ReadClose, ReadFailure, callVars, closeVars
<1>3. CASE Forward
  BY <1>3 DEF Forward, callVars, closeVars
<1>4. CASE ReaderCancelled \/ ReaderAborted
  BY <1>4 DEF ReaderCancelled, ReaderAborted, callVars, closeVars
<1>5. CASE RequestBegins \/ SendText \/ WsRespond \/ ReceiveGivesUp \/ RequestDropped
  BY <1>5 DEF RequestBegins, SendText, WsRespond, ReceiveGivesUp, RequestDropped, readerVars, closeVars
<1>6. CASE TakePending
  <2>1. UNCHANGED <<incoming, hand, reader>>
    BY <1>6 DEF TakePending, readerVars
  <2>2. pending' = pending \/ (\E i \in Matching : pending' = RemoveAt(pending, i))
    BY <1>6 DEF TakePending
  <2>3. pending' \in Seq(WsFrame)
    <3>1. Matching \subseteq 1..Len(pending)
      BY DEF Matching
    <3>2. \A i \in 1..Len(pending) : RemoveAt(pending, i) \in Seq(WsFrame)
      BY DEF RemoveAt
    <3>3. QED
      BY <2>2, <3>1, <3>2
  <2>4. QED
    BY <2>1, <2>3
<1>7. CASE Receive
  <2>1. UNCHANGED <<hand, reader>> /\ incoming # <<>> /\ incoming' = Tail(incoming)
    BY <1>7 DEF Receive, readerVars
  <2>2. \/ pending' = pending
        \/ Head(incoming) # Failure /\ pending' = Append(pending, Head(incoming))
    BY <1>7 DEF Receive
  <2>3. Head(incoming) \in WsFrame \cup {Failure} /\ Tail(incoming) \in Seq(WsFrame \cup {Failure})
    BY <2>1
  <2>4. QED
    BY SMTT(30), <2>1, <2>2, <2>3
<1>8. CASE BeginShutdown \/ SendClose \/ MarkClose \/ JoinReader \/ PhaseTimesOut \/ ShutdownReturns
  BY <1>8 DEF BeginShutdown, SendClose, MarkClose, JoinReader, PhaseTimesOut, ShutdownReturns,
     readerVars, callVars, closeVars
<1>9. QED
  BY <1>1, <1>2, <1>3, <1>4, <1>5, <1>6, <1>7, <1>8 DEF WsNext, ReaderTask, Foreground

\* A latch that is set stays set, and the reader that set it leaves.
LEMMA LatchStep ==
    ASSUME IInv, WsNext
    PROVE  LatchInv' /\ ShutdownInv' /\ TeardownTellsFailure'
<1>0. LatchInv /\ ShutdownInv /\ QueueInv /\ TeardownTellsFailure
  BY DEF IInv
<1>10. call # "end"
  BY DEF WsNext
<1> USE <1>0, <1>10, Entries DEF LatchInv, ShutdownInv, TeardownTellsFailure
<1>1. ASSUME NEW f \in WsFrame, ReadFrame(f) PROVE LatchInv' /\ ShutdownInv' /\ TeardownTellsFailure'
  BY <1>1 DEF ReadFrame, Latch, callVars, closeVars
<1>2. CASE ReadClose \/ ReadFailure
  <2>1. /\ reader = "reading" /\ reader' = "sending" /\ hand' = Failure
        /\ UNCHANGED <<call, closeSent, closeOut, failures, verdict>>
    BY <1>2 DEF ReadClose, ReadFailure, callVars, closeVars
  <2>2. terminal = "running" /\ ~faulty
    BY <2>1
  <2>3. faulty' => terminal' = "failed"
    <3>1. CASE ReadClose
      BY <3>1, <2>2 DEF ReadClose, Latch
    <3>2. CASE ReadFailure
      BY <3>2, <2>2 DEF ReadFailure, Latch
    <3>3. QED
      BY <1>2, <3>1, <3>2
  <2>4. QED
    BY <2>1, <2>3
<1>3. CASE Forward
  BY <1>3 DEF Forward, callVars, closeVars, QueueInv
<1>4. CASE ReaderCancelled \/ ReaderAborted
  BY <1>4 DEF ReaderCancelled, ReaderAborted, callVars, closeVars
<1>5. CASE RequestBegins \/ SendText \/ WsRespond \/ ReceiveGivesUp \/ RequestDropped
           \/ TakePending \/ Receive \/ BeginShutdown
  <2>1. /\ UNCHANGED <<readerVars, closeVars>> /\ call' \notin {"verdict", "closed"}
        /\ call \in {"idle", "send", "sent", "recv", "matched"}
    BY <1>5 DEF RequestBegins, SendText, WsRespond, ReceiveGivesUp, RequestDropped, TakePending,
       Receive, BeginShutdown, Ends
  <2>2. QED
    BY <2>1 DEF readerVars, closeVars
<1>6. CASE SendClose \/ MarkClose
  <2>1. UNCHANGED <<reader, hand, terminal, faulty, verdict>> /\ call \in {"closing", "closed"}
    BY <1>6 DEF SendClose, MarkClose, readerVars
  <2>2. CASE SendClose
    BY <2>1, <2>2 DEF SendClose
  <2>3. CASE MarkClose
    BY <2>1, <2>3 DEF MarkClose
  <2>4. QED
    BY <1>6, <2>2, <2>3
<1>7. CASE JoinReader \/ PhaseTimesOut
  BY <1>7 DEF JoinReader, PhaseTimesOut, readerVars, closeVars
<1>8. CASE ShutdownReturns
  BY <1>8 DEF ShutdownReturns, Healthy, readerVars
<1>9. QED
  BY <1>1, <1>2, <1>3, <1>4, <1>5, <1>6, <1>7, <1>8 DEF WsNext, ReaderTask, Foreground

\* A request starts to wait after it looked, and stashes only what is not its own.
LEMMA PendingStep ==
    ASSUME IInv, WsNext
    PROVE  NoAnswerOverlooked'
<1>0. NoAnswerOverlooked /\ QueueInv
  BY DEF IInv
<1> USE <1>0 DEF NoAnswerOverlooked, Matching
<1>1. CASE TakePending
  BY <1>1 DEF TakePending, Ends, callVars
<1>2. CASE Receive
  <2>1. CASE call' # "recv"
    BY <2>1
  <2>2. CASE call' = "recv"
    <3>1. /\ pending' = Append(pending, Head(incoming)) /\ Head(incoming).id # current
          /\ current' = current /\ call = "recv"
      BY <1>2, <2>2 DEF Receive, Ends
    <3>2. /\ Len(pending') = Len(pending) + 1 /\ Len(pending) \in Nat
          /\ pending'[Len(pending) + 1] = Head(incoming)
          /\ \A i \in 1..Len(pending) : pending'[i] = pending[i]
      BY <3>1 DEF QueueInv
    <3>3. DOMAIN pending = 1..Len(pending) /\ DOMAIN pending' = 1..(Len(pending) + 1)
      BY <3>1, <3>2 DEF QueueInv
    <3>4. \A i \in DOMAIN pending' : pending'[i].id # current
      BY <3>1, <3>2, <3>3
    <3>5. QED
      BY <3>1, <3>4
  <2>3. QED
    BY <2>1, <2>2
<1>3. CASE UNCHANGED callVars
  BY <1>3 DEF callVars
<1>4. CASE RequestBegins \/ SendText \/ WsRespond \/ ReceiveGivesUp \/ RequestDropped \/ BeginShutdown
           \/ SendClose \/ MarkClose \/ JoinReader \/ PhaseTimesOut \/ ShutdownReturns
  <2>1. call' # "recv"
    BY <1>4 DEF RequestBegins, SendText, WsRespond, ReceiveGivesUp, RequestDropped, BeginShutdown,
       SendClose, MarkClose, JoinReader, PhaseTimesOut, ShutdownReturns, Ends
  <2>2. QED
    BY <2>1
<1>5. ReaderTask => UNCHANGED callVars
  BY DEF ReaderTask, ReadFrame, ReadClose, ReadFailure, Forward, ReaderCancelled, ReaderAborted
<1>6. QED
  BY <1>1, <1>2, <1>3, <1>4, <1>5 DEF WsNext, Foreground

THEOREM TransportInvariant == WsSpec => []IInv
<1>1. ASSUME IInv, [WsNext]_vars PROVE IInv'
  <2>1. CASE WsNext
    BY <1>1, <2>1, QueueStep, LatchStep, PendingStep DEF IInv
  <2>2. CASE UNCHANGED vars
    BY <1>1, <2>2 DEF vars, readerVars, callVars, closeVars, IInv, LatchInv, ShutdownInv, QueueInv,
       TeardownTellsFailure, NoAnswerOverlooked, Matching
  <2>3. QED
    BY <1>1, <2>1, <2>2
<1>2. QED
  BY InitIInv, <1>1, PTL DEF WsSpec

\* A shutdown that says Ok met no failure and left no reader behind.
THEOREM TeardownIsTrue == WsSpec => []TeardownTellsFailure
<1>1. IInv => TeardownTellsFailure
  BY DEF IInv
<1>2. QED
  BY <1>1, TransportInvariant, PTL

\* A request never waits for an answer that was already read.
THEOREM AnswersAreTaken == WsSpec => []NoAnswerOverlooked
<1>1. IInv => NoAnswerOverlooked
  BY DEF IInv
<1>2. QED
  BY <1>1, TransportInvariant, PTL

\* Neither an answer nor a failure that came is kept from the call it concerns.
THEOREM CallsAreTold == WsSpec => []CallsAreToldTruth
BY TeardownIsTrue, AnswersAreTaken, PTL DEF CallsAreToldTruth

-----------------------------------------------------------------------------
(***************************************************************************)
(* The byte budget.                                                        *)
(***************************************************************************)
Entry == WsFrame \cup {Failure}

\* A queue without the entry k weighs that much less.
LEMMA BytesLack ==
    ASSUME NEW s \in Seq(Entry), NEW t \in Seq(Entry), NEW k, Lacks(t, s, k)
    PROVE  Bytes(s) = s[k].bytes + Bytes(t)
<1> DEFINE w == [i \in DOMAIN s |-> s[i].bytes]
           v == [i \in DOMAIN t |-> t[i].bytes]
<1>1. Lacks(v, w, k) /\ k \in DOMAIN s
  BY DEF Lacks
<1>2. \A i \in DOMAIN w : w[i] \in Int
  BY BoundsAssumption DEF Entry, WsFrame, Failure
<1>3. w[k] = s[k].bytes
  BY <1>1
<1> HIDE DEF w, v
<1>4. SumFunction(w) = w[k] + SumFunction(v)
  BY <1>1, <1>2, SumLacks
<1>5. QED
  BY <1>3, <1>4 DEF Bytes, w, v

\* An empty queue weighs nothing, and none less than that.
LEMMA BytesOfQueue ==
    /\ Bytes(<<>>) = 0
    /\ \A s \in Seq(Entry) : Bytes(s) \in Nat
<1>1. Bytes(<<>>) = 0
  BY SumOfNone DEF Bytes, SumFunction
<1>2. ASSUME NEW s \in Seq(Entry) PROVE Bytes(s) \in Nat
  <2> DEFINE w == [i \in DOMAIN s |-> s[i].bytes]
  <2>1. IsFiniteSet(DOMAIN w)
    BY FS_Interval
  <2>2. \A i \in DOMAIN w : w[i] \in Nat
    BY BoundsAssumption DEF Entry, WsFrame, Failure
  <2> HIDE DEF w
  <2>3. SumFunctionOnSet(w, DOMAIN w) \in Nat
    BY <2>1, <2>2, SumIsNat
  <2>4. QED
    BY <2>3 DEF Bytes, SumFunction, w
<1>3. QED
  BY <1>1, <1>2

\* What is appended, taken or removed is what the weight changes by.
LEMMA BytesAppended ==
    ASSUME NEW s \in Seq(Entry), NEW f \in Entry
    PROVE  Append(s, f) \in Seq(Entry) /\ Bytes(Append(s, f)) = Bytes(s) + f.bytes
<1>1. /\ Append(s, f) \in Seq(Entry) /\ Append(s, f)[Len(s) + 1] = f
      /\ Lacks(s, Append(s, f), Len(s) + 1)
  BY AppendLacks
<1>2. Bytes(Append(s, f)) = f.bytes + Bytes(s)
  <2> DEFINE t == Append(s, f)
  <2>1. t \in Seq(Entry) /\ t[Len(s) + 1] = f /\ Lacks(s, t, Len(s) + 1)
    BY <1>1
  <2> HIDE DEF t
  <2>2. Bytes(t) = t[Len(s) + 1].bytes + Bytes(s)
    BY <2>1, BytesLack
  <2>3. QED
    BY <2>1, <2>2 DEF t
<1>3. Bytes(s) \in Nat /\ f.bytes \in Int
  BY BytesOfQueue, BoundsAssumption DEF Entry, WsFrame, Failure
<1>4. QED
  BY <1>1, <1>2, <1>3

LEMMA BytesTaken ==
    ASSUME NEW s \in Seq(Entry), s # <<>>
    PROVE  Tail(s) \in Seq(Entry) /\ Head(s) \in Entry /\ Bytes(s) = Head(s).bytes + Bytes(Tail(s))
<1>1. Tail(s) \in Seq(Entry) /\ Head(s) = s[1] /\ Head(s) \in Entry /\ Lacks(Tail(s), s, 1)
  BY TailLacks
<1>2. Bytes(s) = s[1].bytes + Bytes(Tail(s))
  BY <1>1, BytesLack, Zenon
<1>3. QED
  BY <1>1, <1>2, Zenon

LEMMA BytesRemoved ==
    ASSUME NEW s \in Seq(Entry), NEW k \in 1..Len(s)
    PROVE  RemoveAt(s, k) \in Seq(Entry) /\ Bytes(s) = s[k].bytes + Bytes(RemoveAt(s, k))
<1>1. RemoveAt(s, k) \in Seq(Entry) /\ Lacks(RemoveAt(s, k), s, k)
  BY RemoveAtLacks
<1>2. QED
  BY <1>1, BytesLack

\* The reader has nothing in hand while it waits for the socket, and something to send
\* while it waits for the channel.
BudgetInv ==
    /\ BudgetIsExact
    /\ reader = "reading" => hand = Nothing
    /\ reader = "sending" => hand \in Entry

LEMMA BudgetBegins == WsInit => BudgetInv
<1> SUFFICES ASSUME WsInit PROVE BudgetInv
  OBVIOUS
<1>1. Bytes(incoming) = 0 /\ Bytes(pending) = 0
  BY BytesOfQueue DEF WsInit
<1>2. TypeOK
  <2>1. incoming \in Seq(WsFrame \cup {Failure}) /\ pending \in Seq(WsFrame) /\ Len(incoming) = 0
    BY DEF WsInit
  <2>2. 0 \in 0..BufferLimit /\ 0 \in 0..MaxRequests /\ 0 <= ChannelCap
    BY BoundsAssumption, CapAssumption
  <2>3. QED
    BY <2>1, <2>2 DEF WsInit, TypeOK
<1>3. QED
  BY <1>1, <1>2 DEF WsInit, BudgetInv, BudgetIsExact, Nothing

\* What the queues and the reader hold is typed, and so weighs a number.
LEMMA Weights ==
    ASSUME TypeOK
    PROVE  /\ incoming \in Seq(Entry) /\ pending \in Seq(Entry)
           /\ Bytes(incoming) \in Nat /\ Bytes(pending) \in Nat /\ hand.bytes \in Nat
           /\ used \in Nat /\ BufferLimit \in Nat
<1>1. incoming \in Seq(Entry) /\ pending \in Seq(Entry)
  BY DEF TypeOK, Entry
<1>2. hand.bytes \in Nat
  BY BoundsAssumption DEF TypeOK, WsFrame, Nothing, Failure
<1>3. QED
  BY <1>1, <1>2, BytesOfQueue, CapAssumption DEF TypeOK

\* Every frame the reader takes from the socket is charged, and what it drops is not.
LEMMA BudgetOfReader ==
    ASSUME BudgetInv, ReaderTask
    PROVE  BudgetInv'
<1>0. TypeOK /\ used = hand.bytes + Bytes(incoming) + Bytes(pending) 
      /\ (reader = "reading" => hand = Nothing) /\ (reader = "sending" => hand \in Entry)
  BY DEF BudgetInv, BudgetIsExact
<1>w. /\ incoming \in Seq(Entry) /\ pending \in Seq(Entry)
      /\ Bytes(incoming) \in Nat /\ Bytes(pending) \in Nat /\ hand.bytes \in Nat
      /\ used \in Nat /\ BufferLimit \in Nat
  BY <1>0, Weights
<1>1. ASSUME NEW f \in WsFrame, ReadFrame(f) PROVE BudgetInv'
  <2>1. /\ reader = "reading" /\ reader' = "sending"
        /\ UNCHANGED <<call, current, reply, pending, closeSent, closeOut, cancel, failures, verdict, incoming>>
        /\ terminal' \in {terminal, "failed"} /\ exhausted' \in BOOLEAN /\ faulty' \in BOOLEAN
        /\ \/ used + f.bytes <= BufferLimit /\ used' = used + f.bytes /\ hand' = f
           \/ used' = used /\ hand' = Failure
    BY <1>0, <1>1 DEF ReadFrame, Latch, callVars, closeVars, TypeOK
  <2>2. f.bytes \in Nat /\ hand.bytes = 0 /\ Failure.bytes = 0
    BY <1>0, <2>1, BoundsAssumption DEF WsFrame, Nothing, Failure
  <2>3. used' \in 0..BufferLimit /\ hand' \in Entry
    <3>1. used \in 0..BufferLimit
      BY <1>0 DEF TypeOK
    <3>2. CASE used + f.bytes <= BufferLimit /\ used' = used + f.bytes /\ hand' = f
      BY <1>w, <2>2, <3>2 DEF Entry
    <3>3. CASE used' = used /\ hand' = Failure
      BY <3>1, <3>3 DEF Entry
    <3>4. QED
      BY <2>1, <3>2, <3>3
  <2>4. TypeOK'
    BY <1>0, <2>1, <2>3 DEF TypeOK, Entry
  <2>5. used' = hand'.bytes + Bytes(incoming') + Bytes(pending')
    BY <1>0, <1>w, <2>1, <2>2
  <2>6. QED
    BY <2>1, <2>3, <2>4, <2>5 DEF BudgetInv, BudgetIsExact
<1>2. CASE ReadClose \/ ReadFailure
  <2>1. /\ reader = "reading" /\ reader' = "sending" /\ hand' = Failure
        /\ UNCHANGED <<call, current, reply, pending, closeSent, closeOut, cancel, failures, verdict, incoming,
                       used, exhausted>>
        /\ terminal' \in {"running", "peer_closed", "failed"} /\ faulty' \in BOOLEAN
    BY <1>0, <1>2 DEF ReadClose, ReadFailure, Latch, callVars, closeVars, TypeOK
  <2>2. hand.bytes = 0 /\ Failure.bytes = 0
    BY <1>0, <2>1 DEF Nothing, Failure
  <2>3. TypeOK'
    BY <1>0, <2>1 DEF TypeOK
  <2>4. QED
    BY <1>0, <2>1, <2>2, <2>3 DEF BudgetInv, BudgetIsExact, Entry
<1>3. CASE Forward
  <2>1. /\ reader = "sending" /\ Len(incoming) < ChannelCap /\ incoming' = Append(incoming, hand)
        /\ reader' \in {"done", "reading"} /\ hand' = Nothing
        /\ UNCHANGED <<call, current, reply, pending, closeSent, closeOut, cancel, failures, verdict, used,
                       exhausted, terminal, faulty>>
    BY <1>3 DEF Forward, callVars, closeVars
  <2>2. hand \in Entry
    BY <1>0, <2>1
  <2>3. incoming' \in Seq(Entry) /\ Bytes(incoming') = Bytes(incoming) + hand.bytes
    BY <1>w, <2>1, <2>2, BytesAppended
  <2>4. Len(incoming') <= ChannelCap
    BY <1>w, <2>1, CapAssumption
  <2>5. TypeOK'
    BY <1>0, <2>1, <2>3, <2>4 DEF TypeOK, Entry
  <2>6. used' = hand'.bytes + Bytes(incoming') + Bytes(pending')
    BY <1>0, <1>w, <2>1, <2>3 DEF Nothing
  <2>7. QED
    BY <2>1, <2>5, <2>6 DEF BudgetInv, BudgetIsExact
<1>4. CASE ReaderCancelled
  <2>1. /\ reader' = "done"
        /\ UNCHANGED <<call, current, reply, pending, closeSent, closeOut, cancel, failures, verdict, incoming,
                       used, hand, exhausted, terminal, faulty>>
    BY <1>4 DEF ReaderCancelled, callVars, closeVars
  <2>2. TypeOK'
    BY <1>0, <2>1 DEF TypeOK
  <2>3. QED
    BY <1>0, <2>1, <2>2 DEF BudgetInv, BudgetIsExact
<1>5. CASE ReaderAborted
  <2>1. /\ reader' = "done" /\ hand' = Nothing /\ used' = used - hand.bytes
        /\ UNCHANGED <<call, current, reply, pending, closeSent, closeOut, cancel, failures, verdict, incoming,
                       exhausted, terminal, faulty>>
    BY <1>5 DEF ReaderAborted, callVars, closeVars
  <2>2. Nothing.bytes = 0
    BY DEF Nothing
  <2>3. used' = hand'.bytes + Bytes(incoming') + Bytes(pending')
    BY <1>0, <1>w, <2>1, <2>2
  <2>4. used' \in 0..BufferLimit
    <3>1. used <= BufferLimit
      BY <1>0 DEF TypeOK
    <3>2. QED
      BY <1>0, <1>w, <2>1, <3>1, SMTT(30)
  <2>5. TypeOK'
    BY <1>0, <2>1, <2>4 DEF TypeOK
  <2>6. QED
    BY <2>1, <2>3, <2>5 DEF BudgetInv, BudgetIsExact
<1>6. QED
  BY <1>1, <1>2, <1>3, <1>4, <1>5 DEF ReaderTask

\* A call gives back what it answers or drops, and keeps what it stashes.
LEMMA BudgetOfCalls ==
    ASSUME BudgetInv, Foreground
    PROVE  BudgetInv'
<1>0. TypeOK /\ used = hand.bytes + Bytes(incoming) + Bytes(pending)
      /\ (reader = "reading" => hand = Nothing) /\ (reader = "sending" => hand \in Entry)
  BY DEF BudgetInv, BudgetIsExact
<1>w. /\ incoming \in Seq(Entry) /\ pending \in Seq(Entry)
      /\ Bytes(incoming) \in Nat /\ Bytes(pending) \in Nat /\ hand.bytes \in Nat
      /\ used \in Nat /\ BufferLimit \in Nat
  BY <1>0, Weights
<1>u. used <= BufferLimit
  BY <1>0 DEF TypeOK
<1>1. CASE \/ RequestBegins \/ SendText \/ WsRespond \/ ReceiveGivesUp \/ RequestDropped \/ BeginShutdown
           \/ SendClose \/ MarkClose \/ JoinReader \/ PhaseTimesOut \/ ShutdownReturns
  <2>1. UNCHANGED <<reader, hand, incoming, pending, used, exhausted, terminal, faulty>>
    BY <1>1 DEF RequestBegins, SendText, WsRespond, ReceiveGivesUp, RequestDropped, BeginShutdown,
       SendClose, MarkClose, JoinReader, PhaseTimesOut, ShutdownReturns, readerVars, closeVars, callVars, Ends
  <2>2. TypeOK'
    <3>1. CASE RequestBegins \/ SendText \/ WsRespond \/ ReceiveGivesUp \/ RequestDropped
      <4>1. /\ current' \in 0..MaxRequests
            /\ call' \in {"idle", "send", "sent"}
            /\ reply' \in [1..MaxRequests -> {"none", "ok", "error", "dropped"}]
        <5>0. /\ current \in 0..MaxRequests /\ reply \in [1..MaxRequests -> {"none", "ok", "error", "dropped"}]
          BY <1>0 DEF TypeOK
        <5>1. CASE RequestBegins
          <6>1. current' = current + 1 /\ current' \in 0..MaxRequests
            BY <5>0, <5>1, BoundsAssumption DEF RequestBegins
          <6>2. /\ call' \in {"idle", "send", "sent"}
                /\ reply' = reply \/ reply' = [reply EXCEPT ![current'] = "error"]
            BY <5>1 DEF RequestBegins
          <6>3. QED
            BY <5>0, <6>1, <6>2
        <5>2. CASE SendText \/ WsRespond \/ ReceiveGivesUp \/ RequestDropped
          <6>1. /\ current' = current /\ call' \in {"idle", "sent"}
                /\ \/ reply' = reply
                   \/ \E r \in {"ok", "error", "dropped"} : reply' = [reply EXCEPT ![current] = r]
            BY <5>2 DEF SendText, WsRespond, ReceiveGivesUp, RequestDropped, Ends
          <6>2. QED
            BY <5>0, <6>1
        <5>3. QED
          BY <3>1, <5>1, <5>2
      <4>2. UNCHANGED closeVars
        BY <3>1 DEF RequestBegins, SendText, WsRespond, ReceiveGivesUp, RequestDropped
      <4>3. /\ reader' = reader /\ hand' = hand /\ incoming' = incoming /\ pending' = pending /\ used' = used
            /\ exhausted' = exhausted /\ terminal' = terminal /\ faulty' = faulty
            /\ closeSent' = closeSent /\ closeOut' = closeOut /\ cancel' = cancel
            /\ failures' = failures /\ verdict' = verdict
        BY <2>1, <4>2 DEF closeVars
      <4>4. QED
        BY <1>0, <4>1, <4>3 DEF TypeOK
    <3>2. CASE BeginShutdown \/ SendClose \/ MarkClose \/ JoinReader \/ PhaseTimesOut \/ ShutdownReturns
      <4>1. /\ call' \in {"closing", "closed", "join", "cancelling", "aborting", "verdict", "end"}
            /\ current' = current /\ reply' = reply
            /\ closeSent' \in BOOLEAN /\ closeOut' \in BOOLEAN /\ cancel' \in BOOLEAN
            /\ failures' \in BOOLEAN /\ verdict' \in {"none", "ok", "error"}
        BY <1>0, <3>2 DEF BeginShutdown, SendClose, MarkClose, JoinReader, PhaseTimesOut, ShutdownReturns,
           TypeOK, closeVars
      <4>2. /\ reader' = reader /\ hand' = hand /\ incoming' = incoming /\ pending' = pending /\ used' = used
            /\ exhausted' = exhausted /\ terminal' = terminal /\ faulty' = faulty
        BY <2>1
      <4>3. QED
        BY <1>0, <4>1, <4>2 DEF TypeOK
    <3>3. QED
      BY <1>1, <3>1, <3>2
  <2>3. QED
    BY <1>0, <2>1, <2>2 DEF BudgetInv, BudgetIsExact
<1>2. CASE TakePending
  <2>1. /\ UNCHANGED <<reader, hand, incoming, exhausted, terminal, faulty, closeSent, closeOut, cancel,
                       failures, verdict, current>>
        /\ call' \in {"idle", "recv", "matched"}
        /\ reply' = reply \/ reply' = [reply EXCEPT ![current] = "error"]
    BY <1>2 DEF TakePending, Ends, readerVars, closeVars
  <2>2. /\ pending' \in Seq(WsFrame) /\ used' \in Nat /\ used' <= BufferLimit
        /\ used' = hand.bytes + Bytes(incoming) + Bytes(pending')
    <3>1. CASE UNCHANGED <<pending, used>>
      BY <1>0, <1>w, <1>u, <3>1 DEF TypeOK
    <3>2. CASE \E i \in Matching : pending' = RemoveAt(pending, i) /\ used' = used - pending[i].bytes
      <4>1. PICK i \in 1..Len(pending) : pending' = RemoveAt(pending, i) /\ used' = used - pending[i].bytes
        BY <1>w, <3>2 DEF Matching
      <4>2. pending' \in Seq(Entry) /\ Bytes(pending) = pending[i].bytes + Bytes(pending')
        BY <1>w, <4>1, BytesRemoved
      <4>3. pending' \in Seq(WsFrame)
        BY <1>0, <4>1, RemoveAtLacks DEF TypeOK
      <4>4. pending[i] \in Entry
        BY <1>w
      <4>5. pending[i].bytes \in Nat
        BY <4>4, BoundsAssumption DEF Entry, WsFrame, Failure
      <4>6. Bytes(pending') \in Nat
        BY <4>2, BytesOfQueue
      <4>7. used = hand.bytes + Bytes(incoming) + (pending[i].bytes + Bytes(pending'))
        BY <1>0, <4>2
      <4>9. /\ used - pending[i].bytes = hand.bytes + Bytes(incoming) + Bytes(pending')
            /\ used - pending[i].bytes \in Nat /\ used - pending[i].bytes <= BufferLimit
        <5> DEFINE h == hand.bytes
                   b == Bytes(incoming)
                   x == pending[i].bytes
                   y == Bytes(pending')
        <5>1. h \in Nat /\ b \in Nat /\ x \in Nat /\ y \in Nat /\ BufferLimit \in Nat
          BY <1>w, <4>5, <4>6
        <5>2. used = h + b + (x + y) /\ used <= BufferLimit
          BY <1>u, <4>7
        <5> HIDE DEF h, b, x, y
        <5>3. used - x = h + b + y /\ used - x \in Nat /\ used - x <= BufferLimit
          BY ONLY <5>1, <5>2
        <5>4. QED
          BY <5>3 DEF h, b, x, y
      <4>10. used' = used - pending[i].bytes
        BY <4>1
      <4>8. QED
        BY <4>3, <4>9, <4>10
    <3>3. QED
      BY <1>2, <3>1, <3>2 DEF TakePending
  <2>3. TypeOK'
    BY <1>0, <2>1, <2>2 DEF TypeOK
  <2>4. QED
    BY <1>0, <2>1, <2>2, <2>3 DEF BudgetInv, BudgetIsExact
<1>3. CASE Receive
  <2> DEFINE f == Head(incoming)
  <2>1. /\ UNCHANGED <<reader, hand, exhausted, terminal, faulty, closeSent, closeOut, cancel,
                       failures, verdict, current>>
        /\ call' \in {"idle", "matched", call} /\ incoming # <<>> /\ incoming' = Tail(incoming)
        /\ reply' = reply \/ reply' = [reply EXCEPT ![current] = "error"]
        /\ \/ used' = used - f.bytes /\ pending' = pending
           \/ used' = used /\ f # Failure /\ pending' = Append(pending, f)
    BY <1>3 DEF Receive, Ends, readerVars, closeVars
  <2>2. /\ incoming' \in Seq(Entry) /\ f \in Entry /\ Bytes(incoming) = f.bytes + Bytes(incoming')
    BY <1>w, <2>1, BytesTaken
  <2>3. f.bytes \in Nat /\ Bytes(incoming') \in Nat
    BY <2>2, BytesOfQueue, BoundsAssumption DEF Entry, WsFrame, Failure
  <2>4. Len(incoming') <= ChannelCap
    BY <1>0, <1>w, <2>1, CapAssumption DEF TypeOK
  <2>5. /\ pending' \in Seq(WsFrame) /\ used' \in Nat /\ used' <= BufferLimit
        /\ used' = hand.bytes + Bytes(incoming') + Bytes(pending')
    <3>1. CASE used' = used - f.bytes /\ pending' = pending
      <4>1. pending' \in Seq(WsFrame)
        BY <1>0, <3>1 DEF TypeOK
      <4>2. used = hand.bytes + (f.bytes + Bytes(incoming')) + Bytes(pending')
        BY <1>0, <2>2, <3>1
      <4>3. Bytes(pending') \in Nat
        BY <1>w, <3>1
      <4> DEFINE h == hand.bytes
                 b == Bytes(incoming')
                 x == f.bytes
                 y == Bytes(pending')
      <4>4. h \in Nat /\ b \in Nat /\ x \in Nat /\ y \in Nat /\ BufferLimit \in Nat
        BY <1>w, <2>3, <4>3
      <4>5. used = h + (x + b) + y /\ used <= BufferLimit /\ used' = used - x
        BY <1>u, <3>1, <4>2
      <4> HIDE DEF h, b, x, y
      <4>6. used' = h + b + y /\ used' \in Nat /\ used' <= BufferLimit
        BY ONLY <4>4, <4>5
      <4>7. QED
        BY <4>1, <4>6 DEF h, b, x, y
    <3>2. CASE used' = used /\ f # Failure /\ pending' = Append(pending, f)
      <4>1. f \in WsFrame
        BY <2>2, <3>2 DEF Entry
      <4>2. Bytes(pending') = Bytes(pending) + f.bytes
        BY <1>w, <2>2, <3>2, BytesAppended
      <4>3. pending' \in Seq(WsFrame)
        BY <1>0, <3>2, <4>1 DEF TypeOK
      <4>4. QED
        BY <1>0, <1>w, <1>u, <2>2, <2>3, <3>2, <4>2, <4>3, SMTT(30)
    <3>3. QED
      BY <2>1, <3>1, <3>2
  <2>6. TypeOK'
    BY <1>0, <2>1, <2>2, <2>4, <2>5 DEF TypeOK, Entry
  <2>7. QED
    BY <1>0, <2>1, <2>5, <2>6 DEF BudgetInv, BudgetIsExact
<1>4. QED
  BY <1>1, <1>2, <1>3 DEF Foreground

\* The budget is charged for exactly the frames that are held, for every peer, budget and
\* depth of the channel: nothing leaks when a call is dropped or the reader aborted
\* (BufferedFrame, request).
THEOREM BudgetStaysExact == WsSpec => []BudgetIsExact
<1>1. ASSUME BudgetInv, [WsNext]_vars PROVE BudgetInv'
  <2>1. CASE WsNext
    BY <1>1, <2>1, BudgetOfReader, BudgetOfCalls DEF WsNext
  <2>2. CASE UNCHANGED vars
    BY <1>1, <2>2 DEF vars, readerVars, callVars, closeVars, BudgetInv, BudgetIsExact, TypeOK
  <2>3. QED
    BY <1>1, <2>1, <2>2
<1>2. BudgetInv => BudgetIsExact
  BY DEF BudgetInv
<1>3. QED
  BY BudgetBegins, <1>1, <1>2, PTL DEF WsSpec

-----------------------------------------------------------------------------
(***************************************************************************)
(* Event streams.                                                          *)
(***************************************************************************)
\* A set of sequences that has the empty one and, with one, all that are longer by an
\* element, has every sequence.
LEMMA EverySequence ==
    ASSUME NEW A, NEW S, <<>> \in S, \A s \in Seq(A), b \in A : s \in S => Append(s, b) \in S
    PROVE  \A s \in Seq(A) : s \in S
<1> SUFFICES ASSUME NEW s \in Seq(A), s \notin S PROVE FALSE
  OBVIOUS
<1> DEFINE N == {n \in 0..Len(s) : SubSeq(s, 1, n) \notin S}
<1>1. Len(s) \in N /\ N \in SUBSET Nat
  <2>1. SubSeq(s, 1, Len(s)) = s
    OBVIOUS
  <2>2. Len(s) \in 0..Len(s)
    OBVIOUS
  <2>3. Len(s) \in N
    BY <2>1, <2>2
  <2>4. N \in SUBSET Nat
    OBVIOUS
  <2>5. QED
    BY <2>3, <2>4
<1>2. PICK n \in N : \A m \in N : n <= m
  <2> HIDE DEF N
  <2>1. QED
    BY <1>1, LeastNumber
<1>3. n # 0
  <2>1. SubSeq(s, 1, 0) = <<>>
    OBVIOUS
  <2>2. QED
    BY <1>2, <2>1
<1>4. n - 1 \in 0..Len(s) /\ n - 1 \notin N
  BY <1>2, <1>3
<1>5. SubSeq(s, 1, n - 1) \in Seq(A) /\ s[n] \in A
  BY <1>2, <1>3, <1>4
<1>6. SubSeq(s, 1, n) = Append(SubSeq(s, 1, n - 1), s[n])
  BY <1>2, <1>3, <1>5
<1>7. QED
  BY <1>2, <1>4, <1>5, <1>6

\* h is the recursive function that the cut of s is defined by.
Cuts(s, h) ==
    h = [i \in 0..Len(s) |-> IF i = 0 THEN [ended |-> <<>>, last |-> <<>>] ELSE WithByte(h[i - 1], s, i)]

\* The definition of a cut has such a function to choose.
LEMMA CutExists ==
    ASSUME NEW s \in Seq(Alphabet)
    PROVE  \E h : Cuts(s, h)
<1> DEFINE F(n, h) == h = [i \in 0..n |-> IF i = 0 THEN [ended |-> <<>>, last |-> <<>>] ELSE WithByte(h[i - 1], s, i)]
           N == {n \in Nat : ~\E h : F(n, h)}
<1>1. SUFFICES ASSUME N # {} PROVE FALSE
  BY DEF Cuts
<1>2. PICK n \in N : \A m \in N : n <= m
  <2> HIDE DEF F
  <2>1. QED
    BY <1>1, LeastNumber
<1>3. n # 0
  <2>1. F(0, [i \in 0..0 |-> [ended |-> <<>>, last |-> <<>>]])
    OBVIOUS
  <2> HIDE DEF F
  <2>2. QED
    BY <1>2, <2>1
<1>4. PICK h : F(n - 1, h)
  <2> HIDE DEF F
  <2>1. n - 1 \in Nat /\ ~(n <= n - 1)
    BY <1>2, <1>3
  <2>2. n - 1 \notin N
    <3> HIDE DEF N
    <3>1. QED
      BY <1>2, <2>1
  <2>3. QED
    BY <2>1, <2>2
<1> DEFINE g == [i \in 0..n |-> IF i = n THEN WithByte(h[n - 1], s, n) ELSE h[i]]
<1>5. F(n, g)
  <2>1. ASSUME NEW i \in 0..n
        PROVE  g[i] = IF i = 0 THEN [ended |-> <<>>, last |-> <<>>] ELSE WithByte(g[i - 1], s, i)
    <3>1. CASE i = n
      BY <1>2, <1>3, <3>1
    <3>2. CASE i # n
      <4>1. i \in 0..(n - 1) /\ g[i] = h[i] /\ (i # 0 => g[i - 1] = h[i - 1])
        BY <1>2, <1>3, <3>2
      <4>2. h[i] = IF i = 0 THEN [ended |-> <<>>, last |-> <<>>] ELSE WithByte(h[i - 1], s, i)
        BY <1>4, <4>1
      <4> HIDE DEF g
      <4>3. QED
        BY <4>1, <4>2
    <3>3. QED
      BY <3>1, <3>2
  <2>2. g = [i \in 0..n |-> IF i = 0 THEN [ended |-> <<>>, last |-> <<>>] ELSE WithByte(g[i - 1], s, i)]
    BY <2>1
  <2>3. QED
    BY <2>2
<1> HIDE DEF F
<1>6. QED
  BY <1>2, <1>5

\* ... and the cut is its last value.
LEMMA CutIs ==
    ASSUME NEW s \in Seq(Alphabet)
    PROVE  \E h : /\ h[0] = [ended |-> <<>>, last |-> <<>>] /\ Cut(s) = h[Len(s)]
                  /\ \A i \in 1..Len(s) : h[i] = WithByte(h[i - 1], s, i)
<1>1. PICK g : Cuts(s, g)
  BY CutExists
<1>2. Cut(s) = (CHOOSE h : Cuts(s, h))[Len(s)]
  BY DEF Cut, Cuts
<1>3. PICK h : Cuts(s, h) /\ Cut(s) = h[Len(s)]
  BY <1>1, <1>2
<1>4. h[0] = [ended |-> <<>>, last |-> <<>>] /\ \A i \in 1..Len(s) : h[i] = WithByte(h[i - 1], s, i)
  <2>1. ASSUME NEW i \in 0..Len(s) PROVE h[i] = IF i = 0 THEN [ended |-> <<>>, last |-> <<>>] ELSE WithByte(h[i - 1], s, i)
    <3>1. h = [j \in 0..Len(s) |-> IF j = 0 THEN [ended |-> <<>>, last |-> <<>>] ELSE WithByte(h[j - 1], s, j)]
      BY <1>3 DEF Cuts
    <3>2. QED
      BY <3>1, Zenon
  <2>2. 0 \in 0..Len(s) /\ \A i \in 1..Len(s) : i \in 0..Len(s) /\ i # 0
    OBVIOUS
  <2>3. QED
    BY <2>1, <2>2
<1>5. QED
  BY <1>3, <1>4

\* The cut of a stream that is longer by a byte.
LEMMA CutGrows ==
    ASSUME NEW s \in Seq(Alphabet), NEW b \in Alphabet
    PROVE  Cut(Append(s, b)) = WithByte(Cut(s), Append(s, b), Len(s) + 1)
<1> DEFINE t == Append(s, b)
<1>1. PICK h : /\ h[0] = [ended |-> <<>>, last |-> <<>>] /\ Cut(s) = h[Len(s)]
               /\ \A i \in 1..Len(s) : h[i] = WithByte(h[i - 1], s, i)
  BY CutIs
<1>2. /\ t \in Seq(Alphabet) /\ Len(t) = Len(s) + 1 /\ Len(s) \in Nat /\ t[Len(s) + 1] = b
      /\ \A i \in 1..Len(s) : t[i] = s[i]
  OBVIOUS
<1> HIDE DEF t
<1>3. PICK g : /\ g[0] = [ended |-> <<>>, last |-> <<>>] /\ Cut(t) = g[Len(t)]
               /\ \A i \in 1..Len(t) : g[i] = WithByte(g[i - 1], t, i)
  BY <1>2, CutIs
<1>4. ASSUME NEW i \in 1..Len(s), g[i - 1] = h[i - 1] PROVE g[i] = h[i]
  <2>1. g[i] = WithByte(g[i - 1], t, i) /\ h[i] = WithByte(h[i - 1], s, i) /\ t[i] = s[i] /\ (i > 1 => t[i - 1] = s[i - 1])
    BY <1>1, <1>2, <1>3
  <2>2. QED
    BY <1>4, <2>1 DEF WithByte
<1>5. g[Len(s)] = h[Len(s)]
  <2> DEFINE N == {i \in 0..Len(s) : g[i] # h[i]}
  <2>1. SUFFICES ASSUME N # {} PROVE FALSE
    BY <1>2
  <2>2. PICK n \in N : \A m \in N : n <= m
    <3>1. N \in SUBSET Nat
      OBVIOUS
    <3> HIDE DEF N
    <3>2. QED
      BY <2>1, <3>1, LeastNumber
  <2>3. n \in 1..Len(s) /\ g[n] # h[n]
    BY <1>1, <1>2, <1>3, <2>2
  <2>4. g[n - 1] = h[n - 1]
    <3>1. n - 1 \in 0..Len(s) /\ ~(n <= n - 1)
      BY <1>2, <2>3
    <3>2. QED
      BY <2>2, <3>1
  <2>5. QED
    BY <1>4, <2>3, <2>4
<1>6. Len(t) \in 1..Len(t) /\ Len(t) - 1 = Len(s)
  BY <1>2
<1>7. Cut(t) = WithByte(Cut(s), t, Len(s) + 1)
  BY <1>1, <1>2, <1>3, <1>5, <1>6
<1>8. QED
  BY <1>7 DEF t

\* A stream with no byte.
LEMMA CutBegins == Cut(<<>>) = [ended |-> <<>>, last |-> <<>>]
<1>1. <<>> \in Seq(Alphabet) /\ Len(<<>>) = 0
  OBVIOUS
<1>2. PICK h : h[0] = [ended |-> <<>>, last |-> <<>>] /\ Cut(<<>>) = h[Len(<<>>)]
  BY <1>1, CutIs
<1>3. QED
  BY <1>1, <1>2

\* h is the recursive function that the data of the lines s is defined by.
Joins(s, h) ==
    h = [i \in 0..Len(s) |-> IF i = 0 THEN [has |-> FALSE, data |-> <<>>] ELSE WithLine(h[i - 1], s[i])]

\* The definition of the data of lines has such a function to choose.
LEMMA DataOfExists ==
    ASSUME NEW s \in Seq(Seq(Alphabet))
    PROVE  \E h : Joins(s, h)
<1> DEFINE F(n, h) == h = [i \in 0..n |-> IF i = 0 THEN [has |-> FALSE, data |-> <<>>] ELSE WithLine(h[i - 1], s[i])]
           N == {n \in Nat : ~\E h : F(n, h)}
<1>1. SUFFICES ASSUME N # {} PROVE FALSE
  BY SMTT(30) DEF Joins
<1>2. PICK n \in N : \A m \in N : n <= m
  <2> HIDE DEF F
  <2>1. QED
    BY <1>1, LeastNumber
<1>3. n # 0
  <2>1. F(0, [i \in 0..0 |-> [has |-> FALSE, data |-> <<>>]])
    OBVIOUS
  <2> HIDE DEF F
  <2>2. QED
    BY <1>2, <2>1
<1>4. PICK h : F(n - 1, h)
  <2> HIDE DEF F
  <2>1. n - 1 \in Nat /\ ~(n <= n - 1)
    BY <1>2, <1>3
  <2>2. n - 1 \notin N
    <3> HIDE DEF N
    <3>1. QED
      BY <1>2, <2>1
  <2>3. QED
    BY <2>1, <2>2
<1> DEFINE g == [i \in 0..n |-> IF i = n THEN WithLine(h[n - 1], s[n]) ELSE h[i]]
<1>5. F(n, g)
  <2>1. ASSUME NEW i \in 0..n
        PROVE  g[i] = IF i = 0 THEN [has |-> FALSE, data |-> <<>>] ELSE WithLine(g[i - 1], s[i])
    <3>1. CASE i = n
      BY <1>2, <1>3, <3>1
    <3>2. CASE i # n
      <4>1. i \in 0..(n - 1) /\ g[i] = h[i] /\ (i # 0 => g[i - 1] = h[i - 1])
        BY <1>2, <1>3, <3>2
      <4>2. h[i] = IF i = 0 THEN [has |-> FALSE, data |-> <<>>] ELSE WithLine(h[i - 1], s[i])
        BY <1>4, <4>1
      <4> HIDE DEF g
      <4>3. QED
        BY <4>1, <4>2
    <3>3. QED
      BY <3>1, <3>2
  <2>2. g = [i \in 0..n |-> IF i = 0 THEN [has |-> FALSE, data |-> <<>>] ELSE WithLine(g[i - 1], s[i])]
    BY <2>1
  <2>3. QED
    BY <2>2
<1> HIDE DEF F
<1>6. QED
  BY <1>2, <1>5

\* ... and the data is its last value.
LEMMA DataOfIs ==
    ASSUME NEW s \in Seq(Seq(Alphabet))
    PROVE  \E h : /\ h[0] = [has |-> FALSE, data |-> <<>>] /\ DataOf(s) = h[Len(s)]
                  /\ \A i \in 1..Len(s) : h[i] = WithLine(h[i - 1], s[i])
<1>1. PICK g : Joins(s, g)
  BY DataOfExists
<1>2. DataOf(s) = (CHOOSE h : Joins(s, h))[Len(s)]
  BY DEF DataOf, Joins
<1>3. PICK h : Joins(s, h) /\ DataOf(s) = h[Len(s)]
  BY <1>1, <1>2
<1>4. h[0] = [has |-> FALSE, data |-> <<>>] /\ \A i \in 1..Len(s) : h[i] = WithLine(h[i - 1], s[i])
  <2>1. ASSUME NEW i \in 0..Len(s) PROVE h[i] = IF i = 0 THEN [has |-> FALSE, data |-> <<>>] ELSE WithLine(h[i - 1], s[i])
    <3>1. h = [j \in 0..Len(s) |-> IF j = 0 THEN [has |-> FALSE, data |-> <<>>] ELSE WithLine(h[j - 1], s[j])]
      BY <1>3 DEF Joins
    <3>2. QED
      BY <3>1, Zenon
  <2>2. 0 \in 0..Len(s) /\ \A i \in 1..Len(s) : i \in 0..Len(s) /\ i # 0
    OBVIOUS
  <2>3. QED
    BY <2>1, <2>2
<1>5. QED
  BY <1>3, <1>4

\* The data of lines and one more.
LEMMA DataOfGrows ==
    ASSUME NEW s \in Seq(Seq(Alphabet)), NEW b \in Seq(Alphabet)
    PROVE  DataOf(Append(s, b)) = WithLine(DataOf(s), b)
<1> DEFINE t == Append(s, b)
<1>1. PICK h : /\ h[0] = [has |-> FALSE, data |-> <<>>] /\ DataOf(s) = h[Len(s)]
               /\ \A i \in 1..Len(s) : h[i] = WithLine(h[i - 1], s[i])
  BY DataOfIs
<1>2. /\ t \in Seq(Seq(Alphabet)) /\ Len(t) = Len(s) + 1 /\ Len(s) \in Nat /\ t[Len(s) + 1] = b
      /\ \A i \in 1..Len(s) : t[i] = s[i]
  OBVIOUS
<1> HIDE DEF t
<1>3. PICK g : /\ g[0] = [has |-> FALSE, data |-> <<>>] /\ DataOf(t) = g[Len(t)]
               /\ \A i \in 1..Len(t) : g[i] = WithLine(g[i - 1], t[i])
  BY <1>2, DataOfIs
<1>4. ASSUME NEW i \in 1..Len(s), g[i - 1] = h[i - 1] PROVE g[i] = h[i]
  <2>1. g[i] = WithLine(g[i - 1], t[i]) /\ h[i] = WithLine(h[i - 1], s[i]) /\ t[i] = s[i]
    BY <1>1, <1>2, <1>3
  <2>2. QED
    BY <1>4, <2>1
<1>5. g[Len(s)] = h[Len(s)]
  <2> DEFINE N == {i \in 0..Len(s) : g[i] # h[i]}
  <2>1. SUFFICES ASSUME N # {} PROVE FALSE
    BY <1>2
  <2>2. PICK n \in N : \A m \in N : n <= m
    <3>1. N \in SUBSET Nat
      OBVIOUS
    <3> HIDE DEF N
    <3>2. QED
      BY <2>1, <3>1, LeastNumber
  <2>3. n \in 1..Len(s) /\ g[n] # h[n]
    BY <1>1, <1>2, <1>3, <2>2
  <2>4. g[n - 1] = h[n - 1]
    <3>1. n - 1 \in 0..Len(s) /\ ~(n <= n - 1)
      BY <1>2, <2>3
    <3>2. QED
      BY <2>2, <3>1
  <2>5. QED
    BY <1>4, <2>3, <2>4
<1>6. Len(t) \in 1..Len(t) /\ Len(t) - 1 = Len(s)
  BY <1>2
<1>7. DataOf(t) = WithLine(DataOf(s), b)
  BY <1>1, <1>2, <1>3, <1>5, <1>6
<1>8. QED
  BY <1>7 DEF t

\* The data of no line.
LEMMA DataOfBegins == DataOf(<<>>) = [has |-> FALSE, data |-> <<>>]
<1>1. <<>> \in Seq(Seq(Alphabet)) /\ Len(<<>>) = 0
  OBVIOUS
<1>2. PICK h : h[0] = [has |-> FALSE, data |-> <<>>] /\ DataOf(<<>>) = h[Len(<<>>)]
  BY <1>1, DataOfIs
<1>3. QED
  BY <1>1, <1>2

\* Nothing is read yet.
Unread == [p |-> [type |-> <<>>, data |-> <<>>, has |-> FALSE, state |-> "open"], out |-> <<>>]

\* h is the recursive function that reading the lines s is defined by.
Reads(s, h) ==
    h = [i \in 0..Len(s) |-> IF i = 0 THEN Unread ELSE ReadLine(h[i - 1], s[i])]

\* The definition of what is read of lines has such a function to choose.
LEMMA ReadLinesExists ==
    ASSUME NEW s \in Seq(Seq(Alphabet))
    PROVE  \E h : Reads(s, h)
<1> DEFINE F(n, h) == h = [i \in 0..n |-> IF i = 0 THEN Unread ELSE ReadLine(h[i - 1], s[i])]
           N == {n \in Nat : ~\E h : F(n, h)}
<1>1. SUFFICES ASSUME N # {} PROVE FALSE
  BY SMTT(30) DEF Reads
<1>2. PICK n \in N : \A m \in N : n <= m
  <2> HIDE DEF F
  <2>1. QED
    BY <1>1, LeastNumber
<1>3. n # 0
  <2>1. F(0, [i \in 0..0 |-> Unread])
    OBVIOUS
  <2> HIDE DEF F
  <2>2. QED
    BY <1>2, <2>1
<1>4. PICK h : F(n - 1, h)
  <2> HIDE DEF F
  <2>1. n - 1 \in Nat /\ ~(n <= n - 1)
    BY <1>2, <1>3
  <2>2. n - 1 \notin N
    <3> HIDE DEF N
    <3>1. QED
      BY <1>2, <2>1
  <2>3. QED
    BY <2>1, <2>2
<1> DEFINE g == [i \in 0..n |-> IF i = n THEN ReadLine(h[n - 1], s[n]) ELSE h[i]]
<1>5. F(n, g)
  <2>1. ASSUME NEW i \in 0..n
        PROVE  g[i] = IF i = 0 THEN Unread ELSE ReadLine(g[i - 1], s[i])
    <3>1. CASE i = n
      BY <1>2, <1>3, <3>1
    <3>2. CASE i # n
      <4>1. i \in 0..(n - 1) /\ g[i] = h[i] /\ (i # 0 => g[i - 1] = h[i - 1])
        BY <1>2, <1>3, <3>2
      <4>2. h[i] = IF i = 0 THEN Unread ELSE ReadLine(h[i - 1], s[i])
        BY <1>4, <4>1
      <4> HIDE DEF g
      <4>3. QED
        BY <4>1, <4>2
    <3>3. QED
      BY <3>1, <3>2
  <2>2. g = [i \in 0..n |-> IF i = 0 THEN Unread ELSE ReadLine(g[i - 1], s[i])]
    BY <2>1
  <2>3. QED
    BY <2>2
<1> HIDE DEF F
<1>6. QED
  BY <1>2, <1>5

\* ... and what is read is its last value.
LEMMA ReadLinesIs ==
    ASSUME NEW s \in Seq(Seq(Alphabet))
    PROVE  \E h : /\ h[0] = Unread /\ ReadLines(s) = h[Len(s)]
                  /\ \A i \in 1..Len(s) : h[i] = ReadLine(h[i - 1], s[i])
<1>1. PICK g : Reads(s, g)
  BY ReadLinesExists
<1>2. ReadLines(s) = (CHOOSE h : Reads(s, h))[Len(s)]
  BY DEF ReadLines, Reads, Unread
<1>3. PICK h : Reads(s, h) /\ ReadLines(s) = h[Len(s)]
  BY <1>1, <1>2
<1>4. h[0] = Unread /\ \A i \in 1..Len(s) : h[i] = ReadLine(h[i - 1], s[i])
  <2>1. ASSUME NEW i \in 0..Len(s) PROVE h[i] = IF i = 0 THEN Unread ELSE ReadLine(h[i - 1], s[i])
    <3>1. h = [j \in 0..Len(s) |-> IF j = 0 THEN Unread ELSE ReadLine(h[j - 1], s[j])]
      BY <1>3 DEF Reads
    <3>2. QED
      BY <3>1, Zenon
  <2>2. 0 \in 0..Len(s) /\ \A i \in 1..Len(s) : i \in 0..Len(s) /\ i # 0
    OBVIOUS
  <2>3. QED
    BY <2>1, <2>2
<1>5. QED
  BY <1>3, <1>4

\* What is read of lines and one more.
LEMMA ReadLinesGrows ==
    ASSUME NEW s \in Seq(Seq(Alphabet)), NEW b \in Seq(Alphabet)
    PROVE  ReadLines(Append(s, b)) = ReadLine(ReadLines(s), b)
<1> DEFINE t == Append(s, b)
<1>1. PICK h : /\ h[0] = Unread /\ ReadLines(s) = h[Len(s)]
               /\ \A i \in 1..Len(s) : h[i] = ReadLine(h[i - 1], s[i])
  BY ReadLinesIs
<1>2. /\ t \in Seq(Seq(Alphabet)) /\ Len(t) = Len(s) + 1 /\ Len(s) \in Nat /\ t[Len(s) + 1] = b
      /\ \A i \in 1..Len(s) : t[i] = s[i]
  OBVIOUS
<1> HIDE DEF t
<1>3. PICK g : /\ g[0] = Unread /\ ReadLines(t) = g[Len(t)]
               /\ \A i \in 1..Len(t) : g[i] = ReadLine(g[i - 1], t[i])
  BY <1>2, ReadLinesIs
<1>4. ASSUME NEW i \in 1..Len(s), g[i - 1] = h[i - 1] PROVE g[i] = h[i]
  <2>1. g[i] = ReadLine(g[i - 1], t[i]) /\ h[i] = ReadLine(h[i - 1], s[i]) /\ t[i] = s[i]
    BY <1>1, <1>2, <1>3
  <2>2. QED
    BY <1>4, <2>1
<1>5. g[Len(s)] = h[Len(s)]
  <2> DEFINE N == {i \in 0..Len(s) : g[i] # h[i]}
  <2>1. SUFFICES ASSUME N # {} PROVE FALSE
    BY <1>2
  <2>2. PICK n \in N : \A m \in N : n <= m
    <3>1. N \in SUBSET Nat
      OBVIOUS
    <3> HIDE DEF N
    <3>2. QED
      BY <2>1, <3>1, LeastNumber
  <2>3. n \in 1..Len(s) /\ g[n] # h[n]
    BY <1>1, <1>2, <1>3, <2>2
  <2>4. g[n - 1] = h[n - 1]
    <3>1. n - 1 \in 0..Len(s) /\ ~(n <= n - 1)
      BY <1>2, <2>3
    <3>2. QED
      BY <2>2, <3>1
  <2>5. QED
    BY <1>4, <2>3, <2>4
<1>6. Len(t) \in 1..Len(t) /\ Len(t) - 1 = Len(s)
  BY <1>2
<1>7. ReadLines(t) = ReadLine(ReadLines(s), b)
  BY <1>1, <1>2, <1>3, <1>5, <1>6
<1>8. QED
  BY <1>7 DEF t

\* What is read of no line.
LEMMA ReadLinesBegins == ReadLines(<<>>) = Unread
<1>1. <<>> \in Seq(Seq(Alphabet)) /\ Len(<<>>) = 0
  OBVIOUS
<1>2. PICK h : h[0] = Unread /\ ReadLines(<<>>) = h[Len(<<>>)]
  BY <1>1, ReadLinesIs
<1>3. QED
  BY <1>1, <1>2

-----------------------------------------------------------------------------
\* Facts about sequences that are joined or longer by an element.
LEMMA JoinThree ==
    ASSUME NEW A, NEW s \in Seq(A), NEW t \in Seq(A), NEW u \in Seq(A)
    PROVE  s \o t \in Seq(A) /\ s \o (t \o u) = (s \o t) \o u
OBVIOUS

LEMMA JoinOne ==
    ASSUME NEW A, NEW s \in Seq(A), NEW t \in Seq(A), NEW b \in A
    PROVE  /\ Append(s, b) \in Seq(A) /\ Append(s, b) = s \o <<b>> /\ <<b>> \in Seq(A)
           /\ Append(s, b) # <<>> /\ Append(s, b)[Len(Append(s, b))] = b
           /\ Append(s, b) \o t = s \o (<<b>> \o t) /\ <<b>> \o t \in Seq(A)
<1>1. Append(s, b) \in Seq(A) /\ Append(s, b) = s \o <<b>> /\ <<b>> \in Seq(A)
  OBVIOUS
<1>2. Append(s, b) # <<>> /\ Append(s, b)[Len(Append(s, b))] = b
  OBVIOUS
<1>3. (s \o <<b>>) \o t = s \o (<<b>> \o t) /\ <<b>> \o t \in Seq(A)
  OBVIOUS
<1>5. QED
  BY <1>1, <1>2, <1>3

LEMMA AppendFull ==
    ASSUME NEW s \in Seq(Seq(Alphabet)), NEW a \in Seq(Alphabet)
    PROVE  Append(s, a) # <<>> /\ Append(s, a) \in Seq(Seq(Alphabet))
<1>1. Len(Append(s, a)) = Len(s) + 1 /\ Len(s) \in Nat
  OBVIOUS
<1>2. Append(s, a) # <<>>
  <2>1. Len(s) + 1 # 0 /\ Len(<<>>) = 0
    BY <1>1
  <2>2. QED
    BY <1>1, <2>1
<1>3. Append(s, a) \in Seq(Seq(Alphabet))
  OBVIOUS
<1>4. QED
  BY <1>2, <1>3

LEMMA AppendOnce ==
    ASSUME NEW s \in Seq(Seq(Alphabet)), NEW t \in Seq(Seq(Alphabet)), NEW a \in Seq(Alphabet), NEW b \in Seq(Alphabet),
           Append(s, a) = Append(t, b)
    PROVE  s = t /\ a = b
<1>1. Len(s) = Len(t)
  <2>1. Len(Append(s, a)) = Len(s) + 1 /\ Len(Append(t, b)) = Len(t) + 1
    OBVIOUS
  <2>2. QED
    BY <2>1
<1>2. a = b
  <2>1. Append(s, a)[Len(s) + 1] = a /\ Append(t, b)[Len(t) + 1] = b
    OBVIOUS
  <2>2. QED
    BY <1>1, <2>1
<1>3. ASSUME NEW k \in 1..Len(s) PROVE s[k] = t[k]
  <2>1. Append(s, a)[k] = s[k] /\ Append(t, b)[k] = t[k]
    BY <1>1
  <2>2. QED
    BY <2>1
<1>4. QED
  BY <1>1, <1>2, <1>3, SeqEqual

\* What a stream is cut into.
LEMMA CutTyped ==
    ASSUME NEW s \in Seq(Alphabet)
    PROVE  Cut(s) \in [ended : Seq(Seq(Alphabet)), last : Seq(Alphabet)]
<1> DEFINE T == [ended : Seq(Seq(Alphabet)), last : Seq(Alphabet)]
           S == {u \in Seq(Alphabet) : Cut(u) \in T}
<1>1. <<>> \in S
  <2>1. [ended |-> <<>>, last |-> <<>>] \in T /\ <<>> \in Seq(Alphabet)
    OBVIOUS
  <2>2. Cut(<<>>) \in T
    BY <2>1, CutBegins
  <2>3. QED
    BY <2>1, <2>2
<1>2. ASSUME NEW u \in Seq(Alphabet), NEW b \in Alphabet, u \in S PROVE Append(u, b) \in S
  <2> DEFINE t == Append(u, b)
             c == Cut(u)
  <2>1. t \in Seq(Alphabet) /\ t[Len(u) + 1] = b /\ Len(u) \in Nat
    OBVIOUS
  <2>2. Cut(t) = WithByte(c, t, Len(u) + 1)
    BY CutGrows
  <2>3. c.ended \in Seq(Seq(Alphabet)) /\ c.last \in Seq(Alphabet) /\ c \in T
    BY <1>2
  <2> HIDE DEF c, t
  <2>4. Append(c.ended, c.last) \in Seq(Seq(Alphabet)) /\ Append(c.last, b) \in Seq(Alphabet)
    BY <2>3
  <2>5. WithByte(c, t, Len(u) + 1) \in T
    <3>1. [ended |-> Append(c.ended, c.last), last |-> <<>>] \in T
      BY <2>4
    <3>2. [ended |-> c.ended, last |-> Append(c.last, t[Len(u) + 1])] \in T
      BY <2>1, <2>3, <2>4
    <3>3. \/ WithByte(c, t, Len(u) + 1) = c
          \/ WithByte(c, t, Len(u) + 1) = [ended |-> Append(c.ended, c.last), last |-> <<>>]
          \/ WithByte(c, t, Len(u) + 1) = [ended |-> c.ended, last |-> Append(c.last, t[Len(u) + 1])]
      BY DEF WithByte
    <3> HIDE DEF T
    <3>4. QED
      BY <2>3, <3>1, <3>2, <3>3
  <2>6. QED
    <3> HIDE DEF T
    <3>1. QED
      BY <2>1, <2>2, <2>5 DEF t
<1>3. s \in S
  <2> HIDE DEF S
  <2>1. QED
    BY <1>1, <1>2, EverySequence
<1>4. QED
  BY <1>3

\* A byte that is the second of a CRLF after s.
MidBreak(s, b) == b = "LF" /\ s # <<>> /\ s[Len(s)] = "CR"

\* The three things a byte can be: the second of a CRLF, a break, or part of a line.
LEMMA CutCases ==
    ASSUME NEW s \in Seq(Alphabet), NEW b \in Alphabet
    PROVE  LET c == Cut(s) IN
           /\ Append(s, b) \in Seq(Alphabet)
           /\ MidBreak(s, b) => Cut(Append(s, b)) = c
           /\ ~MidBreak(s, b) /\ b \in Breaks =>
                 Cut(Append(s, b)) = [ended |-> Append(c.ended, c.last), last |-> <<>>]
           /\ b \notin Breaks => Cut(Append(s, b)) = [ended |-> c.ended, last |-> Append(c.last, b)]
<1> DEFINE t == Append(s, b)
           c == Cut(s)
           n == Len(s)
<1>1. t \in Seq(Alphabet) /\ n \in Nat /\ t[n + 1] = b /\ (n > 0 => t[n] = s[n]) /\ (n = 0 <=> s = <<>>)
  OBVIOUS
<1>2. Cut(t) = WithByte(c, t, n + 1)
  BY CutGrows
<1>3. c \in [ended : Seq(Seq(Alphabet)), last : Seq(Alphabet)]
  BY CutTyped
<1> HIDE DEF t, c, n
<1>4. MidBreak(s, b) <=> t[n + 1] = "LF" /\ n + 1 > 1 /\ t[(n + 1) - 1] = "CR"
  <2>1. (n + 1) - 1 = n /\ (n + 1 > 1 <=> n > 0) /\ (n > 0 <=> n # 0)
    BY <1>1
  <2>2. QED
    BY <1>1, <2>1 DEF MidBreak, n
<1>5. MidBreak(s, b) => Cut(t) = c
  BY <1>2, <1>4 DEF WithByte
<1>6. ~MidBreak(s, b) /\ b \in Breaks => Cut(t) = [ended |-> Append(c.ended, c.last), last |-> <<>>]
  BY <1>1, <1>2, <1>4 DEF WithByte
<1>7. b \notin Breaks => Cut(t) = [ended |-> c.ended, last |-> Append(c.last, b)]
  BY <1>1, <1>2, <1>4 DEF WithByte, MidBreak, Breaks
<1>8. QED
  BY <1>1, <1>5, <1>6, <1>7 DEF t, c

\* v is part of one line.
NoBreak(v) == \A i \in 1..Len(v) : v[i] \notin Breaks

\* Bytes without a break among them make the last line longer.
LEMMA CutOfPlain ==
    ASSUME NEW s \in Seq(Alphabet), NEW v \in Seq(Alphabet), NoBreak(v)
    PROVE  Cut(s \o v) = [ended |-> Cut(s).ended, last |-> Cut(s).last \o v]
<1> DEFINE S == {u \in Seq(Alphabet) : NoBreak(u) => Cut(s \o u) = [ended |-> Cut(s).ended, last |-> Cut(s).last \o u]}
<1>0. Cut(s) \in [ended : Seq(Seq(Alphabet)), last : Seq(Alphabet)]
  BY CutTyped
<1>1. <<>> \in S
  <2>1. s \o <<>> = s /\ Cut(s).last \o <<>> = Cut(s).last
    BY <1>0
  <2>2. Cut(s) = [ended |-> Cut(s).ended, last |-> Cut(s).last]
    BY <1>0
  <2>3. Cut(s \o <<>>) = [ended |-> Cut(s).ended, last |-> Cut(s).last \o <<>>]
    BY <2>1, <2>2
  <2>4. <<>> \in Seq(Alphabet)
    OBVIOUS
  <2>5. QED
    BY <2>3, <2>4
<1>2. ASSUME NEW u \in Seq(Alphabet), NEW b \in Alphabet, u \in S PROVE Append(u, b) \in S
  <2>1. SUFFICES ASSUME NoBreak(Append(u, b))
                 PROVE  Cut(s \o Append(u, b)) = [ended |-> Cut(s).ended, last |-> Cut(s).last \o Append(u, b)]
    <3>1. Append(u, b) \in Seq(Alphabet)
      OBVIOUS
    <3>2. QED
      BY <2>1, <3>1
  <2>2. NoBreak(u) /\ b \notin Breaks
    <3>1. /\ Len(Append(u, b)) = Len(u) + 1 /\ Append(u, b)[Len(u) + 1] = b /\ Len(u) \in Nat
          /\ \A i \in 1..Len(u) : Append(u, b)[i] = u[i]
      OBVIOUS
    <3>2. QED
      BY <2>1, <3>1 DEF NoBreak
  <2>3. Cut(s \o u) = [ended |-> Cut(s).ended, last |-> Cut(s).last \o u]
    BY <1>2, <2>2
  <2>4. s \o Append(u, b) = Append(s \o u, b) /\ s \o u \in Seq(Alphabet)
    OBVIOUS
  <2>5. Cut(s).last \o Append(u, b) = Append(Cut(s).last \o u, b)
    BY <1>0, SMTT(30)
  <2>6. Cut(Append(s \o u, b)) = [ended |-> Cut(s \o u).ended, last |-> Append(Cut(s \o u).last, b)]
    BY <2>2, <2>4, CutCases
  <2>7. QED
    BY <2>3, <2>4, <2>5, <2>6
<1>3. v \in S
  <2> HIDE DEF S
  <2>1. QED
    BY <1>1, <1>2, EverySequence
<1>4. QED
  BY <1>3

\* After a line break, and not between a CR and its LF, a stream goes on as if it began.
LEMMA CutOfBoth ==
    ASSUME NEW u \in Seq(Alphabet), NEW v \in Seq(Alphabet), Cut(u).last = <<>>,
           v # <<>> => ~MidBreak(u, v[1])
    PROVE  Cut(u \o v) = [ended |-> Cut(u).ended \o Cut(v).ended, last |-> Cut(v).last]
<1> DEFINE Both(w) == Cut(u \o w) = [ended |-> Cut(u).ended \o Cut(w).ended, last |-> Cut(w).last]
           S == {w \in Seq(Alphabet) : (w # <<>> => ~MidBreak(u, w[1])) => Both(w)}
<1>0. /\ Cut(u) \in [ended : Seq(Seq(Alphabet)), last : Seq(Alphabet)]
      /\ Cut(<<>>) = [ended |-> <<>>, last |-> <<>>]
  BY CutTyped, CutBegins
<1>1. <<>> \in S
  <2>1. u \o <<>> = u /\ Cut(u).ended \o <<>> = Cut(u).ended
    BY <1>0
  <2>2. Cut(u) = [ended |-> Cut(u).ended, last |-> <<>>]
    BY <1>0
  <2>3. QED
    BY <1>0, <2>1, <2>2
<1>2. ASSUME NEW w \in Seq(Alphabet), NEW b \in Alphabet, w \in S PROVE Append(w, b) \in S
  <2>1. SUFFICES ASSUME ~MidBreak(u, Append(w, b)[1]) PROVE Both(Append(w, b))
    <3>1. Append(w, b) \in Seq(Alphabet) /\ Append(w, b) # <<>>
      OBVIOUS
    <3> HIDE DEF Both
    <3>2. QED
      BY <2>1, <3>1
  <2>2. Both(w)
    <3>1. w # <<>> => w[1] = Append(w, b)[1]
      OBVIOUS
    <3>2. QED
      BY <1>2, <2>1, <3>1
  <2>3. u \o Append(w, b) = Append(u \o w, b) /\ u \o w \in Seq(Alphabet)
    OBVIOUS
  <2>4. MidBreak(u \o w, b) <=> MidBreak(w, b)
    <3>1. CASE w = <<>>
      <4>1. u \o w = u /\ Append(w, b)[1] = b
        BY <3>1
      <4>2. QED
        BY <2>1, <3>1, <4>1 DEF MidBreak
    <3>2. CASE w # <<>>
      <4>1. u \o w # <<>> /\ (u \o w)[Len(u \o w)] = w[Len(w)]
        BY <3>2
      <4>2. QED
        BY <3>2, <4>1 DEF MidBreak
    <3>3. QED
      BY <3>1, <3>2
  <2>5. Cut(w) \in [ended : Seq(Seq(Alphabet)), last : Seq(Alphabet)]
    BY CutTyped
  <2> DEFINE c == Cut(w)
             d == Cut(u).ended
  <2>6. d \in Seq(Seq(Alphabet)) /\ c.ended \in Seq(Seq(Alphabet)) /\ c.last \in Seq(Alphabet)
    BY <1>0, <2>5
  <2>7. Cut(u \o w) = [ended |-> d \o c.ended, last |-> c.last]
    BY <2>2
  <2> HIDE DEF c, d
  <2>8. d \o Append(c.ended, c.last) = Append(d \o c.ended, c.last)
    BY <2>6, SMTT(30)
  <2>9. /\ MidBreak(w, b) => Cut(Append(w, b)) = c
        /\ ~MidBreak(w, b) /\ b \in Breaks => Cut(Append(w, b)) = [ended |-> Append(c.ended, c.last), last |-> <<>>]
        /\ b \notin Breaks => Cut(Append(w, b)) = [ended |-> c.ended, last |-> Append(c.last, b)]
    BY CutCases DEF c
  <2>10. /\ MidBreak(w, b) => Cut(Append(u \o w, b)) = Cut(u \o w)
         /\ ~MidBreak(w, b) /\ b \in Breaks =>
               Cut(Append(u \o w, b)) = [ended |-> Append(d \o c.ended, c.last), last |-> <<>>]
         /\ b \notin Breaks => Cut(Append(u \o w, b)) = [ended |-> d \o c.ended, last |-> Append(c.last, b)]
    <3>1. LET k == Cut(u \o w) IN
          /\ MidBreak(u \o w, b) => Cut(Append(u \o w, b)) = k
          /\ ~MidBreak(u \o w, b) /\ b \in Breaks =>
                Cut(Append(u \o w, b)) = [ended |-> Append(k.ended, k.last), last |-> <<>>]
          /\ b \notin Breaks => Cut(Append(u \o w, b)) = [ended |-> k.ended, last |-> Append(k.last, b)]
      BY <2>3, CutCases
    <3>2. Cut(u \o w).ended = d \o c.ended /\ Cut(u \o w).last = c.last
      BY <2>7
    <3>3. QED
      BY <2>4, <3>1, <3>2
  <2>11. Cut(Append(u \o w, b)) = [ended |-> d \o Cut(Append(w, b)).ended, last |-> Cut(Append(w, b)).last]
    <3>1. CASE MidBreak(w, b)
      BY <3>1, <2>7, <2>9, <2>10
    <3>2. CASE ~MidBreak(w, b) /\ b \in Breaks
      <4>1. Cut(Append(w, b)).ended = Append(c.ended, c.last) /\ Cut(Append(w, b)).last = <<>>
        BY <3>2, <2>9
      <4>2. QED
        BY <3>2, <4>1, <2>8, <2>10
    <3>3. CASE b \notin Breaks
      <4>1. Cut(Append(w, b)).ended = c.ended /\ Cut(Append(w, b)).last = Append(c.last, b)
        BY <3>3, <2>9
      <4>2. QED
        BY <3>3, <4>1, <2>10
    <3>4. QED
      BY <3>1, <3>2, <3>3
  <2>12. QED
    BY <2>3, <2>11 DEF d
<1>3. v \in S
  <2> HIDE DEF S
  <2>1. QED
    BY <1>1, <1>2, EverySequence
<1>4. QED
  BY <1>3

\* A line break after bytes without one ends the line they make longer.
LEMMA CutLine ==
    ASSUME NEW u \in Seq(Alphabet), NEW w \in Seq(Alphabet), NoBreak(w), NEW b \in Alphabet \cap Breaks,
           w = <<>> => ~MidBreak(u, b)
    PROVE  /\ Append(u \o w, b) \in Seq(Alphabet)
           /\ Cut(Append(u \o w, b)) = [ended |-> Append(Cut(u).ended, Cut(u).last \o w), last |-> <<>>]
<1>1. u \o w \in Seq(Alphabet)
  OBVIOUS
<1>2. ~MidBreak(u \o w, b)
  <2>1. CASE w = <<>>
    <3>1. u \o w = u
      BY <2>1
    <3>2. QED
      BY <2>1, <3>1
  <2>2. CASE w # <<>>
    <3>1. (u \o w)[Len(u \o w)] = w[Len(w)] /\ Len(w) \in 1..Len(w)
      BY <2>2
    <3>2. QED
      BY <3>1 DEF MidBreak, NoBreak, Breaks
  <2>3. QED
    BY <2>1, <2>2
<1>3. Cut(u \o w).ended = Cut(u).ended /\ Cut(u \o w).last = Cut(u).last \o w
  BY CutOfPlain
<1>4. Cut(Append(u \o w, b)) = [ended |-> Append(Cut(u \o w).ended, Cut(u \o w).last), last |-> <<>>]
  BY <1>1, <1>2, CutCases
<1>5. Append(u \o w, b) \in Seq(Alphabet)
  BY <1>1
<1>6. QED
  BY <1>3, <1>4, <1>5

\* What begins with the mark.
LEMMA Marked ==
    ASSUME NEW s \in Seq(Alphabet)
    PROVE  IsPrefix(Bom, s) <=> Len(s) >= 2 /\ s[1] = "f" /\ s[2] = "u"
<1> DEFINE a == SubSeq(Bom, 1, 2)
           b == SubSeq(s, 1, 2)
           T == Alphabet \cup {"f", "u"}
<1>1. Bom \in Seq(T) /\ Len(Bom) = 2 /\ Bom[1] = "f" /\ Bom[2] = "u"
  BY DEF Bom
<1>2. IsPrefix(Bom, s) <=> Len(s) >= 2 /\ a = b
  BY <1>1 DEF IsPrefix
<1>3. a \in Seq(T) /\ Len(a) = 2 /\ a[1] = "f" /\ a[2] = "u"
  BY <1>1
<1>4. Len(s) >= 2 => b \in Seq(T) /\ Len(b) = 2 /\ b[1] = s[1] /\ b[2] = s[2]
  <2>1. s \in Seq(T)
    OBVIOUS
  <2>2. QED
    BY <2>1
<1> HIDE DEF a, b, T
<1>5. ASSUME Len(s) >= 2, s[1] = "f", s[2] = "u" PROVE a = b
  <2>1. \A i \in 1..Len(a) : a[i] = b[i]
    BY <1>3, <1>4, <1>5
  <2>2. QED
    BY <1>3, <1>4, <1>5, <2>1, SeqEqual
<1>6. QED
  BY <1>2, <1>3, <1>4, <1>5

\* Enough is there to tell whether the stream begins with the mark.
Settled(s) == s # <<>> /\ (s[1] # "f" \/ Len(s) >= 2)

\* A stream without its mark.
LEMMA StrippedIs ==
    ASSUME NEW s \in Seq(Alphabet)
    PROVE  /\ Stripped(s) \in Seq(Alphabet)
           /\ Len(s) < 2 \/ s[1] # "f" \/ s[2] # "u" => Stripped(s) = s
           /\ Len(s) >= 2 /\ s[1] = "f" /\ s[2] = "u" => Stripped(s) = SubSeq(s, 3, Len(s))
<1>1. SubSeq(s, 3, Len(s)) \in Seq(Alphabet)
  OBVIOUS
<1>2. QED
  BY <1>1, Marked DEF Stripped

\* What comes later does not make a mark of what is none.
LEMMA StrippedGrows ==
    ASSUME NEW s \in Seq(Alphabet), Settled(s), NEW v \in Seq(Alphabet)
    PROVE  Settled(s \o v) /\ Stripped(s \o v) = Stripped(s) \o v
<1>1. /\ s \o v \in Seq(Alphabet) /\ Len(s \o v) = Len(s) + Len(v) /\ Len(s) \in Nat /\ Len(v) \in Nat /\ Len(s) >= 1
      /\ (s \o v)[1] = s[1] /\ (Len(s) >= 2 => (s \o v)[2] = s[2]) /\ s \o v # <<>>
  BY DEF Settled
<1>2. Settled(s \o v)
  BY <1>1 DEF Settled
<1>3. CASE Len(s) >= 2 /\ s[1] = "f" /\ s[2] = "u"
  <2>1. SubSeq(s \o v, 3, Len(s \o v)) = SubSeq(s, 3, Len(s)) \o v
    BY <1>3
  <2>2. Len(s \o v) >= 2 /\ (s \o v)[1] = "f" /\ (s \o v)[2] = "u"
    BY <1>1, <1>3
  <2>4. Stripped(s \o v) = SubSeq(s \o v, 3, Len(s \o v)) /\ Stripped(s) = SubSeq(s, 3, Len(s))
    BY <1>1, <1>3, <2>2, StrippedIs
  <2>5. QED
    BY <1>2, <2>1, <2>4
<1>4. CASE ~(Len(s) >= 2 /\ s[1] = "f" /\ s[2] = "u")
  <2>1. Len(s) < 2 \/ s[1] # "f" \/ s[2] # "u"
    BY <1>1, <1>4
  <2>2. Len(s \o v) < 2 \/ (s \o v)[1] # "f" \/ (s \o v)[2] # "u"
    BY <1>1, <2>1 DEF Settled
  <2>3. Stripped(s \o v) = s \o v /\ Stripped(s) = s
    BY <1>1, <2>1, <2>2, StrippedIs
  <2>4. QED
    BY <1>2, <2>3
<1>5. QED
  BY <1>3, <1>4
-----------------------------------------------------------------------------
\* The types of an event, of the event in the making, and of the reader's parser.
Data == Seq(Alphabet \cup {"NL"})
Event == [type : Seq(Alphabet), data : Data]
Reading == [type : Seq(Alphabet), data : Data, has : BOOLEAN, state : {"open", "failed", "done"}]
Reader == [line : Seq(Alphabet), type : Seq(Alphabet), data : Data, has : BOOLEAN, bom : Seq(Alphabet),
           resolved : BOOLEAN, skip : BOOLEAN, state : {"open", "failed", "done"}]

\* What of the reader's parser says how far it read.
Core(p) == [type |-> p.type, data |-> p.data, has |-> p.has, state |-> p.state]

\* Joined data is data.
LEMMA JoinedTyped ==
    ASSUME NEW data \in Data, NEW has \in BOOLEAN, NEW value \in Seq(Alphabet)
    PROVE  Joined(data, has, value) \in Data
<1>1. value \in Data /\ <<"NL">> \in Data
  BY DEF Data
<1>2. data \o <<"NL">> \o value \in Data
  BY <1>1 DEF Data
<1>3. QED
  BY <1>1, <1>2 DEF Joined

\* The effect of a line on an event in the making.
LEMMA LineIsRead ==
    ASSUME NEW p \in Reading, NEW line \in Seq(Alphabet)
    PROVE  /\ ProcessLine(p, line) \in Reading
           /\ Dispatched(p, line) \in Seq(Event)
           /\ line # <<>> => Dispatched(p, line) = <<>>
           /\ p.state = "open" => ProcessLine(p, line).state \in {"open", "failed"}
           /\ line = <<>> /\ Utf8(p.data) => ProcessLine(p, line).state = p.state
           /\ line = <<>> /\ ~Utf8(p.data) => ProcessLine(p, line).state = "failed" /\ Dispatched(p, line) = <<>>
           /\ Len(p.data) <= DataCap => Len(ProcessLine(p, line).data) <= DataCap
<1>1. line # <<>> => Tail(line) \in Seq(Alphabet)
  OBVIOUS
<1>2. line # <<>> => Joined(p.data, p.has, Tail(line)) \in Data
  BY <1>1, JoinedTyped DEF Reading
<1>3. <<>> \in Seq(Alphabet) /\ <<>> \in Data /\ Len(<<>>) = 0 /\ DataCap \in Nat
  BY StreamAssumption DEF Data
<1>4. CASE line = <<>>
  <2> DEFINE r == ProcessLine(p, line)
  <2>1. /\ Utf8(p.data) => r = [p EXCEPT !.type = <<>>, !.data = <<>>, !.has = FALSE, !.state = p.state]
        /\ ~Utf8(p.data) => r = [p EXCEPT !.type = <<>>, !.data = <<>>, !.has = FALSE, !.state = "failed"]
    BY <1>4 DEF ProcessLine
  <2>2. Dispatched(p, line) \in Seq(Event) /\ (~Utf8(p.data) => Dispatched(p, line) = <<>>)
    <3>1. [type |-> p.type, data |-> p.data] \in Event
      BY DEF Event, Reading
    <3>2. <<[type |-> p.type, data |-> p.data]>> \in Seq(Event) /\ <<>> \in Seq(Event)
      BY <3>1
    <3>3. QED
      BY <3>2 DEF Dispatched
  <2> HIDE DEF r
  <2>3. /\ r \in Reading /\ r.data = <<>>
        /\ Utf8(p.data) => r.state = p.state
        /\ ~Utf8(p.data) => r.state = "failed"
    <3>1. CASE Utf8(p.data)
      BY <1>3, <2>1, <3>1 DEF Reading
    <3>2. CASE ~Utf8(p.data)
      BY <1>3, <2>1, <3>2 DEF Reading
    <3>3. QED
      BY <3>1, <3>2
  <2>4. p.state = "open" => r.state \in {"open", "failed"}
    BY <2>3
  <2>5. Len(r.data) <= DataCap
    BY <1>3, <2>3
  <2>6. QED
    BY <1>4, <2>2, <2>3, <2>4, <2>5 DEF r
<1>5. CASE line # <<>>
  <2> DEFINE j == Joined(p.data, p.has, Tail(line))
             r == ProcessLine(p, line)
  <2>1. \/ r = [p EXCEPT !.type = Tail(line)]
        \/ r = p
        \/ r = [p EXCEPT !.state = "failed"]
        \/ ~(Len(j) > DataCap) /\ r = [p EXCEPT !.data = j, !.has = TRUE]
    BY <1>5 DEF ProcessLine
  <2>2. Dispatched(p, line) = <<>>
    BY <1>5 DEF Dispatched
  <2>3. j \in Data /\ Len(j) \in Nat
    BY <1>2, <1>5 DEF Data
  <2> HIDE DEF j, r
  <2>4. r \in Reading /\ (p.state = "open" => r.state \in {"open", "failed"})
    BY <1>1, <1>5, <2>1, <2>3 DEF Reading
  <2>5. Len(p.data) <= DataCap => Len(r.data) <= DataCap
    <3>1. r.data = p.data \/ (r.data = j /\ ~(Len(j) > DataCap))
      BY <2>1 DEF Reading
    <3>2. QED
      BY <1>3, <2>3, <3>1
  <2>6. QED
    BY <1>5, <2>2, <2>4, <2>5 DEF r
<1>6. QED
  BY <1>4, <1>5

\* Readings that agree in every part are the same.
LEMMA SameReading ==
    ASSUME NEW a \in Reading, NEW b \in Reading,
           a.type = b.type, a.data = b.data, a.has = b.has, a.state = b.state
    PROVE  a = b
BY DEF Reading

\* ... is that on the reader's parser, which keeps the rest.
LEMMA LineIsProcessed ==
    ASSUME NEW q \in Reader, NEW line \in Seq(Alphabet)
    PROVE  /\ ProcessLine(q, line) \in Reader /\ Core(q) \in Reading
           /\ Core(ProcessLine(q, line)) = ProcessLine(Core(q), line)
           /\ Dispatched(q, line) = Dispatched(Core(q), line)
           /\ ProcessLine(q, line).line = q.line /\ ProcessLine(q, line).bom = q.bom
           /\ ProcessLine(q, line).resolved = q.resolved /\ ProcessLine(q, line).skip = q.skip
<1>1. line # <<>> => Tail(line) \in Seq(Alphabet)
  OBVIOUS
<1>2. line # <<>> => Joined(q.data, q.has, Tail(line)) \in Data
  BY <1>1, JoinedTyped DEF Reader
<1>3. <<>> \in Seq(Alphabet) /\ <<>> \in Data
  BY DEF Data
<1>4. Core(q) \in Reading /\ Dispatched(q, line) = Dispatched(Core(q), line)
  BY DEF Core, Reading, Reader, Dispatched
<1> DEFINE j == Joined(q.data, q.has, Tail(line))
<1>5. Core(q).data = q.data /\ Core(q).has = q.has
  BY DEF Core
<1> DEFINE r == ProcessLine(q, line)
           x == ProcessLine(Core(q), line)
           c == Core(q)
<1>p. /\ c \in Reading /\ c.type = q.type /\ c.data = q.data /\ c.has = q.has /\ c.state = q.state
      /\ x \in Reading
  BY <1>4, LineIsRead DEF Core
<1>q. \A y \in Reader : y.line \in Seq(Alphabet) /\ Core(y) \in Reading /\ Core(y).type = y.type /\ Core(y).data = y.data
                         /\ Core(y).has = y.has /\ Core(y).state = y.state
  BY DEF Core, Reading, Reader
<1> DEFINE Same == /\ r \in Reader /\ x.type = r.type /\ x.data = r.data /\ x.has = r.has /\ x.state = r.state
                   /\ r.line = q.line /\ r.bom = q.bom /\ r.resolved = q.resolved /\ r.skip = q.skip
<1>6. ASSUME line = <<>> PROVE Same
  <2>1. PICK st : st = IF Utf8(q.data) THEN q.state ELSE "failed"
    OBVIOUS
  <2>2. r = [q EXCEPT !.type = <<>>, !.data = <<>>, !.has = FALSE, !.state = st]
    BY <1>6, <2>1 DEF ProcessLine
  <2>3. x = [c EXCEPT !.type = <<>>, !.data = <<>>, !.has = FALSE, !.state = IF Utf8(c.data) THEN c.state ELSE "failed"]
    BY <1>6 DEF ProcessLine
  <2> HIDE DEF r, x, c
  <2>4. x = [c EXCEPT !.type = <<>>, !.data = <<>>, !.has = FALSE, !.state = st]
    BY <1>p, <2>1, <2>3
  <2>5. st \in {"open", "failed", "done"}
    BY <2>1 DEF Reader
  <2>6. QED
    BY <1>3, <1>p, <2>2, <2>4, <2>5 DEF Reader, Reading
<1>7. ASSUME line # <<>> /\ Head(line) = "e" PROVE Same
  <2>1. /\ Utf8(Tail(line)) => r = [q EXCEPT !.type = Tail(line)] /\ x = [c EXCEPT !.type = Tail(line)]
        /\ ~Utf8(Tail(line)) => r = [q EXCEPT !.state = "failed"] /\ x = [c EXCEPT !.state = "failed"]
    BY <1>7 DEF ProcessLine
  <2> HIDE DEF r, x, c
  <2>2. CASE Utf8(Tail(line))
    BY <1>1, <1>p, <1>7, <2>1, <2>2 DEF Reader, Reading
  <2>3. CASE ~Utf8(Tail(line))
    BY <1>1, <1>p, <1>7, <2>1, <2>3 DEF Reader, Reading
  <2>4. QED
    BY <2>2, <2>3
<1>8. ASSUME line # <<>> /\ Head(line) # "e" /\ Head(line) # "d" PROVE Same
  <2>1. r = q /\ x = c
    BY <1>8 DEF ProcessLine
  <2> HIDE DEF r, x, c
  <2>2. QED
    BY <1>p, <2>1
<1>9. ASSUME line # <<>> /\ Head(line) = "d" /\ Len(j) > DataCap PROVE Same
  <2>1. r = [q EXCEPT !.state = "failed"] /\ x = [c EXCEPT !.state = "failed"]
    BY <1>5, <1>9 DEF ProcessLine
  <2> HIDE DEF r, x, c, j
  <2>2. QED
    BY <1>p, <2>1 DEF Reader, Reading
<1>10. ASSUME line # <<>> /\ Head(line) = "d" /\ ~(Len(j) > DataCap) PROVE Same
  <2>1. r = [q EXCEPT !.data = j, !.has = TRUE] /\ x = [c EXCEPT !.data = j, !.has = TRUE]
    BY <1>5, <1>10 DEF ProcessLine
  <2>2. j \in Data
    BY <1>2, <1>10
  <2> HIDE DEF r, x, c, j
  <2>3. QED
    BY <1>p, <2>1, <2>2 DEF Reader, Reading
<1>11. Same
  <2> HIDE DEF Same
  <2>1. QED
    BY <1>6, <1>7, <1>8, <1>9, <1>10
<1>12. Core(r) = x
  <2> HIDE DEF r, x, c
  <2>1. QED
    BY <1>p, <1>q, <1>11, SameReading
<1>13. QED
  BY <1>4, <1>11, <1>12

\* What reading lines gives: the event in the making, and those that were made.
Readings == [p : Reading, out : Seq(Event)]

\* A line fails the reading if it is too long, or is processed.
LEMMA LineKinds ==
    ASSUME NEW acc \in Readings, NEW line \in Seq(Alphabet)
    PROVE  /\ ReadLine(acc, line) \in Readings
           /\ acc.p.state = "failed" \/ Len(line) > LineCap =>
                 ReadLine(acc, line).p.state = "failed" /\ ReadLine(acc, line).out = acc.out
           /\ ~(acc.p.state = "failed" \/ Len(line) > LineCap) =>
                 ReadLine(acc, line) = [p |-> ProcessLine(acc.p, line), out |-> acc.out \o Dispatched(acc.p, line)]
<1>0. acc.p \in Reading /\ acc.out \in Seq(Event)
  BY DEF Readings
<1>1. ASSUME acc.p.state = "failed" \/ Len(line) > LineCap
      PROVE  /\ ReadLine(acc, line) \in Readings
             /\ ReadLine(acc, line).p.state = "failed" /\ ReadLine(acc, line).out = acc.out
  <2>1. ReadLine(acc, line) = [acc EXCEPT !.p.state = "failed"]
    BY <1>1 DEF ReadLine
  <2>2. [acc EXCEPT !.p.state = "failed"] = [acc EXCEPT !.p = [acc.p EXCEPT !.state = "failed"]]
    BY <1>0 DEF Readings, Reading
  <2>3. [acc.p EXCEPT !.state = "failed"] \in Reading /\ [acc.p EXCEPT !.state = "failed"].state = "failed"
    BY <1>0 DEF Reading
  <2>4. QED
    BY <2>1, <2>2, <2>3 DEF Readings
<1>2. ASSUME ~(acc.p.state = "failed" \/ Len(line) > LineCap)
      PROVE  /\ ReadLine(acc, line) \in Readings
             /\ ReadLine(acc, line) = [p |-> ProcessLine(acc.p, line), out |-> acc.out \o Dispatched(acc.p, line)]
  <2>1. ReadLine(acc, line) = [p |-> ProcessLine(acc.p, line), out |-> acc.out \o Dispatched(acc.p, line)]
    BY <1>2 DEF ReadLine
  <2>2. ProcessLine(acc.p, line) \in Reading /\ Dispatched(acc.p, line) \in Seq(Event)
    BY <1>0, LineIsRead
  <2>3. acc.out \o Dispatched(acc.p, line) \in Seq(Event)
    BY <1>0, <2>2
  <2>4. QED
    BY <2>1, <2>2, <2>3 DEF Readings
<1>3. QED
  BY <1>1, <1>2

\* Reading lines leaves an event in the making or a failure.
LEMMA ReadLinesTyped ==
    ASSUME NEW ls \in Seq(Seq(Alphabet))
    PROVE  ReadLines(ls) \in Readings /\ ReadLines(ls).p.state \in {"open", "failed"}
<1> DEFINE Ok(m) == ReadLines(m) \in Readings /\ ReadLines(m).p.state \in {"open", "failed"}
           S == {m \in Seq(Seq(Alphabet)) : Ok(m)}
<1>1. <<>> \in S
  <2>1. <<>> \in Seq(Seq(Alphabet)) /\ <<>> \in Seq(Event) /\ <<>> \in Seq(Alphabet) /\ <<>> \in Data
    BY DEF Data
  <2>2. Unread \in Readings /\ Unread.p.state = "open"
    BY <2>1 DEF Unread, Readings, Reading
  <2>3. QED
    BY <2>1, <2>2, ReadLinesBegins
<1>2. ASSUME NEW m \in Seq(Seq(Alphabet)), NEW b \in Seq(Alphabet), m \in S PROVE Append(m, b) \in S
  <2>1. ReadLines(Append(m, b)) = ReadLine(ReadLines(m), b)
    BY ReadLinesGrows
  <2>2. Append(m, b) \in Seq(Seq(Alphabet))
    OBVIOUS
  <2>3. ReadLines(m) \in Readings /\ ReadLines(m).p.state \in {"open", "failed"} /\ ReadLines(m).p \in Reading
    BY <1>2 DEF Readings
  <2> DEFINE a == ReadLines(m)
  <2>4. ReadLine(a, b) \in Readings /\ ReadLine(a, b).p.state \in {"open", "failed"}
    <3>1. CASE a.p.state = "failed" \/ Len(b) > LineCap
      <4> HIDE DEF a
      <4>1. QED
        BY <2>3, <3>1, LineKinds DEF a
    <3>2. CASE ~(a.p.state = "failed" \/ Len(b) > LineCap)
      <4>1. ReadLine(a, b) = [p |-> ProcessLine(a.p, b), out |-> a.out \o Dispatched(a.p, b)] /\ ReadLine(a, b) \in Readings
        BY <2>3, <3>2, LineKinds
      <4>2. ProcessLine(a.p, b).state \in {"open", "failed"}
        BY <2>3, <3>2, LineIsRead
      <4> HIDE DEF a
      <4>3. QED
        BY <4>1, <4>2
    <3>3. QED
      BY <3>1, <3>2
  <2> HIDE DEF a
  <2>5. Ok(Append(m, b))
    BY <2>1, <2>4 DEF a
  <2>6. QED
    BY <2>2, <2>5
<1>3. ls \in S
  <2> HIDE DEF S
  <2>1. QED
    BY <1>1, <1>2, EverySequence
<1>4. QED
  BY <1>3

\* What is read of the lines of t that are ended.
ReadOf(t) == ReadLines(Cut(t).ended)

\* ... and so does reading the lines of a stream.
LEMMA ReadOfTyped ==
    ASSUME NEW t \in Seq(Alphabet)
    PROVE  /\ ReadOf(t) \in Readings /\ ReadOf(t).p.state \in {"open", "failed"}
           /\ Cut(t) \in [ended : Seq(Seq(Alphabet)), last : Seq(Alphabet)]
           /\ Cut(t).ended \in Seq(Seq(Alphabet)) /\ Cut(t).last \in Seq(Alphabet)
<1>1. Cut(t) \in [ended : Seq(Seq(Alphabet)), last : Seq(Alphabet)]
  BY CutTyped
<1>2. Cut(t).ended \in Seq(Seq(Alphabet)) /\ Cut(t).last \in Seq(Alphabet)
  BY <1>1
<1>3. QED
  BY <1>1, <1>2, ReadLinesTyped DEF ReadOf

\* A line that is too long, or an event that holds too much, and all of r was made before.
Dead(t, r) ==
    /\ ReadOf(t).out = r
    /\ ReadOf(t).p.state = "failed" \/ Len(Cut(t).last) > LineCap

\* No byte brings a failed reading back.
LEMMA DeadGrows ==
    ASSUME NEW t \in Seq(Alphabet), NEW r, Dead(t, r), NEW v \in Seq(Alphabet)
    PROVE  Dead(t \o v, r)
<1> DEFINE S == {u \in Seq(Alphabet) : Dead(t \o u, r)}
<1>1. <<>> \in S
  <2>1. t \o <<>> = t /\ <<>> \in Seq(Alphabet)
    OBVIOUS
  <2>2. QED
    BY <2>1
<1>2. ASSUME NEW u \in Seq(Alphabet), NEW b \in Alphabet, u \in S PROVE Append(u, b) \in S
  <2> DEFINE x == t \o u
             c == Cut(x)
             a == ReadOf(x)
  <2>1. x \in Seq(Alphabet) /\ t \o Append(u, b) = Append(x, b) /\ Append(u, b) \in Seq(Alphabet)
    OBVIOUS
  <2>2. Dead(x, r)
    BY <1>2
  <2> HIDE DEF x
  <2>3. /\ MidBreak(x, b) => Cut(Append(x, b)) = c
        /\ ~MidBreak(x, b) /\ b \in Breaks => Cut(Append(x, b)) = [ended |-> Append(c.ended, c.last), last |-> <<>>]
        /\ b \notin Breaks => Cut(Append(x, b)) = [ended |-> c.ended, last |-> Append(c.last, b)]
    BY <2>1, CutCases
  <2>4. c.ended \in Seq(Seq(Alphabet)) /\ c.last \in Seq(Alphabet) /\ a \in Readings /\ a = ReadLines(c.ended)
    BY <2>1, ReadOfTyped DEF ReadOf
  <2>5. a.out = r /\ (a.p.state = "failed" \/ Len(c.last) > LineCap)
    BY <2>2 DEF Dead
  <2> HIDE DEF c, a
  <2>6. Dead(Append(x, b), r)
    <3>1. CASE MidBreak(x, b)
      BY <2>2, <2>3, <3>1 DEF Dead, ReadOf, c
    <3>2. CASE ~MidBreak(x, b) /\ b \in Breaks
      <4>1. ReadOf(Append(x, b)) = ReadLines(Append(c.ended, c.last))
        <5>1. Cut(Append(x, b)).ended = Append(c.ended, c.last)
          BY <2>3, <3>2
        <5>2. QED
          BY <5>1 DEF ReadOf
      <4>2. ReadLines(Append(c.ended, c.last)) = ReadLine(a, c.last)
        BY <2>4, ReadLinesGrows
      <4>3. ReadLine(a, c.last).p.state = "failed" /\ ReadLine(a, c.last).out = r
        BY <2>4, <2>5, LineKinds
      <4>4. QED
        BY <4>1, <4>2, <4>3 DEF Dead
    <3>3. CASE b \notin Breaks
      <4>1. Cut(Append(x, b)).ended = c.ended /\ Cut(Append(x, b)).last = Append(c.last, b)
        BY <2>3, <3>3
      <4>2. ReadOf(Append(x, b)) = a
        BY <2>4, <4>1 DEF ReadOf
      <4>3. Len(c.last) > LineCap => Len(Append(c.last, b)) > LineCap
        BY <2>4, StreamAssumption
      <4>4. QED
        BY <2>5, <4>1, <4>2, <4>3 DEF Dead
    <3>4. QED
      BY <3>1, <3>2, <3>3
  <2>7. QED
    BY <2>1, <2>6
<1>3. v \in S
  <2> HIDE DEF S
  <2>1. QED
    BY <1>1, <1>2, EverySequence
<1>4. QED
  BY <1>3

\* A whole stream, from what is read of its ended lines.
LEMMA WholeIs ==
    ASSUME NEW s \in Seq(Alphabet)
    PROVE  LET t == Stripped(s) IN
           /\ Cut(t).last = <<>> => Whole(s) = ReadLine(ReadOf(t), <<>>)
           /\ Cut(t).last # <<>> => Whole(s) = ReadLine(ReadLine(ReadOf(t), Cut(t).last), <<>>)
<1> DEFINE t == Stripped(s)
           e == Cut(t).ended
           l == Cut(t).last
<1>1. t \in Seq(Alphabet) /\ e \in Seq(Seq(Alphabet)) /\ l \in Seq(Alphabet) /\ ReadOf(t) = ReadLines(e)
  BY StrippedIs, ReadOfTyped DEF ReadOf
<1>2. Lines(t) = Append(e, l)
  BY DEF Lines
<1> HIDE DEF e, l
<1>3. Last(Append(e, l)) = l /\ Append(e, l) \in Seq(Seq(Alphabet)) /\ <<>> \in Seq(Alphabet)
  BY <1>1 DEF Last
<1>4. Whole(s) = ReadLines(IF l = <<>> THEN Append(e, l) ELSE Append(Append(e, l), <<>>))
  BY <1>2, <1>3 DEF Whole
<1>5. ReadLines(Append(e, l)) = ReadLine(ReadLines(e), l)
  BY <1>1, ReadLinesGrows
<1>6. ReadLines(Append(Append(e, l), <<>>)) = ReadLine(ReadLines(Append(e, l)), <<>>)
  BY <1>3, ReadLinesGrows
<1>7. QED
  BY <1>1, <1>4, <1>5, <1>6 DEF e, l

\* A reading that failed early is the failure of the whole.
LEMMA DeadFails ==
    ASSUME NEW s \in Seq(Alphabet), NEW r, Dead(Stripped(s), r)
    PROVE  Whole(s).p.state = "failed" /\ Whole(s).out = r
<1> DEFINE t == Stripped(s)
           a == ReadOf(t)
           l == Cut(t).last
<1>1. a \in Readings /\ l \in Seq(Alphabet) /\ <<>> \in Seq(Alphabet)
  BY StrippedIs, ReadOfTyped
<1>2. a.out = r /\ (a.p.state = "failed" \/ Len(l) > LineCap)
  BY DEF Dead
<1>3. l = <<>> => Whole(s) = ReadLine(a, <<>>)
  BY WholeIs
<1>4. l # <<>> => Whole(s) = ReadLine(ReadLine(a, l), <<>>)
  BY WholeIs
<1> HIDE DEF a, l
<1>5. CASE l = <<>>
  <2>1. a.p.state = "failed"
    BY <1>2, <1>5, StreamAssumption
  <2>2. ReadLine(a, <<>>).p.state = "failed" /\ ReadLine(a, <<>>).out = r
    BY <1>1, <1>2, <2>1, LineKinds
  <2>3. QED
    BY <1>3, <1>5, <2>2
<1>6. CASE l # <<>>
  <2> DEFINE b == ReadLine(a, l)
  <2>1. b \in Readings /\ b.p.state = "failed" /\ b.out = r
    BY <1>1, <1>2, LineKinds
  <2> HIDE DEF b
  <2>2. ReadLine(b, <<>>).p.state = "failed" /\ ReadLine(b, <<>>).out = r
    BY <1>1, <2>1, LineKinds
  <2>3. QED
    BY <1>4, <1>6, <2>2 DEF b
<1>7. QED
  BY <1>5, <1>6
-----------------------------------------------------------------------------
\* How far the reader is: seen is what it has looked at, and nothing of its line is lost.
Position(seen) ==
    /\ seen \in Seq(Alphabet) /\ sent = seen \o chunk
    /\ ReadOf(Stripped(seen)) = [p |-> Core(parser), out |-> read]
    /\ Cut(Stripped(seen)).last = parser.bom \o parser.line
    /\ parser.resolved =>
          /\ Settled(seen) /\ parser.bom = <<>>
          /\ parser.skip = (Stripped(seen) # <<>> /\ Stripped(seen)[Len(Stripped(seen))] = "CR")
    /\ ~parser.resolved =>
          seen = parser.bom /\ seen \in {<<>>, <<"f">>} /\ parser.line = <<>> /\ ~parser.skip

\* The reader's variables, and the limits of what it keeps.
ReaderTyped ==
    /\ sent \in Seq(Alphabet) /\ chunk \in Seq(Alphabet) /\ over \in BOOLEAN
    /\ parser \in Reader /\ Len(parser.line) <= LineCap /\ Len(parser.data) <= DataCap

\* While it reads, the reader is somewhere in the stream; once it failed, what was sent is
\* enough to fail whatever follows; and it is done with the whole.
ReaderInv ==
    /\ ReaderTyped
    /\ parser.state = "open" => \E seen : Position(seen)
    /\ parser.state = "failed" =>
          \/ Settled(sent) /\ Dead(Stripped(sent), read)
          \/ over /\ Whole(sent).p.state = "failed" /\ Whole(sent).out = read
    /\ parser.state = "done" => over /\ Whole(sent).p.state = "open" /\ Whole(sent).out = read

\* Nothing is seen at first.
LEMMA ReaderBegins == StreamInit => ReaderInv
<1> SUFFICES ASSUME StreamInit PROVE ReaderInv
  OBVIOUS
<1>1. <<>> \in Seq(Alphabet) /\ <<>> \in Data /\ Len(<<>>) = 0 /\ <<>> \o <<>> = <<>> /\ LineCap \in Nat /\ DataCap \in Nat
  BY StreamAssumption DEF Data
<1>2. ReaderTyped /\ parser.state = "open"
  <2>1. [line |-> <<>>, type |-> <<>>, data |-> <<>>, has |-> FALSE, bom |-> <<>>, resolved |-> FALSE,
         skip |-> FALSE, state |-> "open"] \in Reader
    BY <1>1 DEF Reader
  <2>2. parser \in Reader /\ parser.line = <<>> /\ parser.data = <<>> /\ parser.state = "open"
    BY <2>1 DEF StreamInit
  <2>3. 0 <= LineCap /\ 0 <= DataCap
    BY <1>1
  <2>4. sent \in Seq(Alphabet) /\ chunk \in Seq(Alphabet) /\ over \in BOOLEAN
    BY <1>1 DEF StreamInit
  <2>5. QED
    BY <1>1, <2>2, <2>3, <2>4 DEF ReaderTyped
<1>3. Stripped(<<>>) = <<>>
  <2>1. 0 < 2
    OBVIOUS
  <2>2. Len(<<>>) < 2
    BY <1>1, <2>1
  <2>3. QED
    BY <1>1, <2>2, StrippedIs, Zenon
<1>4. ReadOf(<<>>) = Unread /\ Cut(<<>>).last = <<>>
  BY CutBegins, ReadLinesBegins DEF ReadOf
<1>5. Unread = [p |-> Core(parser), out |-> read]
  BY DEF StreamInit, Unread, Core
<1>6. Position(<<>>)
  BY <1>1, <1>3, <1>4, <1>5 DEF Position, StreamInit
<1>7. QED
  BY <1>2, <1>6 DEF ReaderInv

\* A stop of the reader: what it has seen is cut, and what it has is what that says.
LEMMA TakeLineKeeps ==
    ASSUME ReaderTyped, sent' = sent, over' = over,
           NEW q \in Reader, q.resolved, q.bom = <<>>, q.state = "open", Len(q.data) <= DataCap,
           NEW line \in Seq(Alphabet), Len(line) <= LineCap, NEW rest \in Seq(Alphabet),
           TakeLine(q, line, rest), read \in Seq(Event),
           NEW seen \in Seq(Alphabet), sent = seen \o rest, Settled(seen),
           q.skip = (Stripped(seen) # <<>> /\ Stripped(seen)[Len(Stripped(seen))] = "CR"),
           Cut(Stripped(seen)).last = <<>>,
           ReadOf(Stripped(seen)) = ReadLine([p |-> Core(q), out |-> read], line)
    PROVE  ReaderInv'
<1> DEFINE t == Stripped(seen)
           p1 == [q EXCEPT !.line = <<>>]
           r == ProcessLine(p1, line)
           c == Core(q)
<1>1. <<>> \in Seq(Alphabet) /\ Len(<<>>) = 0 /\ LineCap \in Nat
  BY StreamAssumption
<1>2. /\ p1 \in Reader /\ p1.line = <<>> /\ p1.bom = <<>> /\ p1.resolved /\ p1.skip = q.skip /\ p1.state = "open"
      /\ p1.data = q.data /\ p1.type = q.type /\ p1.has = q.has
  BY <1>1 DEF Reader
<1>3. Core(p1) = c /\ c.state = "open" /\ c.data = q.data
  BY <1>2 DEF Core
<1> HIDE DEF p1, c
<1>4. /\ r \in Reader /\ c \in Reading /\ Core(r) = ProcessLine(c, line) /\ Dispatched(p1, line) = Dispatched(c, line)
      /\ r.line = <<>> /\ r.bom = <<>> /\ r.resolved /\ r.skip = q.skip
  BY <1>2, <1>3, LineIsProcessed
<1>5. /\ ProcessLine(c, line).state \in {"open", "failed"} /\ Len(ProcessLine(c, line).data) <= DataCap
      /\ line # <<>> => Dispatched(c, line) = <<>>
  BY <1>3, <1>4, LineIsRead
<1>6. parser' = r /\ read' = read \o Dispatched(c, line) /\ chunk' = rest
  <2>1. parser' = r /\ read' = read \o Dispatched(p1, line) /\ chunk' = rest
    <3>1. Dispatched(q, line) = Dispatched(p1, line)
      BY <1>2 DEF Dispatched
    <3>2. QED
      BY <3>1, Zenon DEF TakeLine, p1
  <2>2. QED
    BY <1>4, <2>1
<1> HIDE DEF r
<1>7. r.state = Core(r).state /\ r.data = Core(r).data
  BY DEF Core
<1>8. ReaderTyped'
  BY <1>1, <1>4, <1>5, <1>6, <1>7 DEF ReaderTyped
<1>9. ReadOf(t) = [p |-> Core(r), out |-> read']
  <2>1. [p |-> c, out |-> read] \in Readings
    BY <1>4 DEF Readings
  <2>2. [p |-> c, out |-> read].p = c /\ [p |-> c, out |-> read].out = read
    OBVIOUS
  <2>3. ~(c.state = "failed" \/ Len(line) > LineCap)
    BY <1>1, <1>3
  <2> DEFINE a == [p |-> c, out |-> read]
  <2>4. ReadLine(a, line) = [p |-> ProcessLine(c, line), out |-> read \o Dispatched(c, line)]
    <3> HIDE DEF a
    <3>1. a.p = c /\ a.out = read /\ a \in Readings
      BY <2>1, <2>2 DEF a
    <3>2. ReadLine(a, line) = [p |-> ProcessLine(a.p, line), out |-> a.out \o Dispatched(a.p, line)]
      BY <2>3, <3>1, LineKinds
    <3>3. QED
      BY <3>1, <3>2
  <2>5. QED
    BY <2>4, <1>4, <1>6 DEF c
<1>10. r.state \in {"open", "failed"}
  BY <1>4, <1>5, <1>7
<1>11. CASE r.state = "open"
  <2>1. <<>> \o <<>> = <<>>
    OBVIOUS
  <2>2. Position(seen)'
    BY <1>4, <1>6, <1>9, <2>1 DEF Position
  <2>3. QED
    BY <1>6, <1>8, <1>11, <2>2 DEF ReaderInv
<1>12. CASE r.state = "failed"
  <2>1. Dead(t, read')
    <3>1. ReadOf(t).p = Core(r) /\ ReadOf(t).out = read'
      BY <1>9
    <3>2. QED
      BY <1>7, <1>12, <3>1 DEF Dead
  <2>2. Settled(sent) /\ Stripped(sent) = t \o rest
    BY StrippedGrows
  <2>3. t \in Seq(Alphabet)
    BY StrippedIs
  <2>4. Dead(Stripped(sent), read')
    BY <2>1, <2>2, <2>3, DeadGrows
  <2>5. QED
    BY <1>6, <1>8, <1>12, <2>2, <2>4 DEF ReaderInv
<1>13. QED
  BY <1>10, <1>11, <1>12

\* A line that is too long fails the reader.
LEMMA TooLong ==
    ASSUME ReaderTyped', sent' = sent, read' = read, parser'.state = "failed",
           NEW seen \in Seq(Alphabet), NEW rest \in Seq(Alphabet), sent = seen \o rest, Settled(seen),
           ReadOf(Stripped(seen)).out = read, Len(Cut(Stripped(seen)).last) > LineCap
    PROVE  ReaderInv'
<1>1. Dead(Stripped(seen), read)
  BY DEF Dead
<1>2. Settled(sent) /\ Stripped(sent) = Stripped(seen) \o rest /\ Stripped(seen) \in Seq(Alphabet)
  BY StrippedGrows, StrippedIs
<1>3. Dead(Stripped(sent), read)
  BY <1>1, <1>2, DeadGrows
<1>4. QED
  BY <1>2, <1>3 DEF ReaderInv

\* Whatever is sent next, and the end, change nothing of what the reader has.
LEMMA ChunkKeeps ==
    ASSUME ReaderInv, NEW n \in 1..StreamCap, NEW w \in [1..n -> Alphabet], Chunk(w)
    PROVE  ReaderInv'
<1>1. w \in Seq(Alphabet)
  BY StreamAssumption
<1>2. /\ sent' = sent \o w /\ over' = over /\ parser' = parser /\ read' = read /\ ~over
      /\ chunk' = (IF parser.state = "open" THEN w ELSE <<>>) /\ ~Parsing
  BY DEF Chunk
<1>3. ReaderTyped'
  BY <1>1, <1>2 DEF ReaderInv, ReaderTyped
<1>4. CASE parser.state = "open"
  <2>1. PICK seen : Position(seen)
    BY <1>4 DEF ReaderInv
  <2>2. chunk = <<>> /\ chunk' = w
    BY <1>2, <1>4 DEF Parsing
  <2>3. seen = sent
    BY <2>1, <2>2 DEF Position
  <2>4. Position(seen)'
    BY <1>2, <2>1, <2>2, <2>3 DEF Position
  <2>5. QED
    BY <1>2, <1>3, <1>4, <2>4 DEF ReaderInv
<1>5. CASE parser.state = "failed"
  <2>1. Settled(sent) /\ Dead(Stripped(sent), read) /\ sent \in Seq(Alphabet)
    BY <1>2, <1>5 DEF ReaderInv, ReaderTyped
  <2>2. Settled(sent') /\ Stripped(sent') = Stripped(sent) \o w /\ Stripped(sent) \in Seq(Alphabet)
    BY <1>1, <1>2, <2>1, StrippedGrows, StrippedIs
  <2>3. Dead(Stripped(sent'), read')
    BY <1>1, <1>2, <2>1, <2>2, DeadGrows
  <2>4. QED
    BY <1>2, <1>3, <1>5, <2>2, <2>3 DEF ReaderInv
<1>6. QED
  BY <1>2, <1>4, <1>5 DEF ReaderInv, ReaderTyped, Reader

\* (next_event is not called between the last chunk and the end.)
LEMMA EndKeeps == ReaderInv /\ StreamEnds => ReaderInv'
<1> SUFFICES ASSUME ReaderInv, StreamEnds PROVE ReaderInv'
  OBVIOUS
<1>1. over' = TRUE /\ UNCHANGED <<sent, chunk, parser, read>>
  BY DEF StreamEnds
<1>2. ReaderTyped'
  BY <1>1 DEF ReaderInv, ReaderTyped
<1>3. ASSUME NEW seen, Position(seen) PROVE Position(seen)'
  BY <1>1, <1>3 DEF Position
<1>4. QED
  BY <1>1, <1>2, <1>3 DEF ReaderInv

\* The LF that is skipped does not change the cut of what is seen.
LEMMA SkipLfKeeps == ReaderInv /\ SkipLf => ReaderInv'
<1> SUFFICES ASSUME ReaderInv, SkipLf PROVE ReaderInv'
  OBVIOUS
<1>1. /\ chunk # <<>> /\ parser.state = "open" /\ parser.resolved /\ parser.skip /\ Head(chunk) = "LF"
      /\ parser' = [parser EXCEPT !.skip = FALSE] /\ chunk' = Tail(chunk)
      /\ UNCHANGED <<sent, over, read>>
  BY DEF SkipLf
<1>2. PICK seen : Position(seen)
  BY <1>1 DEF ReaderInv
<1> DEFINE t == Stripped(seen)
           b == Head(chunk)
<1>3. /\ seen \in Seq(Alphabet) /\ t \in Seq(Alphabet) /\ b \in Alphabet /\ Tail(chunk) \in Seq(Alphabet)
      /\ chunk \in Seq(Alphabet) /\ <<b>> \in Seq(Alphabet)
  BY <1>1, <1>2, StrippedIs DEF Position, ReaderInv, ReaderTyped
<1>4. Append(seen, b) \in Seq(Alphabet) /\ sent = Append(seen, b) \o Tail(chunk) /\ Append(seen, b) = seen \o <<b>> /\ Append(t, b) = t \o <<b>>
  <2> DEFINE rest == Tail(chunk)
  <2>1. chunk = <<b>> \o rest /\ sent = seen \o chunk
    BY <1>1, <1>2, <1>3 DEF Position
  <2> HIDE DEF rest, b, t
  <2>2. seen \o (<<b>> \o rest) = Append(seen, b) \o rest
    BY <1>3 DEF rest
  <2>3. Append(seen, b) \in Seq(Alphabet) /\ Append(seen, b) = seen \o <<b>> /\ Append(t, b) = t \o <<b>>
    BY <1>3
  <2>4. QED
    BY <2>1, <2>2, <2>3 DEF rest
<1>5. Settled(Append(seen, b)) /\ Stripped(Append(seen, b)) = Append(t, b)
  <2>1. Settled(seen)
    BY <1>1, <1>2 DEF Position
  <2> HIDE DEF b
  <2>2. Settled(seen \o <<b>>) /\ Stripped(seen \o <<b>>) = t \o <<b>>
    BY <1>3, <2>1, StrippedGrows
  <2>3. QED
    BY <1>4, <2>2
<1>6. MidBreak(t, b)
  BY <1>1, <1>2 DEF MidBreak, Position
<1>7. Cut(Append(t, b)) = Cut(t)
  BY <1>3, <1>6, CutCases
<1>8. /\ parser' \in Reader /\ parser'.line = parser.line /\ parser'.bom = parser.bom /\ parser'.resolved /\ ~parser'.skip
      /\ parser'.data = parser.data /\ parser'.state = "open" /\ Core(parser') = Core(parser)
  BY <1>1 DEF ReaderInv, ReaderTyped, Reader, Core
<1>9. Append(t, b)[Len(Append(t, b))] = b /\ b # "CR"
  BY <1>1, <1>3
<1>10. \E x : Position(x)'
  <2> HIDE DEF b
  <2>1. ReadOf(Append(t, b)) = [p |-> Core(parser'), out |-> read']
    BY <1>1, <1>2, <1>7, <1>8 DEF ReadOf, Position
  <2>2. Cut(Append(t, b)).last = parser'.bom \o parser'.line /\ parser'.bom = <<>>
    BY <1>1, <1>2, <1>7, <1>8 DEF Position
  <2>3. PICK x : x = Append(seen, b)
    OBVIOUS
  <2>4. /\ x \in Seq(Alphabet) /\ Settled(x) /\ sent' = x \o chunk'
        /\ ReadOf(Stripped(x)) = [p |-> Core(parser'), out |-> read']
        /\ Cut(Stripped(x)).last = parser'.bom \o parser'.line
        /\ parser'.resolved = TRUE /\ parser'.bom = <<>> /\ parser'.skip = FALSE
        /\ Stripped(x)[Len(Stripped(x))] # "CR"
    BY <1>1, <1>4, <1>5, <1>8, <1>9, <2>1, <2>2, <2>3 DEF ReaderInv, ReaderTyped, Reader
  <2>5. Position(x)'
    BY <2>4 DEF Position
  <2>6. QED
    BY <2>5
<1>11. ReaderTyped'
  BY <1>1, <1>3, <1>8 DEF ReaderInv, ReaderTyped
<1>12. QED
  BY <1>8, <1>10, <1>11 DEF ReaderInv

\* What the segment of a chunk ends with.
BreakAt == SelectInSeq(chunk, LAMBDA b : b \in Breaks)

\* The chunk is all of one line, or that much of it and a break and the rest.
LEMMA BreakAtIs ==
    ASSUME chunk \in Seq(Alphabet)
    PROVE  \/ BreakAt = 0 /\ NoBreak(chunk)
           \/ /\ BreakAt \in 1..Len(chunk) /\ chunk[BreakAt] \in Alphabet \cap Breaks
              /\ NoBreak(SubSeq(chunk, 1, BreakAt - 1))
              /\ SubSeq(chunk, 1, BreakAt - 1) \in Seq(Alphabet)
              /\ SubSeq(chunk, BreakAt + 1, Len(chunk)) \in Seq(Alphabet)
              /\ chunk = Append(SubSeq(chunk, 1, BreakAt - 1), chunk[BreakAt]) \o SubSeq(chunk, BreakAt + 1, Len(chunk))
<1> DEFINE I == {i \in 1..Len(chunk) : chunk[i] \in Breaks}
<1>1. BreakAt = IF I # {} THEN Min(I) ELSE 0
  BY DEF BreakAt, SelectInSeq
<1>2. CASE I = {}
  <2>1. BreakAt = 0
    BY <1>1, <1>2
  <2>2. QED
    BY <1>2, <2>1 DEF NoBreak
<1>3. CASE I # {}
  <2>1. I \in SUBSET Nat
    OBVIOUS
  <2>2. BreakAt \in I /\ \A y \in I : BreakAt <= y
    <3> HIDE DEF I
    <3>1. QED
      BY <1>1, <1>3, <2>1, LeastOne
  <2>3. BreakAt \in 1..Len(chunk) /\ chunk[BreakAt] \in Breaks /\ chunk[BreakAt] \in Alphabet
    BY <2>2
  <2> DEFINE w == SubSeq(chunk, 1, BreakAt - 1)
             rest == SubSeq(chunk, BreakAt + 1, Len(chunk))
  <2>4. /\ w \in Seq(Alphabet) /\ rest \in Seq(Alphabet) /\ Len(w) = BreakAt - 1
        /\ \A i \in 1..Len(w) : w[i] = chunk[i] /\ i \in 1..Len(chunk) /\ ~(BreakAt <= i)
    BY <2>3
  <2>5. NoBreak(w)
    BY <2>2, <2>4 DEF NoBreak
  <2>6. chunk = Append(w, chunk[BreakAt]) \o rest
    <3> DEFINE y == Append(w, chunk[BreakAt]) \o rest
    <3>1. Len(rest) = Len(chunk) - BreakAt /\ \A i \in 1..Len(rest) : rest[i] = chunk[i + BreakAt]
      BY <2>3
    <3> HIDE DEF w, rest
    <3>2. y \in Seq(Alphabet) /\ Len(y) = Len(chunk)
      BY <2>3, <2>4, <3>1
    <3>3. \A i \in 1..Len(y) : y[i] = chunk[i]
      <4>1. ASSUME NEW i \in 1..Len(y) PROVE y[i] = chunk[i]
        <5>1. CASE i < BreakAt
          BY <2>3, <2>4, <3>1, <3>2, <5>1
        <5>2. CASE i = BreakAt
          <6>1. Append(w, chunk[BreakAt]) \in Seq(Alphabet) /\ Len(Append(w, chunk[BreakAt])) = BreakAt /\ Append(w, chunk[BreakAt])[BreakAt] = chunk[BreakAt]
            BY <2>3, <2>4
          <6>2. QED
            BY <2>3, <2>4, <5>2, <6>1
        <5>3. CASE i > BreakAt
          <6>1. y[i] = rest[i - BreakAt]
            BY <2>3, <2>4, <3>1, <3>2, <5>3
          <6>2. i - BreakAt \in 1..Len(rest) /\ (i - BreakAt) + BreakAt = i
            BY <2>3, <2>4, <3>1, <3>2, <5>3
          <6>3. QED
            BY <3>1, <6>1, <6>2
        <5>4. i \in Nat /\ BreakAt \in Nat
          BY <2>3
        <5>5. QED
          BY <5>1, <5>2, <5>3, <5>4
      <4>2. QED
        BY <4>1
    <3> HIDE DEF y
    <3>4. y = chunk
      BY <3>2, <3>3, SeqEqual
    <3>5. QED
      BY <3>4 DEF y
  <2>7. QED
    BY <2>3, <2>4, <2>5, <2>6
<1>4. QED
  BY <1>2, <1>3

\* A segment and its break, joined to what is seen.
LEMMA JoinCut ==
    ASSUME NEW t \in Seq(Alphabet), NEW w \in Seq(Alphabet), NEW b \in Alphabet
    PROVE  /\ Append(t \o w, b) = t \o Append(w, b)
           /\ Append(t \o w, b)[Len(Append(t \o w, b))] = b /\ Append(t \o w, b) # <<>>
<1>1. t \o w \in Seq(Alphabet)
  OBVIOUS
<1>2. Append(t \o w, b)[Len(Append(t \o w, b))] = b /\ Append(t \o w, b) # <<>>
  BY <1>1
<1>3. Append(t \o w, b) = t \o Append(w, b)
  OBVIOUS
<1>4. QED
  BY <1>2, <1>3

\* A segment is part of the line the reader is in, or ends it.
LEMMA TakeSegmentKeeps == ReaderInv /\ TakeSegment => ReaderInv'
<1> SUFFICES ASSUME ReaderInv, TakeSegment PROVE ReaderInv'
  OBVIOUS
<1> DEFINE line == parser.line \o (IF BreakAt = 0 THEN chunk ELSE SubSeq(chunk, 1, BreakAt - 1))
           next == [parser EXCEPT !.skip = BreakAt # 0 /\ chunk[BreakAt] = "CR"]
<1>1. /\ chunk # <<>> /\ parser.state = "open" /\ parser.resolved /\ ~(parser.skip /\ Head(chunk) = "LF")
      /\ UNCHANGED <<sent, over>>
      /\ IF Len(line) > LineCap
         THEN parser' = [parser EXCEPT !.state = "failed"] /\ chunk' = <<>> /\ UNCHANGED read
         ELSE IF BreakAt = 0
         THEN parser' = [next EXCEPT !.line = line] /\ chunk' = <<>> /\ UNCHANGED read
         ELSE TakeLine(next, line, SubSeq(chunk, BreakAt + 1, Len(chunk)))
  BY DEF TakeSegment, BreakAt
<1>2. PICK seen : Position(seen)
  BY <1>1 DEF ReaderInv
<1> DEFINE t == Stripped(seen)
<1>3. /\ seen \in Seq(Alphabet) /\ t \in Seq(Alphabet) /\ chunk \in Seq(Alphabet) /\ sent = seen \o chunk /\ Settled(seen)
      /\ parser \in Reader /\ parser.bom = <<>> /\ parser.line \in Seq(Alphabet) /\ <<>> \in Seq(Alphabet)
      /\ parser.skip = (t # <<>> /\ t[Len(t)] = "CR") /\ Len(parser.data) <= DataCap /\ parser.data \in Data
  BY <1>1, <1>2, StrippedIs DEF Position, ReaderInv, ReaderTyped, Reader
<1>4. /\ ReadOf(t) = [p |-> Core(parser), out |-> read] /\ Cut(t).last = parser.line
      /\ ReadOf(t) \in Readings /\ read \in Seq(Event)
  <2>1. ReadOf(t) = [p |-> Core(parser), out |-> read] /\ Cut(t).last = <<>> \o parser.line
    BY <1>1, <1>2 DEF Position
  <2>2. ReadOf(t) \in Readings
    BY <1>3, ReadOfTyped
  <2>3. QED
    BY <1>3, <2>1, <2>2 DEF Readings
<1> HIDE DEF t
<1>5. CASE BreakAt = 0
  <2>1. NoBreak(chunk) /\ line = parser.line \o chunk /\ line \in Seq(Alphabet)
    BY <1>3, <1>5, BreakAtIs
  <2> HIDE DEF line
  <2>2. Cut(t \o chunk) = [ended |-> Cut(t).ended, last |-> line]
    BY <1>3, <1>4, <2>1, CutOfPlain
  <2>3. Stripped(sent) = t \o chunk /\ Settled(sent) /\ sent \in Seq(Alphabet)
    BY <1>3, StrippedGrows DEF t
  <2>4. ReadOf(Stripped(sent)) = [p |-> Core(parser), out |-> read] /\ Cut(Stripped(sent)).last = line
    <3>1. Cut(Stripped(sent)).ended = Cut(t).ended /\ Cut(Stripped(sent)).last = line
      BY <2>2, <2>3
    <3>2. QED
      BY <1>4, <3>1 DEF ReadOf
  <2>5. CASE Len(line) > LineCap
    <3>1. parser' = [parser EXCEPT !.state = "failed"] /\ chunk' = <<>> /\ read' = read
      BY <1>1, <2>5
    <3>2. ReaderTyped' /\ parser'.state = "failed"
      BY <1>1, <1>3, <3>1 DEF ReaderInv, ReaderTyped, Reader
    <3>3. sent = sent \o <<>> /\ sent' = sent
      BY <1>1, <2>3
    <3>4. ReadOf(Stripped(sent)).out = read /\ Len(Cut(Stripped(sent)).last) > LineCap
      BY <2>4, <2>5
    <3>5. QED
      BY <1>3, <2>3, <3>1, <3>2, <3>3, <3>4, TooLong
  <2>6. CASE ~(Len(line) > LineCap)
    <3>1. parser' = [next EXCEPT !.line = line] /\ chunk' = <<>> /\ read' = read
      BY <1>1, <1>5, <2>6
    <3>2. /\ parser' \in Reader /\ parser'.line = line /\ parser'.bom = <<>> /\ parser'.resolved /\ parser'.skip = FALSE
          /\ parser'.data = parser.data /\ parser'.state = "open" /\ Core(parser') = Core(parser)
      BY <1>1, <1>3, <1>5, <2>1, <3>1 DEF Reader, Core
    <3>3. ReaderTyped'
      BY <1>1, <1>3, <2>1, <2>6, <3>1, <3>2, StreamAssumption DEF ReaderInv, ReaderTyped
    <3>4. (t \o chunk)[Len(t \o chunk)] = chunk[Len(chunk)] /\ Len(chunk) \in 1..Len(chunk)
      BY <1>1, <1>3
    <3>5. Stripped(sent)[Len(Stripped(sent))] # "CR"
      BY <2>1, <2>3, <3>4 DEF NoBreak, Breaks
    <3>6. sent' = sent \o chunk' /\ sent' = sent
      BY <1>1, <2>3, <3>1
    <3>7. Cut(Stripped(sent)).last = parser'.bom \o parser'.line
      BY <2>1, <2>4, <3>2
    <3>8. ReadOf(Stripped(sent)) = [p |-> Core(parser'), out |-> read']
      BY <2>4, <3>1, <3>2
    <3>9. Position(sent)'
      BY <2>3, <3>2, <3>5, <3>6, <3>7, <3>8 DEF Position
    <3>10. QED
      BY <3>2, <3>3, <3>9 DEF ReaderInv
  <2>7. QED
    BY <2>5, <2>6
<1>6. CASE BreakAt # 0
  <2> DEFINE w == SubSeq(chunk, 1, BreakAt - 1)
             b == chunk[BreakAt]
             rest == SubSeq(chunk, BreakAt + 1, Len(chunk))
             u == Append(w, b)
  <2>1. /\ BreakAt \in 1..Len(chunk) /\ b \in Alphabet \cap Breaks /\ NoBreak(w) /\ w \in Seq(Alphabet) /\ rest \in Seq(Alphabet)
        /\ chunk = u \o rest
    BY <1>3, <1>6, BreakAtIs
  <2>2. line = parser.line \o w /\ line \in Seq(Alphabet) /\ u \in Seq(Alphabet)
    <3>1. line = parser.line \o w
      BY <1>6
    <3> HIDE DEF w, b, line
    <3>2. QED
      BY <1>3, <2>1, <3>1
  <2>3. w = <<>> => Head(chunk) = b
    <3>1. w = <<>> => BreakAt = 1
      <4>1. Len(w) = BreakAt - 1
        BY <1>3, <2>1
      <4> HIDE DEF w
      <4>2. QED
        BY <2>1, <4>1
    <3>2. QED
      BY <1>1, <1>3, <3>1
  <2> HIDE DEF w, b, rest, line
  <2>j. /\ seen \in Seq(Alphabet) /\ t \in Seq(Alphabet) /\ w \in Seq(Alphabet) /\ b \in Alphabet /\ u \in Seq(Alphabet)
        /\ rest \in Seq(Alphabet)
    BY <1>3, <2>1, <2>2
  <2>4. w = <<>> => ~MidBreak(t, b)
    BY <1>1, <1>3, <2>3 DEF MidBreak
  <2>5. /\ Append(t \o w, b) \in Seq(Alphabet)
        /\ Cut(Append(t \o w, b)) = [ended |-> Append(Cut(t).ended, Cut(t).last \o w), last |-> <<>>]
    BY <1>3, <2>1, <2>4, CutLine
  <2>6. /\ seen \o u \in Seq(Alphabet) /\ sent = (seen \o u) \o rest
        /\ Append(t \o w, b) = t \o u
    <3>1. seen \o (u \o rest) = (seen \o u) \o rest /\ seen \o u \in Seq(Alphabet)
      <4> HIDE DEF u
      <4>1. QED
        BY ONLY <2>j, JoinThree, SMTT(30)
    <3>2. sent = seen \o (u \o rest)
      BY <1>3, <2>1
    <3>3. Append(t \o w, b) = t \o u
      BY <2>j, JoinCut
    <3>4. QED
      BY <3>1, <3>2, <3>3
  <2>7. Settled(seen \o u) /\ Stripped(seen \o u) = t \o u
    BY <1>3, <2>2, StrippedGrows DEF t
  <2> DEFINE x == seen \o u
  <2>8. /\ Stripped(x) = Append(t \o w, b) /\ Stripped(x)[Len(Stripped(x))] = b /\ Stripped(x) # <<>>
    <3>1. Stripped(x) = Append(t \o w, b)
      BY <2>6, <2>7
    <3>2. t \o w \in Seq(Alphabet)
      BY <1>3, <2>1
    <3>3. Append(t \o w, b)[Len(Append(t \o w, b))] = b /\ Append(t \o w, b) # <<>>
      BY <2>j, JoinCut, ZenonT(30)
    <3>4. QED
      BY <3>1, <3>3
  <2>9. Cut(Stripped(x)).last = <<>> /\ ReadOf(Stripped(x)) = ReadLine(ReadOf(t), line)
    <3>1. Cut(Stripped(x)).ended = Append(Cut(t).ended, line) /\ Cut(Stripped(x)).last = <<>>
      <4>1. Cut(t).last \o w = line
        BY <1>4, <2>2
      <4>2. QED
        BY <2>5, <2>8, <4>1
    <3>2. Cut(t).ended \in Seq(Seq(Alphabet))
      BY <1>3, ReadOfTyped
    <3>3. ReadLines(Append(Cut(t).ended, line)) = ReadLine(ReadLines(Cut(t).ended), line)
      BY <2>2, <3>2, ReadLinesGrows
    <3>4. QED
      BY <3>1, <3>3 DEF ReadOf
  <2>10. CASE Len(line) > LineCap
    <3>1. parser' = [parser EXCEPT !.state = "failed"] /\ chunk' = <<>> /\ read' = read
      BY <1>1, <2>10
    <3>2. ReaderTyped' /\ parser'.state = "failed"
      BY <1>1, <1>3, <3>1 DEF ReaderInv, ReaderTyped, Reader
    <3>3. Cut(t \o w) = [ended |-> Cut(t).ended, last |-> line]
      BY <1>3, <1>4, <2>1, <2>2, CutOfPlain, ZenonT(30)
    <3>4. Settled(seen \o w) /\ Stripped(seen \o w) = t \o w
      BY <1>3, <2>1, StrippedGrows DEF t
    <3>5. ReadOf(Stripped(seen \o w)).out = read /\ Len(Cut(Stripped(seen \o w)).last) > LineCap
      <4>1. Cut(Stripped(seen \o w)).ended = Cut(t).ended /\ Cut(Stripped(seen \o w)).last = line
        BY <3>3, <3>4
      <4>2. ReadOf(Stripped(seen \o w)) = ReadOf(t)
        BY <4>1 DEF ReadOf
      <4>3. QED
        BY <1>4, <2>10, <4>1, <4>2
    <3>6. /\ seen \o w \in Seq(Alphabet) /\ <<b>> \o rest \in Seq(Alphabet)
          /\ sent = (seen \o w) \o (<<b>> \o rest)
      <4>1. sent = seen \o (u \o rest)
        BY <1>3, <2>1
      <4>2. seen \o (Append(w, b) \o rest) = (seen \o w) \o (<<b>> \o rest)
        <5>1. Append(w, b) \o rest = w \o (<<b>> \o rest) /\ <<b>> \o rest \in Seq(Alphabet)
          BY <2>1, JoinOne
        <5>2. seen \o (w \o (<<b>> \o rest)) = (seen \o w) \o (<<b>> \o rest)
          BY ONLY <2>j, <5>1, JoinThree, SMTT(30)
        <5>3. QED
          BY <5>1, <5>2
      <4>3. QED
        BY <1>3, <2>1, <4>1, <4>2
    <3>7. QED
      BY <1>1, <3>1, <3>2, <3>4, <3>5, <3>6, TooLong
  <2>11. CASE ~(Len(line) > LineCap)
    <3>1. TakeLine(next, line, rest)
      BY <1>1, <1>6, <2>11 DEF rest
    <3>2. /\ next \in Reader /\ next.resolved /\ next.bom = <<>> /\ next.state = "open" /\ next.data = parser.data
          /\ next.skip = (b = "CR") /\ Core(next) = Core(parser)
      BY <1>1, <1>3, <1>6 DEF Reader, Core, b
    <3> HIDE DEF next, line, x
    <3>3. Len(line) <= LineCap
      BY <2>2, <2>11, StreamAssumption
    <3>4. next.skip = (Stripped(x) # <<>> /\ Stripped(x)[Len(Stripped(x))] = "CR")
      BY <2>8, <3>2
    <3>5. ReadOf(Stripped(x)) = ReadLine([p |-> Core(next), out |-> read], line)
      BY <1>4, <2>9, <3>2
    <3>6. x \in Seq(Alphabet) /\ sent = x \o rest /\ Settled(x) /\ Len(next.data) <= DataCap /\ ReaderTyped
      BY <1>3, <2>6, <2>7, <3>2 DEF x, ReaderInv
    <3>7. QED
      BY <1>1, <1>4, <2>1, <2>2, <2>9, <3>1, <3>2, <3>3, <3>4, <3>5, <3>6, TakeLineKeeps
  <2>12. QED
    BY <2>10, <2>11
<1>7. QED
  BY <1>5, <1>6

\* The bytes held back for the mark are dropped with it, or begin the first line.
LEMMA ResolveBomKeeps == ReaderInv /\ ResolveBom => ReaderInv'
<1> SUFFICES ASSUME ReaderInv, ResolveBom PROVE ReaderInv'
  OBVIOUS
<1>1. PICK b : b = Head(chunk)
  OBVIOUS
<1> DEFINE prefix == Append(parser.bom, b)
           opened == [parser EXCEPT !.resolved = TRUE, !.bom = <<>>, !.line = parser.bom]
<1>2. /\ chunk # <<>> /\ parser.state = "open" /\ ~parser.resolved
      /\ UNCHANGED <<sent, over>>
      /\ IF b # Bom[Len(prefix)]
         THEN IF b \in Breaks
              THEN TakeLine([opened EXCEPT !.skip = b = "CR"], opened.line, Tail(chunk))
              ELSE /\ parser' = IF Len(prefix) > LineCap THEN [opened EXCEPT !.state = "failed"]
                                ELSE [opened EXCEPT !.line = prefix]
                   /\ chunk' = Tail(chunk) /\ UNCHANGED read
         ELSE /\ parser' = IF prefix = Bom THEN [parser EXCEPT !.bom = <<>>, !.resolved = TRUE]
                           ELSE [parser EXCEPT !.bom = prefix]
              /\ chunk' = Tail(chunk) /\ UNCHANGED read
  BY <1>1 DEF ResolveBom
<1>3. PICK seen : Position(seen)
  BY <1>2 DEF ReaderInv
<1>4. /\ seen = parser.bom /\ seen \in {<<>>, <<"f">>} /\ seen \in Seq(Alphabet) /\ parser.line = <<>> /\ parser.skip = FALSE
      /\ chunk \in Seq(Alphabet) /\ b \in Alphabet /\ Tail(chunk) \in Seq(Alphabet) /\ sent = seen \o chunk
      /\ parser \in Reader /\ Len(parser.data) <= DataCap /\ chunk = <<b>> \o Tail(chunk)
  BY <1>1, <1>2, <1>3, SMTT(30) DEF Position, ReaderInv, ReaderTyped, Reader
<1>s. /\ Len(seen) \in {0, 1} /\ Len(seen) < 2 /\ Len(seen) <= LineCap /\ (Len(seen) = 1 => seen[1] = "f")
      /\ NoBreak(seen) /\ ~MidBreak(seen, b)
  <2>1. CASE seen = <<>>
    <3>1. Len(seen) = 0 /\ LineCap \in Nat
      BY <2>1, StreamAssumption
    <3>2. QED
      BY <2>1, <3>1 DEF NoBreak, MidBreak
  <2>2. CASE seen = <<"f">>
    <3>1. Len(seen) = 1 /\ seen[1] = "f" /\ LineCap \in Nat \ {0}
      BY <2>2, StreamAssumption
    <3>2. QED
      BY <3>1 DEF NoBreak, MidBreak, Breaks
  <2>3. QED
    BY <1>4, <2>1, <2>2
<1>t. parser.bom \in Seq(Alphabet) /\ Tail(chunk) \in Seq(Alphabet)
  BY <1>4
<1>5. PICK x : x = Append(seen, b)
  OBVIOUS
<1>6. /\ x = prefix /\ x \in Seq(Alphabet) /\ sent = x \o Tail(chunk) /\ Len(x) = Len(seen) + 1 /\ x # <<>>
      /\ x[Len(x)] = b /\ (Len(x) = 2 => x[1] = "f") /\ Len(x) \in {1, 2}
  <2>1. Append(seen, b) \o Tail(chunk) = seen \o (<<b>> \o Tail(chunk))
    <3>1. seen \in Seq(Alphabet) /\ b \in Alphabet
      BY <1>4
    <3>2. QED
      BY ONLY <1>t, <3>1, JoinOne
  <2>2. x \in Seq(Alphabet) /\ Len(x) = Len(seen) + 1 /\ x # <<>> /\ x[Len(x)] = b
    BY <1>4, <1>5
  <2>3. Len(seen) = 1 => x[1] = "f"
    BY <1>4, <1>5, <1>s
  <2>4. Len(x) \in {1, 2} /\ (Len(x) = 2 => Len(seen) = 1)
    BY <1>s, <2>2
  <2>5. sent = x \o Tail(chunk)
    BY <1>4, <1>5, <2>1
  <2>6. x = prefix
    BY <1>4, <1>5
  <2>7. QED
    BY <2>2, <2>3, <2>4, <2>5, <2>6
<1>7. /\ Cut(seen) = [ended |-> <<>>, last |-> seen] /\ NoBreak(seen)
      /\ Stripped(seen) = seen /\ ReadOf(seen) = [p |-> Core(parser), out |-> read]
      /\ ReadOf(seen) = Unread
  <2>1. NoBreak(seen)
    BY <1>s
  <2>2. <<>> \in Seq(Alphabet) /\ <<>> \o seen = seen
    BY <1>4
  <2>3. Cut(<<>> \o seen) = [ended |-> Cut(<<>>).ended, last |-> Cut(<<>>).last \o seen]
    BY <1>4, <2>1, <2>2, CutOfPlain
  <2>4. Cut(seen) = [ended |-> <<>>, last |-> seen]
    <3>1. Cut(<<>>).ended = <<>> /\ Cut(<<>>).last = <<>>
      BY CutBegins
    <3>2. QED
      BY <2>2, <2>3, <3>1
  <2>6. Stripped(seen) = seen
    BY <1>4, <1>s, StrippedIs
  <2>7. ReadOf(seen) = Unread
    BY <2>4, ReadLinesBegins DEF ReadOf
  <2>8. QED
    BY <1>3, <2>1, <2>4, <2>6, <2>7 DEF Position
<1>8. Core(parser) = Unread.p /\ read = <<>> /\ read \in Seq(Event)
  <2>1. [p |-> Core(parser), out |-> read].p = Unread.p /\ [p |-> Core(parser), out |-> read].out = Unread.out
    BY <1>7
  <2>2. <<>> \in Seq(Event) /\ Unread.out = <<>>
    BY DEF Unread
  <2>3. QED
    BY <2>1, <2>2
<1> HIDE DEF prefix
<1>9. Bom[1] = "f" /\ Bom[2] = "u"
  BY DEF Bom
<1>10. CASE b # Bom[Len(x)]
  <2>1. Settled(x) /\ Stripped(x) = x
    <3>1. CASE Len(x) = 1
      <4>1. x[1] # "f"
        BY <1>6, <1>9, <1>10, <3>1
      <4>2. QED
        BY <1>6, <3>1, <4>1, StrippedIs DEF Settled
    <3>2. CASE Len(x) = 2
      <4>1. x[2] # "u"
        BY <1>6, <1>9, <1>10, <3>2
      <4>2. QED
        <5>1. Len(x) >= 2 /\ x # <<>> /\ (Len(x) < 2 \/ x[1] # "f" \/ x[2] # "u")
          BY <1>6, <3>2, <4>1
        <5>2. QED
          BY <1>6, <5>1, StrippedIs DEF Settled
    <3>3. QED
      BY <1>6, <3>1, <3>2
  <2>2. /\ opened \in Reader /\ opened.resolved = TRUE /\ opened.bom = <<>> /\ opened.line = seen /\ opened.state = "open"
        /\ opened.data = parser.data /\ opened.skip = FALSE /\ Core(opened) = Core(parser)
    <3>1. <<>> \in Seq(Alphabet)
      OBVIOUS
    <3>2. QED
      BY <1>2, <1>4, <3>1 DEF Reader, Core
  <2> HIDE DEF opened
  <2>3. <<>> \in Seq(Alphabet) /\ seen \o <<>> = seen /\ <<>> \in Seq(Seq(Alphabet)) /\ Len(<<>>) = 0 /\ LineCap \in Nat
    BY <1>4, StreamAssumption
  <2>4. CASE b \in Breaks
    <3>1. PICK q : q = [opened EXCEPT !.skip = b = "CR"]
      OBVIOUS
    <3>2. /\ q \in Reader /\ q.resolved /\ q.bom = <<>> /\ q.state = "open" /\ Len(q.data) <= DataCap
          /\ q.skip = (b = "CR") /\ Core(q) = Core(parser)
      <4>1. /\ q \in Reader /\ q.resolved = TRUE /\ q.bom = <<>> /\ q.state = "open" /\ q.data = parser.data
            /\ q.skip = (b = "CR") /\ Core(q) = Core(opened)
        BY <2>2, <3>1 DEF Reader, Core
      <4>2. QED
        BY <1>4, <2>2, <4>1
    <3>3. TakeLine(q, seen, Tail(chunk))
      BY <1>2, <1>6, <1>10, <2>2, <2>4, <3>1
    <3>4. ~MidBreak(seen, b)
      BY <1>s
    <3>5. Cut(x) = [ended |-> Append(<<>>, seen), last |-> <<>>]
      <4>1. Cut(seen).ended = <<>> /\ Cut(seen).last = seen
        BY <1>7
      <4>2. Cut(x) = [ended |-> Append(Cut(seen).ended, Cut(seen).last), last |-> <<>>]
        BY <1>4, <1>5, <2>4, <3>4, CutCases
      <4>3. QED
        BY <4>1, <4>2
    <3>6. ReadOf(x) = ReadLine(ReadOf(seen), seen)
      <4>1. ReadLines(Append(<<>>, seen)) = ReadLine(ReadLines(<<>>), seen)
        BY <1>4, <2>3, ReadLinesGrows
      <4>2. Cut(x).ended = Append(<<>>, seen)
        BY <3>5
      <4>3. QED
        BY <1>7, <4>1, <4>2, ReadLinesBegins DEF ReadOf
    <3>7. Len(seen) <= LineCap
      BY <1>s
    <3>8. Cut(Stripped(x)).last = <<>> /\ ReadOf(Stripped(x)) = ReadLine([p |-> Core(q), out |-> read], seen)
      BY <1>7, <2>1, <3>2, <3>5, <3>6
    <3>9. q.skip = (Stripped(x) # <<>> /\ Stripped(x)[Len(Stripped(x))] = "CR")
      BY <1>6, <2>1, <3>2
    <3>10. ReaderTyped /\ sent' = sent /\ over' = over
      BY <1>2 DEF ReaderInv
    <3>11. QED
      BY <1>4, <1>6, <1>8, <2>1, <3>2, <3>3, <3>7, <3>8, <3>9, <3>10, TakeLineKeeps
  <2>5. CASE b \notin Breaks
    <3>1. /\ parser' = IF Len(x) > LineCap THEN [opened EXCEPT !.state = "failed"] ELSE [opened EXCEPT !.line = x]
          /\ chunk' = Tail(chunk) /\ read' = read
      BY <1>2, <1>6, <1>10, <2>5
    <3>2. Cut(x) = [ended |-> <<>>, last |-> Append(seen, b)]
      <4>1. Cut(seen).ended = <<>> /\ Cut(seen).last = seen
        BY <1>7
      <4>2. Cut(x) = [ended |-> Cut(seen).ended, last |-> Append(Cut(seen).last, b)]
        BY <1>4, <1>5, <2>5, CutCases
      <4>3. QED
        BY <4>1, <4>2
    <3>3. Cut(Stripped(x)).last = x /\ ReadOf(Stripped(x)) = [p |-> Core(parser), out |-> read]
      <4>1. Cut(x).last = x /\ Cut(x).ended = <<>>
        BY <1>5, <3>2
      <4>2. Cut(seen).ended = <<>>
        BY <1>7
      <4>3. QED
        BY <1>7, <2>1, <4>1, <4>2 DEF ReadOf
    <3>4. CASE Len(x) > LineCap
      <4>1. /\ parser' \in Reader /\ parser'.state = "failed" /\ parser'.line = seen /\ parser'.data = parser.data
        BY <2>2, <3>1, <3>4 DEF Reader
      <4>2. Len(seen) <= LineCap
        BY <1>s
      <4>3. ReaderTyped'
        BY <1>2, <1>4, <3>1, <4>1, <4>2 DEF ReaderInv, ReaderTyped
      <4>4. ReadOf(Stripped(x)).out = read
        BY <3>3
      <4>5. QED
        BY <1>2, <1>4, <1>6, <2>1, <3>1, <3>3, <3>4, <4>1, <4>3, <4>4, TooLong
    <3>5. CASE ~(Len(x) > LineCap)
      <4>1. /\ parser' \in Reader /\ parser'.state = "open" /\ parser'.line = x /\ parser'.data = parser.data /\ parser'.bom = <<>>
            /\ parser'.resolved = TRUE /\ parser'.skip = FALSE /\ Core(parser') = Core(parser)
        <5>1. parser' = [opened EXCEPT !.line = x]
          BY <3>1, <3>5
        <5>2. QED
          BY <1>6, <2>2, <5>1 DEF Reader, Core
      <4>2. Len(x) <= LineCap
        BY <1>6, <2>3, <3>5
      <4>3. ReaderTyped'
        BY <1>2, <1>4, <3>1, <4>1, <4>2 DEF ReaderInv, ReaderTyped
      <4>4. Stripped(x)[Len(Stripped(x))] # "CR"
        BY <1>6, <2>1, <2>5 DEF Breaks
      <4>5. x = <<>> \o x /\ sent' = x \o chunk'
        BY <1>2, <1>6, <3>1
      <4>6. Position(x)'
        BY <1>6, <2>1, <3>1, <3>3, <4>1, <4>4, <4>5 DEF Position
      <4>7. QED
        BY <4>1, <4>3, <4>6 DEF ReaderInv
    <3>6. QED
      BY <3>4, <3>5
  <2>6. QED
    BY <2>4, <2>5
<1>11. CASE b = Bom[Len(x)]
  <2>1. /\ parser' = IF x = Bom THEN [parser EXCEPT !.bom = <<>>, !.resolved = TRUE] ELSE [parser EXCEPT !.bom = x]
        /\ chunk' = Tail(chunk) /\ read' = read
    BY <1>2, <1>6, <1>11
  <2>2. <<>> \in Seq(Alphabet) /\ <<>> \o <<>> = <<>>
    OBVIOUS
  <2>3. /\ parser' \in Reader /\ parser'.state = "open" /\ parser'.line = <<>> /\ parser'.data = parser.data
        /\ parser'.skip = FALSE /\ Core(parser') = Core(parser)
    BY <1>2, <1>4, <1>6, <2>1, <2>2 DEF Reader, Core
  <2>4. ReaderTyped'
    BY <1>2, <1>4, <2>1, <2>3, StreamAssumption DEF ReaderInv, ReaderTyped
  <2>5. CASE Len(x) = 2
    <3>1. x[1] = "f" /\ x[2] = "u"
      BY <1>6, <1>9, <1>11, <2>5
    <3>2. x = Bom
      <4>1. Bom \in Seq(Alphabet) /\ Len(Bom) = 2
        <5>1. "f" \in Alphabet /\ "u" \in Alphabet
          <6>1. 1 \in 1..Len(x) /\ 2 \in 1..Len(x)
            BY <2>5
          <6>2. x[1] \in Alphabet /\ x[2] \in Alphabet
            BY <1>6, <6>1
          <6>3. QED
            BY <3>1, <6>2
        <5>2. QED
          BY <5>1 DEF Bom
      <4>2. \A i \in 1..Len(x) : x[i] = Bom[i]
        BY <1>9, <2>5, <3>1
      <4>3. QED
        BY <1>6, <2>5, <4>1, <4>2, SeqEqual
    <3>3. parser'.bom = <<>> /\ parser'.resolved = TRUE
      BY <1>4, <2>1, <3>2 DEF Reader
    <3>4. Settled(x) /\ Stripped(x) = <<>>
      <4>1. Stripped(x) = SubSeq(x, 3, Len(x))
        BY <1>6, <2>5, <3>1, StrippedIs
      <4>2. SubSeq(x, 3, Len(x)) = <<>>
        BY <1>6, <2>5
      <4>3. QED
        <5>1. Len(x) >= 2
          BY <2>5
        <5>2. QED
          BY <1>6, <4>1, <4>2, <5>1 DEF Settled
    <3>5. ReadOf(<<>>) = [p |-> Core(parser), out |-> read] /\ Cut(<<>>).last = <<>>
      BY <1>7, CutBegins, ReadLinesBegins DEF ReadOf
    <3>6. sent' = x \o chunk'
      BY <1>2, <1>6, <2>1
    <3>7. Position(x)'
      BY <1>6, <2>1, <2>2, <2>3, <3>3, <3>4, <3>5, <3>6 DEF Position
    <3>8. QED
      BY <2>3, <2>4, <3>7 DEF ReaderInv
  <2>6. CASE Len(x) = 1
    <3>1. x = <<"f">>
      <4>1. b = "f"
        BY <1>9, <1>11, <2>6
      <4>2. Len(seen) = 0
        BY <1>6, <1>s, <2>6
      <4>3. seen = <<>>
        BY <1>4, <4>2
      <4>4. QED
        BY <1>5, <4>1, <4>3
    <3>2. x # Bom
      BY <2>6 DEF Bom
    <3>3. parser'.bom = x /\ parser'.resolved = FALSE
      BY <1>2, <1>4, <1>6, <2>1, <3>2 DEF Reader
    <3>4. Stripped(x) = x
      BY <1>6, <2>6, StrippedIs
    <3>5. "f" \notin Breaks
      BY DEF Breaks
    <3>6. Cut(x) = [ended |-> <<>>, last |-> Append(seen, b)]
      <4>1. b = "f"
        BY <1>9, <1>11, <2>6
      <4>2. QED
        <5>1. Cut(seen).ended = <<>> /\ Cut(seen).last = seen
          BY <1>7
        <5>2. Cut(x) = [ended |-> Cut(seen).ended, last |-> Append(Cut(seen).last, b)]
          BY <1>4, <1>5, <3>5, <4>1, CutCases
        <5>3. QED
          BY <5>1, <5>2
    <3>7. Cut(x).last = x /\ ReadOf(x) = [p |-> Core(parser), out |-> read]
      <4>1. Cut(x).last = x /\ Cut(x).ended = <<>> /\ Cut(seen).ended = <<>>
        BY <1>5, <1>7, <3>6
      <4>2. QED
        BY <1>7, <4>1 DEF ReadOf
    <3>8. sent' = x \o chunk' /\ x = x \o <<>>
      BY <1>2, <1>6, <2>1
    <3>9. Position(x)'
      BY <1>6, <2>1, <2>3, <3>1, <3>3, <3>4, <3>7, <3>8 DEF Position
    <3>10. QED
      BY <2>3, <2>4, <3>9 DEF ReaderInv
  <2>7. QED
    BY <1>6, <2>5, <2>6
<1>12. QED
  BY <1>10, <1>11

\* At the end the reader has read the lines of the whole stream.
LEMMA ReaderEofKeeps == ReaderInv /\ ReaderEof => ReaderInv'
<1> SUFFICES ASSUME ReaderInv, ReaderEof PROVE ReaderInv'
  OBVIOUS
<1>1. PICK last : last = parser.bom \o parser.line
  OBVIOUS
<1>2. PICK rest : rest = IF last = <<>> THEN parser ELSE ProcessLine(parser, last)
  OBVIOUS
<1>3. /\ over /\ chunk = <<>> /\ parser.state = "open" /\ UNCHANGED <<sent, over, chunk>>
      /\ parser' = [rest EXCEPT !.state = IF rest.state = "open" /\ Utf8(rest.data) THEN "done" ELSE "failed"]
      /\ read' = IF rest.state = "open" THEN read \o Dispatched(rest, <<>>) ELSE read
  BY <1>1, <1>2 DEF ReaderEof
<1>4. PICK seen : Position(seen)
  BY <1>3 DEF ReaderInv
<1> DEFINE t == Stripped(sent)
           c == Core(parser)
<1>5. /\ seen = sent /\ sent \in Seq(Alphabet) /\ parser \in Reader /\ parser.line \in Seq(Alphabet) /\ parser.bom \in Seq(Alphabet)
      /\ last \in Seq(Alphabet) /\ <<>> \in Seq(Alphabet) /\ LineCap \in Nat \ {0} /\ Len(<<>>) = 0
      /\ Len(parser.line) <= LineCap /\ Len(parser.data) <= DataCap
  BY <1>1, <1>3, <1>4, StreamAssumption DEF Position, ReaderInv, ReaderTyped, Reader
<1>6. /\ t \in Seq(Alphabet) /\ ReadOf(t) = [p |-> c, out |-> read] /\ Cut(t).last = last /\ ReadOf(t) \in Readings
  BY <1>1, <1>4, <1>5, StrippedIs, ReadOfTyped DEF Position
<1>7. Len(last) <= LineCap
  <2>1. CASE parser.resolved
    <3>1. parser.bom = <<>>
      BY <1>4, <2>1 DEF Position
    <3>2. QED
      BY <1>1, <1>5, <3>1
  <2>2. CASE ~parser.resolved
    <3>1. parser.bom \in {<<>>, <<"f">>} /\ parser.line = <<>>
      BY <1>4, <2>2 DEF Position
    <3>2. Len(parser.bom) <= 1
      <4>1. parser.bom = <<>> => Len(parser.bom) = 0
        OBVIOUS
      <4>2. parser.bom = <<"f">> => Len(parser.bom) = 1
        OBVIOUS
      <4>3. parser.bom = <<>> \/ parser.bom = <<"f">>
        BY <3>1, Zenon
      <4> DEFINE k == Len(parser.bom)
      <4> HIDE DEF k
      <4>4. k = 0 \/ k = 1
        BY <4>1, <4>2, <4>3, Zenon DEF k
      <4>5. k <= 1
        BY <4>4
      <4>6. QED
        BY <4>5 DEF k
    <3>3. last = parser.bom
      BY <1>1, <1>5, <3>1
    <3>4. QED
      BY <1>5, <3>2, <3>3
  <2>3. QED
    BY <2>1, <2>2
<1>8. c \in Reading /\ c.state = "open" /\ read \in Seq(Event)
  <2>1. c \in Reading
    BY <1>5, LineIsProcessed
  <2>2. [p |-> c, out |-> read].out = read
    OBVIOUS
  <2>3. QED
    BY <1>3, <1>6, <2>1, <2>2 DEF Core, Readings
<1>9. /\ last = <<>> => Whole(sent) = ReadLine(ReadOf(t), <<>>)
      /\ last # <<>> => Whole(sent) = ReadLine(ReadLine(ReadOf(t), last), <<>>)
  BY <1>5, <1>6, WholeIs
<1> HIDE DEF t, c
<1>10. /\ rest \in Reader /\ Core(rest) \in Reading /\ Dispatched(rest, <<>>) = Dispatched(Core(rest), <<>>)
       /\ Core(rest).state = rest.state /\ rest.line = parser.line /\ Core(rest).data = rest.data
       /\ Core(rest) = IF last = <<>> THEN c ELSE ProcessLine(c, last)
       /\ rest.state \in {"open", "failed"} /\ Len(rest.data) <= DataCap /\ (last = <<>> => rest.state = "open")
  <2>1. CASE last = <<>>
    <3>1. rest = parser
      BY <1>2, <2>1
    <3>2. Dispatched(rest, <<>>) = Dispatched(Core(rest), <<>>)
      BY <1>5, <3>1, LineIsProcessed
    <3>3. Core(rest) = c /\ Core(rest).state = rest.state /\ Core(rest).data = rest.data
      BY <3>1 DEF c, Core
    <3>4. QED
      BY <1>3, <1>5, <1>8, <2>1, <3>1, <3>2, <3>3
  <2>2. CASE last # <<>>
    <3>1. rest = ProcessLine(parser, last)
      BY <1>2, <2>2
    <3>2. rest \in Reader /\ Core(rest) = ProcessLine(c, last) /\ rest.line = parser.line
      BY <1>5, <3>1, LineIsProcessed DEF c
    <3>3. Dispatched(rest, <<>>) = Dispatched(Core(rest), <<>>) /\ Core(rest) \in Reading
      BY <1>5, <3>2, LineIsProcessed
    <3>4. Core(rest).state = rest.state /\ Core(rest).data = rest.data /\ c.data = parser.data
      BY DEF Core, c
    <3>5. ProcessLine(c, last).state \in {"open", "failed"} /\ Len(ProcessLine(c, last).data) <= DataCap
      BY <1>5, <1>8, <3>4, LineIsRead
    <3>6. QED
      BY <2>2, <3>2, <3>3, <3>4, <3>5
  <2>3. QED
    BY <2>1, <2>2
<1>11. /\ parser' \in Reader
       /\ parser'.state = (IF rest.state = "open" /\ Utf8(rest.data) THEN "done" ELSE "failed")
       /\ parser'.line = parser.line /\ parser'.data = rest.data
  BY <1>3, <1>10 DEF Reader
<1>12. ReaderTyped'
  BY <1>3, <1>5, <1>10, <1>11 DEF ReaderInv, ReaderTyped
<1> DEFINE a == [p |-> Core(rest), out |-> read]
<1>13. /\ a \in Readings /\ a.p = Core(rest) /\ a.out = read
       /\ Whole(sent) = ReadLine(a, <<>>)
  <2>1. a \in Readings /\ a.p = Core(rest) /\ a.out = read
    BY <1>8, <1>10 DEF Readings
  <2>2. CASE last = <<>>
    BY <1>6, <1>9, <1>10, <2>1, <2>2
  <2>3. CASE last # <<>>
    <3>1. ~(c.state = "failed" \/ Len(last) > LineCap)
      BY <1>5, <1>7, <1>8
    <3>2. PICK k : k = ReadOf(t)
      OBVIOUS
    <3>3. k \in Readings /\ k.p = c /\ k.out = read
      BY <1>6, <3>2
    <3>4. ReadLine(k, last) = [p |-> ProcessLine(k.p, last), out |-> k.out \o Dispatched(k.p, last)]
      BY <1>5, <3>1, <3>3, LineKinds
    <3>5. Dispatched(c, last) = <<>> /\ read \o <<>> = read
      BY <1>5, <1>8, <2>3, LineIsRead
    <3>6. ReadLine(k, last) = a
      BY <1>10, <2>3, <3>3, <3>4, <3>5
    <3>7. QED
      BY <1>9, <2>1, <2>3, <3>2, <3>6
  <2>4. QED
    BY <2>2, <2>3
<1> HIDE DEF a
<1>14. CASE rest.state = "open" /\ Utf8(rest.data)
  <2>1. ~(a.p.state = "failed" \/ Len(<<>>) > LineCap)
    BY <1>5, <1>10, <1>13, <1>14
  <2>2. ReadLine(a, <<>>) = [p |-> ProcessLine(a.p, <<>>), out |-> a.out \o Dispatched(a.p, <<>>)]
    BY <1>5, <1>13, <2>1, LineKinds
  <2>3. ProcessLine(a.p, <<>>).state = "open"
    <3>1. a.p \in Reading /\ a.p.state = "open" /\ Utf8(a.p.data)
      BY <1>10, <1>13, <1>14
    <3>2. QED
      BY <1>5, <3>1, LineIsRead
  <2>4. Whole(sent).p.state = "open" /\ Whole(sent).out = read'
    BY <1>3, <1>10, <1>13, <1>14, <2>2, <2>3
  <2>5. QED
    BY <1>3, <1>11, <1>12, <1>14, <2>4 DEF ReaderInv
<1>15. CASE rest.state = "failed"
  <2>1. ReadLine(a, <<>>).p.state = "failed" /\ ReadLine(a, <<>>).out = a.out
    BY <1>5, <1>10, <1>13, <1>15, LineKinds
  <2>2. Whole(sent).p.state = "failed" /\ Whole(sent).out = read'
    BY <1>3, <1>13, <1>15, <2>1
  <2>3. QED
    BY <1>3, <1>11, <1>12, <1>15, <2>2 DEF ReaderInv
<1>16. CASE rest.state = "open" /\ ~Utf8(rest.data)
  <2>1. ~(a.p.state = "failed" \/ Len(<<>>) > LineCap)
    BY <1>5, <1>10, <1>13, <1>16
  <2>2. ReadLine(a, <<>>) = [p |-> ProcessLine(a.p, <<>>), out |-> a.out \o Dispatched(a.p, <<>>)]
    BY <1>5, <1>13, <2>1, LineKinds
  <2>3. ProcessLine(a.p, <<>>).state = "failed"
    <3>1. a.p \in Reading /\ ~Utf8(a.p.data)
      BY <1>10, <1>13, <1>16
    <3>2. QED
      BY <1>5, <3>1, LineIsRead
  <2>4. Whole(sent).p.state = "failed" /\ Whole(sent).out = read'
    BY <1>3, <1>10, <1>13, <1>16, <2>2, <2>3
  <2>5. QED
    BY <1>3, <1>11, <1>12, <1>16, <2>4 DEF ReaderInv
<1>17. QED
  BY <1>10, <1>14, <1>15, <1>16

\* The other parser does not touch the reader.
LEMMA ReaderKeeps == ReaderInv /\ StreamStep => ReaderInv'
<1> SUFFICES ASSUME ReaderInv, StreamStep PROVE ReaderInv'
  OBVIOUS
<1>1. CASE UNCHANGED <<sent, over, chunk, parser, read>>
  <2>1. ReaderTyped'
    BY <1>1 DEF ReaderInv, ReaderTyped
  <2>2. ASSUME NEW seen, Position(seen) PROVE Position(seen)'
    BY <1>1, <2>2 DEF Position
  <2>3. QED
    BY <1>1, <2>1, <2>2 DEF ReaderInv
<1>2. Scan \/ ScanDone => UNCHANGED <<sent, over, chunk, parser, read>>
  BY DEF Scan, ScanDone
<1>3. QED
  BY <1>1, <1>2, ChunkKeeps, EndKeeps, SkipLfKeeps, TakeSegmentKeeps, ResolveBomKeeps, ReaderEofKeeps DEF StreamStep

\* What the reader made of a stream that is over.
LEMMA ReaderIsDone ==
    ASSUME ReaderInv, over, parser.state # "open"
    PROVE  /\ read = Whole(sent).out /\ (parser.state = "failed") = (Whole(sent).p.state = "failed")
           /\ parser.state = "done" => Whole(sent).p.state = "open"
<1>1. sent \in Seq(Alphabet) /\ parser.state \in {"failed", "done"}
  BY DEF ReaderInv, ReaderTyped, Reader
<1>2. CASE parser.state = "failed"
  BY <1>1, <1>2, DeadFails DEF ReaderInv
<1>3. CASE parser.state = "done"
  BY <1>3 DEF ReaderInv
<1>4. QED
  BY <1>1, <1>2, <1>3
-----------------------------------------------------------------------------
\* What the HTTP parser makes of lines, one after the other: as it strips a mark from each
\* event, first tells that the line is the first of one.
NoWire == [first |-> TRUE, has |-> FALSE, data |-> <<>>, out |-> <<>>]

\* A blank line ends an event; any other is one of its lines.
WithWire(acc, line) ==
    IF line = <<>>
    THEN [first |-> TRUE, has |-> FALSE, data |-> <<>>, out |-> IF acc.has THEN Append(acc.out, acc.data) ELSE acc.out]
    ELSE LET e == WithLine([has |-> acc.has, data |-> acc.data], IF acc.first THEN Stripped(line) ELSE line) IN
         [first |-> FALSE, has |-> e.has, data |-> e.data, out |-> acc.out]

\* ... over all of them.
Wire(lines) ==
    LET upTo[n \in 0..Len(lines)] == IF n = 0 THEN NoWire ELSE WithWire(upTo[n - 1], lines[n])
    IN  upTo[Len(lines)]

\* h is the recursive function that the wire of the lines s is defined by.
Wires(s, h) ==
    h = [i \in 0..Len(s) |-> IF i = 0 THEN NoWire ELSE WithWire(h[i - 1], s[i])]

\* The definition of the wire of lines has such a function to choose.
LEMMA WireExists ==
    ASSUME NEW s \in Seq(Seq(Alphabet))
    PROVE  \E h : Wires(s, h)
<1> DEFINE F(n, h) == h = [i \in 0..n |-> IF i = 0 THEN NoWire ELSE WithWire(h[i - 1], s[i])]
           N == {n \in Nat : ~\E h : F(n, h)}
<1>1. SUFFICES ASSUME N # {} PROVE FALSE
  BY SMTT(30) DEF Wires
<1>2. PICK n \in N : \A m \in N : n <= m
  <2> HIDE DEF F
  <2>1. QED
    BY <1>1, LeastNumber
<1>3. n # 0
  <2>1. F(0, [i \in 0..0 |-> NoWire])
    OBVIOUS
  <2> HIDE DEF F
  <2>2. QED
    BY <1>2, <2>1
<1>4. PICK h : F(n - 1, h)
  <2> HIDE DEF F
  <2>1. n - 1 \in Nat /\ ~(n <= n - 1)
    BY <1>2, <1>3
  <2>2. n - 1 \notin N
    <3> HIDE DEF N
    <3>1. QED
      BY <1>2, <2>1
  <2>3. QED
    BY <2>1, <2>2
<1> DEFINE g == [i \in 0..n |-> IF i = n THEN WithWire(h[n - 1], s[n]) ELSE h[i]]
<1>5. F(n, g)
  <2>1. ASSUME NEW i \in 0..n
        PROVE  g[i] = IF i = 0 THEN NoWire ELSE WithWire(g[i - 1], s[i])
    <3>1. CASE i = n
      BY <1>2, <1>3, <3>1
    <3>2. CASE i # n
      <4>1. i \in 0..(n - 1) /\ g[i] = h[i] /\ (i # 0 => g[i - 1] = h[i - 1])
        BY <1>2, <1>3, <3>2
      <4>2. h[i] = IF i = 0 THEN NoWire ELSE WithWire(h[i - 1], s[i])
        BY <1>4, <4>1
      <4> HIDE DEF g
      <4>3. QED
        BY <4>1, <4>2
    <3>3. QED
      BY <3>1, <3>2
  <2>2. g = [i \in 0..n |-> IF i = 0 THEN NoWire ELSE WithWire(g[i - 1], s[i])]
    BY <2>1
  <2>3. QED
    BY <2>2
<1> HIDE DEF F
<1>6. QED
  BY <1>2, <1>5

\* ... and the wire is its last value.
LEMMA WireIs ==
    ASSUME NEW s \in Seq(Seq(Alphabet))
    PROVE  \E h : /\ h[0] = NoWire /\ Wire(s) = h[Len(s)]
                  /\ \A i \in 1..Len(s) : h[i] = WithWire(h[i - 1], s[i])
<1>1. PICK g : Wires(s, g)
  BY WireExists
<1>2. Wire(s) = (CHOOSE h : Wires(s, h))[Len(s)]
  BY DEF Wire, Wires, NoWire
<1>3. PICK h : Wires(s, h) /\ Wire(s) = h[Len(s)]
  BY <1>1, <1>2
<1>4. h[0] = NoWire /\ \A i \in 1..Len(s) : h[i] = WithWire(h[i - 1], s[i])
  <2>1. ASSUME NEW i \in 0..Len(s) PROVE h[i] = IF i = 0 THEN NoWire ELSE WithWire(h[i - 1], s[i])
    <3>1. h = [j \in 0..Len(s) |-> IF j = 0 THEN NoWire ELSE WithWire(h[j - 1], s[j])]
      BY <1>3 DEF Wires
    <3>2. QED
      BY <3>1, Zenon
  <2>2. 0 \in 0..Len(s) /\ \A i \in 1..Len(s) : i \in 0..Len(s) /\ i # 0
    OBVIOUS
  <2>3. QED
    BY <2>1, <2>2
<1>5. QED
  BY <1>3, <1>4

\* The wire of lines and one more.
LEMMA WireGrows ==
    ASSUME NEW s \in Seq(Seq(Alphabet)), NEW b \in Seq(Alphabet)
    PROVE  Wire(Append(s, b)) = WithWire(Wire(s), b)
<1> DEFINE t == Append(s, b)
<1>1. PICK h : /\ h[0] = NoWire /\ Wire(s) = h[Len(s)]
               /\ \A i \in 1..Len(s) : h[i] = WithWire(h[i - 1], s[i])
  BY WireIs
<1>2. /\ t \in Seq(Seq(Alphabet)) /\ Len(t) = Len(s) + 1 /\ Len(s) \in Nat /\ t[Len(s) + 1] = b
      /\ \A i \in 1..Len(s) : t[i] = s[i]
  OBVIOUS
<1> HIDE DEF t
<1>3. PICK g : /\ g[0] = NoWire /\ Wire(t) = g[Len(t)]
               /\ \A i \in 1..Len(t) : g[i] = WithWire(g[i - 1], t[i])
  BY <1>2, WireIs
<1>4. ASSUME NEW i \in 1..Len(s), g[i - 1] = h[i - 1] PROVE g[i] = h[i]
  <2>1. g[i] = WithWire(g[i - 1], t[i]) /\ h[i] = WithWire(h[i - 1], s[i]) /\ t[i] = s[i]
    BY <1>1, <1>2, <1>3
  <2>2. QED
    BY <1>4, <2>1
<1>5. g[Len(s)] = h[Len(s)]
  <2> DEFINE N == {i \in 0..Len(s) : g[i] # h[i]}
  <2>1. SUFFICES ASSUME N # {} PROVE FALSE
    BY <1>2
  <2>2. PICK n \in N : \A m \in N : n <= m
    <3>1. N \in SUBSET Nat
      OBVIOUS
    <3> HIDE DEF N
    <3>2. QED
      BY <2>1, <3>1, LeastNumber
  <2>3. n \in 1..Len(s) /\ g[n] # h[n]
    BY <1>1, <1>2, <1>3, <2>2
  <2>4. g[n - 1] = h[n - 1]
    <3>1. n - 1 \in 0..Len(s) /\ ~(n <= n - 1)
      BY <1>2, <2>3
    <3>2. QED
      BY <2>2, <3>1
  <2>5. QED
    BY <1>4, <2>3, <2>4
<1>6. Len(t) \in 1..Len(t) /\ Len(t) - 1 = Len(s)
  BY <1>2
<1>7. Wire(t) = WithWire(Wire(s), b)
  BY <1>1, <1>2, <1>3, <1>5, <1>6
<1>8. QED
  BY <1>7 DEF t

\* The wire of no line.
LEMMA WireBegins == Wire(<<>>) = NoWire
<1>1. <<>> \in Seq(Seq(Alphabet)) /\ Len(<<>>) = 0
  OBVIOUS
<1>2. PICK h : h[0] = NoWire /\ Wire(<<>>) = h[Len(<<>>)]
  BY <1>1, WireIs
<1>3. QED
  BY <1>1, <1>2

\* The first of lines without its mark.
StripFirst(ls) == [k \in DOMAIN ls |-> IF k = 1 THEN Stripped(ls[1]) ELSE ls[k]]

\* They are as many lines, and the first is the only one that may differ.
LEMMA StripFirstIs ==
    ASSUME NEW ls \in Seq(Seq(Alphabet))
    PROVE  /\ StripFirst(ls) \in Seq(Seq(Alphabet)) /\ Len(StripFirst(ls)) = Len(ls)
           /\ \A k \in 1..Len(ls) : StripFirst(ls)[k] = IF k = 1 THEN Stripped(ls[1]) ELSE ls[k]
<1> DEFINE f == [k \in 1..Len(ls) |-> IF k = 1 THEN Stripped(ls[1]) ELSE ls[k]]
<1>1. DOMAIN ls = 1..Len(ls) /\ Len(ls) \in Nat
  OBVIOUS
<1>2. StripFirst(ls) = f
  BY <1>1 DEF StripFirst
<1>3. ASSUME NEW k \in 1..Len(ls) PROVE (IF k = 1 THEN Stripped(ls[1]) ELSE ls[k]) \in Seq(Alphabet)
  <2>1. ls[k] \in Seq(Alphabet)
    BY <1>1
  <2>2. k = 1 => Stripped(ls[1]) \in Seq(Alphabet)
    BY <2>1, StrippedIs
  <2>3. QED
    BY <2>1, <2>2
<1>4. f \in [1..Len(ls) -> Seq(Alphabet)]
  BY <1>3
<1>6. \A k \in 1..Len(ls) : f[k] = IF k = 1 THEN Stripped(ls[1]) ELSE ls[k]
  BY Zenon
<1> HIDE DEF f
<1>5. f \in Seq(Seq(Alphabet)) /\ Len(f) = Len(ls)
  BY <1>1, <1>4
<1>7. QED
  BY <1>2, <1>5, <1>6

\* A line after the first is taken as it is ...
LEMMA StripFirstGrows ==
    ASSUME NEW ls \in Seq(Seq(Alphabet)), NEW b \in Seq(Alphabet), ls # <<>>
    PROVE  StripFirst(Append(ls, b)) = Append(StripFirst(ls), b)
<1> DEFINE x == StripFirst(Append(ls, b))
           y == Append(StripFirst(ls), b)
           m == Append(ls, b)
<1>1. /\ m \in Seq(Seq(Alphabet)) /\ Len(m) = Len(ls) + 1 /\ m[Len(ls) + 1] = b /\ Len(ls) \in Nat /\ Len(ls) >= 1
      /\ \A k \in 1..Len(ls) : m[k] = ls[k]
  OBVIOUS
<1>2. /\ StripFirst(ls) \in Seq(Seq(Alphabet)) /\ Len(StripFirst(ls)) = Len(ls)
      /\ \A k \in 1..Len(ls) : StripFirst(ls)[k] = IF k = 1 THEN Stripped(ls[1]) ELSE ls[k]
  BY StripFirstIs
<1>3. /\ y \in Seq(Seq(Alphabet)) /\ Len(y) = Len(ls) + 1 /\ y[Len(ls) + 1] = b
      /\ \A k \in 1..Len(ls) : y[k] = StripFirst(ls)[k]
  BY <1>2
<1> HIDE DEF m
<1>4. /\ x \in Seq(Seq(Alphabet)) /\ Len(x) = Len(m)
      /\ \A k \in 1..Len(m) : x[k] = IF k = 1 THEN Stripped(m[1]) ELSE m[k]
  BY <1>1, StripFirstIs DEF m
<1> HIDE DEF x, y
<1>5. ASSUME NEW k \in 1..Len(x) PROVE x[k] = y[k]
  <2>1. CASE k = Len(ls) + 1
    BY <1>1, <1>3, <1>4, <2>1
  <2>2. CASE k # Len(ls) + 1
    <3>1. k \in 1..Len(ls) /\ 1 \in 1..Len(ls)
      BY <1>1, <1>4, <2>2
    <3>2. k \in 1..Len(m) /\ m[k] = ls[k] /\ m[1] = ls[1]
      BY <1>1, <3>1
    <3>3. x[k] = IF k = 1 THEN Stripped(ls[1]) ELSE ls[k]
      BY ONLY <1>4, <3>2, Zenon
    <3>4. y[k] = IF k = 1 THEN Stripped(ls[1]) ELSE ls[k]
      BY ONLY <1>2, <1>3, <3>1, Zenon
    <3>5. QED
      BY ONLY <3>3, <3>4
  <2>3. QED
    BY <2>1, <2>2
<1>6. x = y
  <2>1. x \in Seq(Seq(Alphabet)) /\ y \in Seq(Seq(Alphabet)) /\ Len(x) = Len(y)
    BY <1>1, <1>3, <1>4
  <2>2. QED
    BY ONLY <1>5, <2>1, SeqEqual
<1>7. QED
  BY <1>6 DEF x, y

\* ... and the first without its mark.
LEMMA StripFirstOfOne ==
    ASSUME NEW b \in Seq(Alphabet)
    PROVE  StripFirst(<<b>>) = <<Stripped(b)>>
<1> DEFINE x == StripFirst(<<b>>)
           y == <<Stripped(b)>>
<1>1. <<b>> \in Seq(Seq(Alphabet)) /\ Len(<<b>>) = 1 /\ <<b>>[1] = b
  OBVIOUS
<1>2. y \in Seq(Seq(Alphabet)) /\ Len(y) = 1 /\ y[1] = Stripped(b)
  BY StrippedIs
<1>3. x \in Seq(Seq(Alphabet)) /\ Len(x) = 1 /\ x[1] = Stripped(b)
  <2>1. 1 \in 1..Len(<<b>>)
    BY <1>1
  <2>2. QED
    BY <1>1, <2>1, StripFirstIs
<1> HIDE DEF x, y
<1>4. x = y
  BY <1>2, <1>3, SeqEqual
<1>5. QED
  BY <1>4 DEF x, y

\* There is no mark in no line.
LEMMA StripFirstOfNone == StripFirst(<<>>) = <<>>
<1>1. <<>> \in Seq(Seq(Alphabet)) /\ Len(<<>>) = 0
  OBVIOUS
<1>2. StripFirst(<<>>) \in Seq(Seq(Alphabet)) /\ Len(StripFirst(<<>>)) = 0
  BY <1>1, StripFirstIs
<1>3. QED
  BY <1>2

\* Lines that are longer by a byte.
LEMMA LinesGrow ==
    ASSUME NEW s \in Seq(Alphabet), NEW b \in Alphabet
    PROVE  /\ Lines(s) \in Seq(Seq(Alphabet)) /\ Len(Lines(s)) >= 1
           /\ MidBreak(s, b) => Lines(Append(s, b)) = Lines(s)
           /\ ~MidBreak(s, b) /\ b \in Breaks => Lines(Append(s, b)) = Append(Lines(s), <<>>)
           /\ b \notin Breaks =>
                 /\ Lines(s) = Append(Cut(s).ended, Cut(s).last)
                 /\ Lines(Append(s, b)) = Append(Cut(s).ended, Append(Cut(s).last, b))
<1> DEFINE e == Cut(s).ended
           l == Cut(s).last
<1>1. Cut(s) \in [ended : Seq(Seq(Alphabet)), last : Seq(Alphabet)] /\ e \in Seq(Seq(Alphabet)) /\ l \in Seq(Alphabet)
  BY ReadOfTyped
<1>2. LET c == Cut(s) IN
      /\ MidBreak(s, b) => Cut(Append(s, b)) = c
      /\ ~MidBreak(s, b) /\ b \in Breaks => Cut(Append(s, b)) = [ended |-> Append(c.ended, c.last), last |-> <<>>]
      /\ b \notin Breaks => Cut(Append(s, b)) = [ended |-> c.ended, last |-> Append(c.last, b)]
  BY CutCases
<1>3. Lines(s) = Append(e, l)
  BY DEF Lines
<1>4. Append(e, l) \in Seq(Seq(Alphabet)) /\ Len(Append(e, l)) >= 1
  <2> HIDE DEF e, l
  <2>1. QED
    BY <1>1
<1>5. MidBreak(s, b) => Lines(Append(s, b)) = Lines(s)
  BY <1>2 DEF Lines
<1>6. ~MidBreak(s, b) /\ b \in Breaks => Lines(Append(s, b)) = Append(Lines(s), <<>>)
  <2>1. ~MidBreak(s, b) /\ b \in Breaks => Cut(Append(s, b)).ended = Append(e, l) /\ Cut(Append(s, b)).last = <<>>
    BY <1>2
  <2>2. QED
    BY <2>1 DEF Lines
<1>7. b \notin Breaks => Lines(Append(s, b)) = Append(e, Append(l, b))
  <2>1. b \notin Breaks => Cut(Append(s, b)).ended = e /\ Cut(Append(s, b)).last = Append(l, b)
    BY <1>2
  <2>2. QED
    BY <2>1 DEF Lines
<1>8. QED
  BY <1>3, <1>4, <1>5, <1>6, <1>7

\* A stream without its mark has the same lines, but for the first.
LEMMA LinesStripped ==
    ASSUME NEW s \in Seq(Alphabet)
    PROVE  Lines(Stripped(s)) = StripFirst(Lines(s))
<1> DEFINE Ok(u) == Lines(Stripped(u)) = StripFirst(Lines(u)) /\ (Cut(u).ended = <<>> => Cut(u).last = u)
           S == {u \in Seq(Alphabet) : Ok(u)}
<1>0. <<>> \in Seq(Alphabet) /\ <<>> \in Seq(Seq(Alphabet)) /\ Len(<<>>) = 0 /\ Append(<<>>, <<>>) = <<<<>>>>
  OBVIOUS
<1>b. Cut(<<>>).ended = <<>> /\ Cut(<<>>).last = <<>>
  BY CutBegins
<1>c. Stripped(<<>>) = <<>> /\ Lines(<<>>) = <<<<>>>>
  <2>1. Len(<<>>) < 2
    BY <1>0
  <2>2. Stripped(<<>>) = <<>>
    BY <1>0, <2>1, StrippedIs, Zenon
  <2>3. QED
    BY <1>0, <1>b, <2>2 DEF Lines
<1>1. <<>> \in S
  <2>1. StripFirst(<<<<>>>>) = <<Stripped(<<>>)>>
    BY <1>0, StripFirstOfOne
  <2>2. Ok(<<>>)
    BY <1>b, <1>c, <2>1
  <2>3. QED
    BY <1>0, <2>2
<1>2. ASSUME NEW u \in Seq(Alphabet), NEW b \in Alphabet, u \in S PROVE Append(u, b) \in S
  <2> DEFINE x == Append(u, b)
             e == Cut(u).ended
             l == Cut(u).last
  <2>1. Lines(Stripped(u)) = StripFirst(Lines(u)) /\ (e = <<>> => l = u)
    BY <1>2
  <2>2. /\ x \in Seq(Alphabet) /\ x = u \o <<b>> /\ <<b>> \in Seq(Alphabet) /\ x # <<>> /\ x # u
        /\ Len(x) = Len(u) + 1 /\ x[Len(u) + 1] = b /\ Len(u) \in Nat
        /\ \A i \in 1..Len(u) : x[i] = u[i]
    OBVIOUS
  <2>3. /\ e \in Seq(Seq(Alphabet)) /\ l \in Seq(Alphabet) /\ Append(l, b) \in Seq(Alphabet) /\ Lines(u) = Append(e, l)
        /\ Append(e, l) \in Seq(Seq(Alphabet)) /\ Append(e, l) # <<>>
    <3>1. e \in Seq(Seq(Alphabet)) /\ l \in Seq(Alphabet) /\ Lines(u) = Append(e, l)
      BY ReadOfTyped DEF Lines
    <3> HIDE DEF e, l
    <3>2. Append(l, b) \in Seq(Alphabet)
      BY <3>1
    <3>3. QED
      BY <3>1, <3>2, AppendFull
  <2>4. LET c == Cut(u) IN
        /\ MidBreak(u, b) => Cut(x) = c
        /\ ~MidBreak(u, b) /\ b \in Breaks => Cut(x) = [ended |-> Append(c.ended, c.last), last |-> <<>>]
        /\ b \notin Breaks => Cut(x) = [ended |-> c.ended, last |-> Append(c.last, b)]
    BY CutCases
  <2>5. /\ Lines(u) \in Seq(Seq(Alphabet)) /\ Lines(u) # <<>>
        /\ MidBreak(u, b) => Lines(x) = Lines(u)
        /\ ~MidBreak(u, b) /\ b \in Breaks => Lines(x) = Append(Lines(u), <<>>)
        /\ b \notin Breaks => Lines(x) = Append(e, Append(l, b))
    <3>1. Lines(u) \in Seq(Seq(Alphabet)) /\ Lines(u) # <<>>
      BY <2>3
    <3>2. MidBreak(u, b) => Lines(x) = Lines(u)
      BY LinesGrow
    <3>3. ~MidBreak(u, b) /\ b \in Breaks => Lines(x) = Append(Lines(u), <<>>)
      BY LinesGrow
    <3>4. b \notin Breaks => Lines(x) = Append(e, Append(l, b))
      BY LinesGrow
    <3>5. QED
      BY <3>1, <3>2, <3>3, <3>4
  <2> HIDE DEF x, e, l
  <2>6. Cut(x).ended = <<>> => Cut(x).last = x
    <3>1. CASE MidBreak(u, b)
      <4>1. u # <<>>
        BY <3>1 DEF MidBreak
      <4>2. b \in Breaks /\ u[Len(u)] \in Breaks
        BY <3>1 DEF MidBreak, Breaks
      <4>3. PICK y \in Seq(Alphabet) : u = Append(y, u[Len(u)])
        <5>1. u = Append(SubSeq(u, 1, Len(u) - 1), u[Len(u)]) /\ SubSeq(u, 1, Len(u) - 1) \in Seq(Alphabet)
          BY <4>1
        <5>2. QED
          BY <5>1
      <4>4. u[Len(u)] \in Alphabet
        BY <4>1
      <4>5. ~MidBreak(y, u[Len(u)])
        BY <3>1 DEF MidBreak
      <4>6. Cut(u) = [ended |-> Append(Cut(y).ended, Cut(y).last), last |-> <<>>]
        <5>1. ~MidBreak(y, u[Len(u)]) /\ u[Len(u)] \in Breaks =>
                 Cut(Append(y, u[Len(u)])) = [ended |-> Append(Cut(y).ended, Cut(y).last), last |-> <<>>]
          BY <4>4, CutCases, Zenon
        <5>2. QED
          BY <4>2, <4>3, <4>5, <5>1, Zenon
      <4>7. Cut(y).ended \in Seq(Seq(Alphabet)) /\ Cut(y).last \in Seq(Alphabet)
        BY ReadOfTyped
      <4>8. Append(Cut(y).ended, Cut(y).last) # <<>>
        BY <4>7, AppendFull
      <4>9. QED
        BY <2>4, <3>1, <4>6, <4>8
    <3>2. CASE ~MidBreak(u, b) /\ b \in Breaks
      <4>1. Cut(x).ended = Append(e, l)
        BY <2>4, <3>2 DEF e, l
      <4>2. QED
        BY <2>3, <4>1
    <3>3. CASE b \notin Breaks
      <4>1. Cut(x).ended = e /\ Cut(x).last = Append(l, b)
        BY <2>4, <3>3 DEF e, l
      <4>2. QED
        BY <2>1, <4>1 DEF x
    <3>4. QED
      BY <3>1, <3>2, <3>3
  <2>7. Lines(Stripped(x)) = StripFirst(Lines(x))
    <3>1. CASE Settled(u)
      <4> DEFINE t == Stripped(u)
      <4>1. Stripped(x) = t \o <<b>> /\ t \in Seq(Alphabet)
        BY <2>2, <3>1, StrippedGrows, StrippedIs
      <4>2. Stripped(x) = Append(t, b)
        BY <4>1
      <4>3. MidBreak(t, b) <=> MidBreak(u, b)
        <5>1. CASE Len(u) >= 2 /\ u[1] = "f" /\ u[2] = "u"
          <6>1. t = SubSeq(u, 3, Len(u))
            BY <5>1, StrippedIs
          <6>2. Len(u) = 2 => t = <<>>
            BY <6>1
          <6>3. ASSUME Len(u) # 2 PROVE t # <<>> /\ t[Len(t)] = u[Len(u)] /\ u # <<>>
            <7>0. Len(u) \in Nat /\ Len(u) >= 2
              BY <5>1
            <7>1. Len(u) > 2
              <8>1. \A n \in Nat : n >= 2 /\ n # 2 => n > 2
                OBVIOUS
              <8>2. QED
                BY <6>3, <7>0, <8>1, Zenon
            <7>2. Len(t) = Len(u) - 2 /\ \A i \in 1..Len(t) : t[i] = u[i + 2]
              BY <6>1, <7>1
            <7>3. Len(t) \in 1..Len(t) /\ Len(t) + 2 = Len(u)
              BY <2>2, <7>1, <7>2
            <7>4. t[Len(t)] = u[Len(u)]
              BY <7>2, <7>3
            <7>5. QED
              BY <7>1, <7>3, <7>4
          <6>4. QED
            BY <5>1, <6>2, <6>3 DEF MidBreak
        <5>2. CASE ~(Len(u) >= 2 /\ u[1] = "f" /\ u[2] = "u")
          <6>1. Len(u) < 2 \/ u[1] # "f" \/ u[2] # "u"
            BY <2>2, <5>2
          <6>2. t = u
            BY <6>1, StrippedIs
          <6>3. QED
            BY <6>2
        <5>3. QED
          BY <5>1, <5>2
      <4> HIDE DEF t
      <4>4. /\ MidBreak(t, b) => Lines(Append(t, b)) = Lines(t)
            /\ ~MidBreak(t, b) /\ b \in Breaks => Lines(Append(t, b)) = Append(Lines(t), <<>>)
            /\ b \notin Breaks => Lines(t) = Append(Cut(t).ended, Cut(t).last) /\ Lines(Append(t, b)) = Append(Cut(t).ended, Append(Cut(t).last, b))
        BY <4>1, LinesGrow
      <4>5. Lines(t) = StripFirst(Lines(u))
        BY <2>1 DEF t
      <4>6. CASE MidBreak(u, b)
        BY <2>5, <4>2, <4>3, <4>4, <4>5, <4>6
      <4>7. CASE ~MidBreak(u, b) /\ b \in Breaks
        <5>1. StripFirst(Append(Lines(u), <<>>)) = Append(StripFirst(Lines(u)), <<>>)
          BY <1>0, <2>5, StripFirstGrows
        <5>2. QED
          BY <2>5, <4>2, <4>3, <4>4, <4>5, <4>7, <5>1
      <4>8. CASE b \notin Breaks
        <5>1. Append(Cut(t).ended, Cut(t).last) = StripFirst(Append(e, l))
          BY <2>3, <4>4, <4>5, <4>8
        <5>2. Cut(t).ended \in Seq(Seq(Alphabet)) /\ Cut(t).last \in Seq(Alphabet)
          BY <4>1, ReadOfTyped
        <5>3. CASE e # <<>>
          <6>1. StripFirst(Append(e, l)) = Append(StripFirst(e), l) /\ StripFirst(Append(e, Append(l, b))) = Append(StripFirst(e), Append(l, b))
            BY <2>3, <5>3, StripFirstGrows
          <6>2. StripFirst(e) \in Seq(Seq(Alphabet))
            BY <2>3, StripFirstIs
          <6>3. Cut(t).ended = StripFirst(e) /\ Cut(t).last = l
            <7>1. Append(Cut(t).ended, Cut(t).last) = Append(StripFirst(e), l)
              BY <5>1, <6>1
            <7>2. l \in Seq(Alphabet)
              BY <2>3
            <7>3. QED
              BY <5>2, <6>2, <7>1, <7>2, AppendOnce, ZenonT(30)
          <6>4. QED
            BY <2>5, <4>2, <4>4, <4>8, <6>1, <6>3
        <5>4. CASE e = <<>>
          <6>1. l = u /\ Append(e, l) = <<l>> /\ Append(e, Append(l, b)) = <<Append(l, b)>>
            BY <2>1, <2>3, <5>4
          <6>2. StripFirst(<<l>>) = <<Stripped(l)>> /\ StripFirst(<<Append(l, b)>>) = <<Stripped(Append(l, b))>>
            BY <2>3, StripFirstOfOne
          <6>3. Stripped(l) = t /\ <<t>> = Append(<<>>, t)
            BY <6>1 DEF t
          <6>4. Cut(t).ended = <<>> /\ Cut(t).last = t
            <7>1. Append(Cut(t).ended, Cut(t).last) = Append(<<>>, t)
              BY <5>1, <6>1, <6>2, <6>3
            <7>2. t \in Seq(Alphabet) /\ <<>> \in Seq(Seq(Alphabet))
              BY <1>0, <4>1
            <7>3. QED
              BY <5>2, <7>1, <7>2, AppendOnce, Zenon
          <6>5. Lines(Append(t, b)) = <<Append(t, b)>>
            BY <4>4, <4>8, <6>4
          <6>6. QED
            BY <2>5, <4>2, <4>8, <6>1, <6>2, <6>5 DEF x
        <5>5. QED
          BY <5>3, <5>4
      <4>9. QED
        BY <4>6, <4>7, <4>8
    <3>2. CASE ~Settled(u)
      <4>1. Len(u) < 2 /\ (u # <<>> => u[1] = "f" /\ Len(u) = 1)
        BY <2>2, <3>2 DEF Settled
      <4>2. Stripped(u) = u /\ NoBreak(u) /\ ~MidBreak(u, b)
        <5>1. \A i \in 1..Len(u) : u[i] = "f"
          BY <4>1
        <5>2. u # <<>> => u[Len(u)] = "f"
          BY <4>1
        <5>3. QED
          BY <4>1, <5>1, <5>2, StrippedIs DEF NoBreak, MidBreak, Breaks
      <4>3. e = <<>> /\ l = u
        <5>1. <<>> \o u = u
          BY <2>2
        <5>2. Cut(<<>> \o u) = [ended |-> Cut(<<>>).ended, last |-> Cut(<<>>).last \o u]
          BY <1>0, <4>2, CutOfPlain
        <5>3. Cut(u).ended = Cut(<<>>).ended /\ Cut(u).last = Cut(<<>>).last \o u
          BY <5>1, <5>2
        <5>4. QED
          BY <1>b, <5>1, <5>3 DEF e, l
      <4>4. Lines(u) = <<u>>
        BY <2>3, <4>3
      <4>5. CASE b \in Breaks
        <5>1. Lines(x) = Append(<<u>>, <<>>)
          BY <2>5, <4>2, <4>4, <4>5
        <5>2. StripFirst(<<u>>) = <<u>>
          BY <4>2, StripFirstOfOne
        <5>3. <<u>> \in Seq(Seq(Alphabet)) /\ <<u>> # <<>>
          OBVIOUS
        <5>4. StripFirst(Append(<<u>>, <<>>)) = Append(<<u>>, <<>>)
          BY <1>0, <5>2, <5>3, StripFirstGrows
        <5>5. Len(x) < 2 \/ x[1] # "f" \/ x[2] # "u"
          BY <2>2, <4>1, <4>5 DEF Breaks
        <5>6. Stripped(x) = x
          BY <2>2, <5>5, StrippedIs
        <5>7. QED
          BY <5>1, <5>4, <5>6
      <4>6. CASE b \notin Breaks
        <5>1. Lines(x) = <<x>>
          BY <2>5, <4>3, <4>6 DEF x
        <5>2. StripFirst(<<x>>) = <<Stripped(x)>>
          BY <2>2, StripFirstOfOne
        <5>3. CASE Stripped(x) = x
          BY <5>1, <5>2, <5>3
        <5>4. CASE Stripped(x) # x
          <6>1. ~(Len(x) < 2 \/ x[1] # "f" \/ x[2] # "u")
            <7>1. Len(x) < 2 \/ x[1] # "f" \/ x[2] # "u" => Stripped(x) = x
              BY <2>2, StrippedIs, Zenon
            <7>2. QED
              BY <5>4, <7>1
          <6>2. Stripped(x) = SubSeq(x, 3, Len(x)) /\ Len(x) = 2
            <7>1. Len(x) >= 2 /\ Len(x) = 2
              BY <2>2, <4>1, <6>1
            <7>2. QED
              BY <2>2, <6>1, <7>1, StrippedIs, Zenon
          <6>3. Stripped(x) = <<>>
            BY <2>2, <6>2
          <6>4. QED
            BY <1>c, <5>1, <5>2, <6>3
        <5>5. QED
          BY <5>3, <5>4
      <4>7. QED
        BY <4>5, <4>6
    <3>3. QED
      BY <3>1, <3>2
  <2>8. QED
    BY <2>2, <2>6, <2>7 DEF x
<1>3. s \in S
  <2> HIDE DEF S
  <2>1. QED
    BY <1>1, <1>2, EverySequence
<1>4. QED
  BY <1>3

\* The types of the HTTP parser's state and of the data it joins.
Wired == [first : BOOLEAN, has : BOOLEAN, data : Data, out : Seq(Data)]
Joining == [has : BOOLEAN, data : Data]

\* A line adds to the data only if it is a data line.
LEMMA WithLineTyped ==
    ASSUME NEW event \in Joining, NEW line \in Seq(Alphabet)
    PROVE  /\ WithLine(event, line) \in Joining
           /\ IsData(line) => WithLine(event, line) = [has |-> TRUE, data |-> Joined(event.data, event.has, Tail(line))]
           /\ ~IsData(line) => WithLine(event, line) = event
<1>1. ASSUME IsData(line) PROVE Tail(line) \in Seq(Alphabet)
  BY <1>1 DEF IsData
<1>2. ASSUME IsData(line) PROVE Joined(event.data, event.has, Tail(line)) \in Data
  BY <1>1, <1>2, JoinedTyped DEF Joining
<1>3. QED
  BY <1>2 DEF WithLine, Joining

\* What a line does to the HTTP parser's state.
LEMMA WithWireIs ==
    ASSUME NEW acc \in Wired, NEW line \in Seq(Alphabet)
    PROVE  LET e == WithLine([has |-> acc.has, data |-> acc.data], IF acc.first THEN Stripped(line) ELSE line) IN
           /\ WithWire(acc, line) \in Wired
           /\ line = <<>> => WithWire(acc, line) = [first |-> TRUE, has |-> FALSE, data |-> <<>>,
                                                    out |-> IF acc.has THEN Append(acc.out, acc.data) ELSE acc.out]
           /\ line # <<>> => WithWire(acc, line) = [first |-> FALSE, has |-> e.has, data |-> e.data, out |-> acc.out]
<1> DEFINE own == IF acc.first THEN Stripped(line) ELSE line
           old == [has |-> acc.has, data |-> acc.data]
           e == WithLine(old, own)
           o == IF acc.has THEN Append(acc.out, acc.data) ELSE acc.out
<1>1. own \in Seq(Alphabet) /\ old \in Joining /\ acc.out \in Seq(Data) /\ o \in Seq(Data)
  <2>1. own \in Seq(Alphabet)
    BY StrippedIs
  <2>2. old \in Joining
    BY DEF Wired, Joining
  <2>3. acc.out \in Seq(Data) /\ acc.data \in Data
    BY DEF Wired
  <2>4. QED
    BY <2>1, <2>2, <2>3
<1> HIDE DEF own, old, o
<1>2. e \in Joining
  BY <1>1, WithLineTyped
<1>3. line # <<>> => WithWire(acc, line) = [first |-> FALSE, has |-> e.has, data |-> e.data, out |-> acc.out]
  BY DEF WithWire, own, old
<1>4. line = <<>> => WithWire(acc, line) = [first |-> TRUE, has |-> FALSE, data |-> <<>>, out |-> o]
  BY DEF WithWire, o
<1> HIDE DEF e
<1>5. line # <<>> => WithWire(acc, line) \in Wired
  <2>1. [first |-> FALSE, has |-> e.has, data |-> e.data, out |-> acc.out] \in Wired
    BY <1>1, <1>2 DEF Wired, Joining
  <2>2. QED
    BY <1>3, <2>1
<1>6. line = <<>> => WithWire(acc, line) \in Wired
  <2>1. <<>> \in Data
    BY DEF Data
  <2>2. [first |-> TRUE, has |-> FALSE, data |-> <<>>, out |-> o] \in Wired
    BY <1>1, <2>1 DEF Wired
  <2>3. QED
    BY <1>4, <2>2
<1>7. QED
  BY <1>3, <1>4, <1>5, <1>6 DEF e, own, old, o

\* Types of the wire and of the data of lines.
LEMMA SilentTyped == NoWire \in Wired
<1>1. <<>> \in Data /\ <<>> \in Seq(Data)
  BY DEF Data
<1>2. QED
  BY <1>1 DEF NoWire, Wired

LEMMA WireTyped ==
    ASSUME NEW ls \in Seq(Seq(Alphabet))
    PROVE  Wire(ls) \in Wired
<1> DEFINE S == {m \in Seq(Seq(Alphabet)) : Wire(m) \in Wired}
<1>1. <<>> \in S
  <2>1. <<>> \in Seq(Seq(Alphabet))
    OBVIOUS
  <2>2. QED
    BY <2>1, WireBegins, SilentTyped
<1>2. ASSUME NEW m \in Seq(Seq(Alphabet)), NEW b \in Seq(Alphabet), m \in S PROVE Append(m, b) \in S
  <2>1. Append(m, b) \in Seq(Seq(Alphabet))
    OBVIOUS
  <2>2. Wire(Append(m, b)) = WithWire(Wire(m), b)
    BY WireGrows
  <2>3. Wire(m) \in Wired
    BY <1>2
  <2>4. WithWire(Wire(m), b) \in Wired
    BY <2>3, WithWireIs
  <2>5. QED
    BY <2>1, <2>2, <2>4
<1>3. ls \in S
  <2> HIDE DEF S
  <2>1. QED
    BY <1>1, <1>2, EverySequence
<1>4. QED
  BY <1>3

LEMMA DataOfTyped ==
    ASSUME NEW ls \in Seq(Seq(Alphabet))
    PROVE  DataOf(ls) \in Joining
<1> DEFINE S == {m \in Seq(Seq(Alphabet)) : DataOf(m) \in Joining}
<1>1. <<>> \in S
  <2>1. <<>> \in Seq(Seq(Alphabet)) /\ [has |-> FALSE, data |-> <<>>] \in Joining
    BY DEF Joining, Data
  <2>2. QED
    BY <2>1, DataOfBegins
<1>2. ASSUME NEW m \in Seq(Seq(Alphabet)), NEW b \in Seq(Alphabet), m \in S PROVE Append(m, b) \in S
  <2>1. Append(m, b) \in Seq(Seq(Alphabet))
    OBVIOUS
  <2>2. DataOf(Append(m, b)) = WithLine(DataOf(m), b)
    BY DataOfGrows
  <2>3. WithLine(DataOf(m), b) \in Joining
    BY <1>2, WithLineTyped
  <2>4. QED
    BY <2>1, <2>2, <2>3
<1>3. ls \in S
  <2> HIDE DEF S
  <2>1. QED
    BY <1>1, <1>2, EverySequence
<1>4. QED
  BY <1>3

\* None of them is blank.
Full(ls) == \A k \in 1..Len(ls) : ls[k] # <<>>

\* Between two events: nothing is joined, and r came out.
AtRest(acc, r) == acc = [first |-> TRUE, has |-> FALSE, data |-> <<>>, out |-> r]

\* The lines of an event are joined as those of its text.
LEMMA EventIsJoined ==
    ASSUME NEW pre \in Seq(Seq(Alphabet)), NEW r \in Seq(Data), AtRest(Wire(pre), r),
           NEW ls \in Seq(Seq(Alphabet)), Full(ls)
    PROVE  LET d == DataOf(StripFirst(ls)) IN
           Wire(pre \o ls) = [first |-> ls = <<>>, has |-> d.has, data |-> d.data, out |-> r]
<1> DEFINE D(m) == DataOf(StripFirst(m))
           Ok(m) == Full(m) => Wire(pre \o m) = [first |-> m = <<>>, has |-> D(m).has, data |-> D(m).data, out |-> r]
           S == {m \in Seq(Seq(Alphabet)) : Ok(m)}
<1>1. <<>> \in S
  <2>1. pre \o <<>> = pre /\ <<>> \in Seq(Seq(Alphabet))
    OBVIOUS
  <2>2. D(<<>>) = [has |-> FALSE, data |-> <<>>]
    BY StripFirstOfNone, DataOfBegins
  <2>3. D(<<>>).has = FALSE /\ D(<<>>).data = <<>>
    BY <2>2
  <2> HIDE DEF D
  <2>4. Ok(<<>>)
    BY <2>1, <2>3 DEF AtRest
  <2>5. QED
    BY <2>1, <2>4
<1>2. ASSUME NEW m \in Seq(Seq(Alphabet)), NEW b \in Seq(Alphabet), m \in S PROVE Append(m, b) \in S
  <2> DEFINE x == Append(m, b)
             a == Wire(pre \o m)
             own == IF a.first THEN Stripped(b) ELSE b
  <2>0. x \in Seq(Seq(Alphabet)) /\ x # <<>>
    BY AppendFull
  <2>1. SUFFICES ASSUME Full(x)
                 PROVE  Wire(pre \o x) = [first |-> FALSE, has |-> D(x).has, data |-> D(x).data, out |-> r]
    <3>1. (x = <<>>) = FALSE
      BY <2>0
    <3> HIDE DEF x, D
    <3>2. Full(x) => Wire(pre \o x) = [first |-> x = <<>>, has |-> D(x).has, data |-> D(x).data, out |-> r]
      BY <2>1, <3>1
    <3>3. QED
      BY <2>0, <3>2 DEF x
  <2>2. Full(m) /\ b # <<>>
    <3>1. Len(x) = Len(m) + 1 /\ x[Len(m) + 1] = b /\ Len(m) \in Nat /\ \A k \in 1..Len(m) : x[k] = m[k]
      OBVIOUS
    <3>2. QED
      BY <2>1, <3>1 DEF Full
  <2>3. a = [first |-> m = <<>>, has |-> D(m).has, data |-> D(m).data, out |-> r]
    BY <1>2, <2>2
  <2>f. a.first = (m = <<>>)
    <3> HIDE DEF D
    <3>1. QED
      BY <2>3
  <2>4. pre \o x = Append(pre \o m, b) /\ pre \o m \in Seq(Seq(Alphabet))
    OBVIOUS
  <2>5. D(m) \in Joining
    BY StripFirstIs, DataOfTyped
  <2>6. Wire(pre \o x) = WithWire(a, b)
    BY <2>4, WireGrows
  <2>7. StripFirst(m) \in Seq(Seq(Alphabet)) /\ own \in Seq(Alphabet)
    BY StripFirstIs, StrippedIs
  <2>8. StripFirst(x) = Append(StripFirst(m), own)
    <3>1. CASE m = <<>>
      <4>1. x = <<b>> /\ own = Stripped(b)
        <5>1. a.first
          BY <2>f, <3>1
        <5>2. x = <<b>>
          BY <3>1
        <5> HIDE DEF a, x
        <5>3. QED
          BY <5>1, <5>2
      <4>2. StripFirst(m) = <<>> /\ StripFirst(x) = <<Stripped(b)>>
        BY <3>1, <4>1, StripFirstOfOne, StripFirstOfNone
      <4>3. QED
        BY <4>1, <4>2
    <3>2. CASE m # <<>>
      <4>1. own = b
        <5>1. ~a.first
          BY <2>f, <3>2
        <5> HIDE DEF a
        <5>2. QED
          BY <5>1
      <4>2. StripFirst(x) = Append(StripFirst(m), b)
        BY <3>2, StripFirstGrows
      <4>3. QED
        BY <4>1, <4>2
    <3>3. QED
      BY <3>1, <3>2
  <2> HIDE DEF x, own
  <2>9. D(x) = WithLine(D(m), own)
    BY <2>7, <2>8, DataOfGrows
  <2> HIDE DEF D
  <2>10. [has |-> a.has, data |-> a.data] = D(m) /\ a.out = r /\ a \in Wired
    <3>1. PICK h \in BOOLEAN, d \in Data : D(m) = [has |-> h, data |-> d]
      BY <2>5 DEF Joining
    <3>2. a.has = h /\ a.data = d /\ a.out = r
      BY <2>3, <3>1
    <3>3. a \in Wired
      BY <2>4, WireTyped
    <3>4. QED
      BY <3>1, <3>2, <3>3
  <2> HIDE DEF a
  <2>11. WithWire(a, b) = [first |-> FALSE, has |-> WithLine(D(m), own).has, data |-> WithLine(D(m), own).data, out |-> a.out]
    <3>1. LET e == WithLine([has |-> a.has, data |-> a.data], IF a.first THEN Stripped(b) ELSE b) IN
          b # <<>> => WithWire(a, b) = [first |-> FALSE, has |-> e.has, data |-> e.data, out |-> a.out]
      BY <2>10, WithWireIs
    <3>2. QED
      BY <2>2, <2>10, <3>1 DEF own
  <2>12. QED
    BY <2>6, <2>9, <2>10, <2>11
<1>3. ls \in S
  <2> HIDE DEF S
  <2>1. QED
    BY <1>1, <1>2, EverySequence
<1>4. QED
  BY <1>3

\* The blank line has no mark and no data.
LEMMA EmptyIsPlain == Stripped(<<>>) = <<>> /\ ~IsData(<<>>) /\ <<>> \in Seq(Alphabet)
<1>1. <<>> \in Seq(Alphabet) /\ Len(<<>>) = 0
  OBVIOUS
<1>2. Len(<<>>) < 2
  BY <1>1
<1>3. Stripped(<<>>) = <<>>
  BY <1>1, <1>2, StrippedIs, Zenon
<1>4. QED
  BY <1>1, <1>3 DEF IsData

\* The blank line after an event brings out what is parsed of its text.
LEMMA EventEnds ==
    ASSUME NEW pre \in Seq(Seq(Alphabet)), NEW r \in Seq(Data), AtRest(Wire(pre), r),
           NEW ls \in Seq(Seq(Alphabet)), Full(ls),
           NEW v \in Seq(Alphabet), Lines(v) = ls \/ Lines(v) = Append(ls, <<>>)
    PROVE  AtRest(Wire(Append(pre \o ls, <<>>)), r \o ParseSseEvent(v)) /\ r \o ParseSseEvent(v) \in Seq(Data)
<1> DEFINE d == DataOf(StripFirst(ls))
           a == Wire(pre \o ls)
<1>1. Len(Bom) + 1 = 3
  BY DEF Bom
<1>2. PICK all : all = DataOf(Lines(Stripped(v)))
  OBVIOUS
<1>3. ParseSseEvent(v) = IF all.has THEN <<all.data>> ELSE <<>>
  BY <1>1, <1>2 DEF ParseSseEvent, Stripped
<1>4. Lines(Stripped(v)) = StripFirst(Lines(v))
  BY LinesStripped
<1>5. StripFirst(ls) \in Seq(Seq(Alphabet)) /\ d \in Joining
  BY StripFirstIs, DataOfTyped
<1>6. all = d
  <2>1. CASE Lines(v) = ls
    BY <1>2, <1>4, <2>1
  <2>2. CASE Lines(v) = Append(ls, <<>>)
    <3>1. StripFirst(Append(ls, <<>>)) = Append(StripFirst(ls), <<>>)
      <4>1. CASE ls = <<>>
        <5>1. Append(ls, <<>>) = <<<<>>>> /\ Append(<<>>, <<>>) = <<<<>>>>
          BY <4>1
        <5>2. StripFirst(<<<<>>>>) = <<<<>>>> /\ StripFirst(<<>>) = <<>>
          BY EmptyIsPlain, StripFirstOfOne, StripFirstOfNone
        <5>3. QED
          BY <4>1, <5>1, <5>2
      <4>2. CASE ls # <<>>
        BY <4>2, EmptyIsPlain, StripFirstGrows
      <4>3. QED
        BY <4>1, <4>2
    <3>2. DataOf(Append(StripFirst(ls), <<>>)) = WithLine(d, <<>>)
      BY <1>5, EmptyIsPlain, DataOfGrows
    <3>3. WithLine(d, <<>>) = d
      BY EmptyIsPlain DEF WithLine
    <3>4. QED
      BY <1>2, <1>4, <2>2, <3>1, <3>2, <3>3
  <2>3. QED
    BY <2>1, <2>2
<1>7. a = [first |-> ls = <<>>, has |-> d.has, data |-> d.data, out |-> r]
  BY EventIsJoined
<1>8. pre \o ls \in Seq(Seq(Alphabet))
  OBVIOUS
<1>9. Wire(Append(pre \o ls, <<>>)) = WithWire(a, <<>>)
  BY <1>8, EmptyIsPlain, WireGrows
<1>10. a \in Wired
  BY <1>8, WireTyped
<1> HIDE DEF a
<1>11. a.has = d.has /\ a.data = d.data /\ a.out = r
  BY <1>7
<1> HIDE DEF d
<1>12. WithWire(a, <<>>) = [first |-> TRUE, has |-> FALSE, data |-> <<>>,
                            out |-> IF a.has THEN Append(a.out, a.data) ELSE a.out]
  BY <1>10, EmptyIsPlain, WithWireIs
<1>13. (IF d.has THEN Append(r, d.data) ELSE r) = r \o ParseSseEvent(v) /\ r \o ParseSseEvent(v) \in Seq(Data)
  <2>1. d.data \in Data
    BY <1>5 DEF Joining
  <2>2. Append(r, d.data) = r \o <<d.data>> /\ r \o <<>> = r /\ Append(r, d.data) \in Seq(Data)
    BY <2>1
  <2>3. QED
    BY <1>3, <1>6, <2>2
<1>14. QED
  BY <1>9, <1>11, <1>12, <1>13 DEF AtRest
-----------------------------------------------------------------------------
\* The data of events.
Datas(out) == [k \in DOMAIN out |-> out[k].data]

\* There is one for each.
LEMMA DatasIs ==
    ASSUME NEW out \in Seq(Event)
    PROVE  /\ Datas(out) \in Seq(Data) /\ Len(Datas(out)) = Len(out)
           /\ \A k \in 1..Len(out) : Datas(out)[k] = out[k].data
<1> DEFINE f == [k \in 1..Len(out) |-> out[k].data]
<1>1. DOMAIN out = 1..Len(out) /\ Len(out) \in Nat
  OBVIOUS
<1>2. Datas(out) = f
  BY <1>1 DEF Datas
<1>3. ASSUME NEW k \in 1..Len(out) PROVE out[k].data \in Data
  <2>1. out[k] \in Event
    OBVIOUS
  <2>2. QED
    BY <2>1 DEF Event
<1>4. f \in [1..Len(out) -> Data] /\ \A k \in 1..Len(out) : f[k] = out[k].data
  BY <1>3
<1> HIDE DEF f
<1>5. f \in Seq(Data) /\ Len(f) = Len(out)
  BY <1>1, <1>4
<1>6. QED
  BY <1>2, <1>4, <1>5

LEMMA DatasOfNone == Datas(<<>>) = <<>>
<1>1. <<>> \in Seq(Event) /\ Len(<<>>) = 0
  OBVIOUS
<1>2. Datas(<<>>) \in Seq(Data) /\ Len(Datas(<<>>)) = 0
  BY <1>1, DatasIs
<1>3. QED
  BY <1>2

LEMMA DatasGrow ==
    ASSUME NEW out \in Seq(Event), NEW e \in Event
    PROVE  Datas(Append(out, e)) = Append(Datas(out), e.data)
<1> DEFINE x == Datas(Append(out, e))
           y == Append(Datas(out), e.data)
           m == Append(out, e)
<1>1. /\ m \in Seq(Event) /\ Len(m) = Len(out) + 1 /\ m[Len(out) + 1] = e /\ Len(out) \in Nat
      /\ \A k \in 1..Len(out) : m[k] = out[k]
  OBVIOUS
<1>2. /\ Datas(out) \in Seq(Data) /\ Len(Datas(out)) = Len(out) /\ e.data \in Data
      /\ \A k \in 1..Len(out) : Datas(out)[k] = out[k].data
  BY DatasIs DEF Event
<1>3. y \in Seq(Data) /\ Len(y) = Len(out) + 1 /\ y[Len(out) + 1] = e.data /\ \A k \in 1..Len(out) : y[k] = Datas(out)[k]
  BY <1>2
<1> HIDE DEF m
<1>4. x \in Seq(Data) /\ Len(x) = Len(m) /\ \A k \in 1..Len(m) : x[k] = m[k].data
  BY <1>1, DatasIs DEF m
<1> HIDE DEF x, y
<1>5. ASSUME NEW k \in 1..Len(x) PROVE x[k] = y[k]
  <2>1. CASE k = Len(out) + 1
    BY <1>1, <1>3, <1>4, <2>1
  <2>2. CASE k # Len(out) + 1
    <3>1. k \in 1..Len(out)
      BY <1>1, <1>4, <2>2
    <3>2. QED
      BY <1>1, <1>2, <1>3, <1>4, <3>1
  <2>3. QED
    BY <2>1, <2>2
<1>6. x = y
  BY <1>1, <1>3, <1>4, <1>5, SeqEqual
<1>7. QED
  BY <1>6 DEF x, y

\* The effect of a line on the data of an event, while it does not grow too large.
LEMMA DataIsRead ==
    ASSUME NEW p \in Reading, NEW line \in Seq(Alphabet), ProcessLine(p, line).state # "failed"
    PROVE  /\ line = <<>> => ProcessLine(p, line).has = FALSE /\ ProcessLine(p, line).data = <<>>
           /\ line # <<>> => [has |-> ProcessLine(p, line).has, data |-> ProcessLine(p, line).data]
                             = WithLine([has |-> p.has, data |-> p.data], line)
           /\ p.state # "failed" /\ (line = <<>> => Utf8(p.data))
<1> DEFINE r == ProcessLine(p, line)
           j == Joined(p.data, p.has, Tail(line))
<1>1. CASE line = <<>>
  <2>0. r = [p EXCEPT !.type = <<>>, !.data = <<>>, !.has = FALSE, !.state = IF Utf8(p.data) THEN p.state ELSE "failed"]
    BY <1>1 DEF ProcessLine
  <2>1. Utf8(p.data)
    BY <2>0 DEF Reading
  <2>2. r.has = FALSE /\ r.data = <<>> /\ r.state = p.state
    BY <2>0, <2>1 DEF Reading
  <2>3. QED
    BY <1>1, <2>1, <2>2
<1>2. CASE line # <<>> /\ Head(line) = "e"
  <2>0. ~Utf8(Tail(line)) => r = [p EXCEPT !.state = "failed"]
    BY <1>2 DEF ProcessLine
  <2>c. Utf8(Tail(line))
    BY <2>0 DEF Reading
  <2>1. r = [p EXCEPT !.type = Tail(line)] /\ ~IsData(line)
    BY <1>2, <2>c DEF ProcessLine, IsData
  <2>2. r.has = p.has /\ r.data = p.data /\ r.state = p.state
    BY <2>1 DEF Reading
  <2> HIDE DEF r
  <2>3. QED
    BY <1>2, <2>1, <2>2 DEF WithLine, r
<1>3. CASE line # <<>> /\ Head(line) # "e" /\ Head(line) # "d"
  BY <1>3 DEF ProcessLine, WithLine, IsData
<1>4. CASE line # <<>> /\ Head(line) = "d"
  <2>1. Len(j) > DataCap => r = [p EXCEPT !.state = "failed"]
    BY <1>4 DEF ProcessLine
  <2>2. ~(Len(j) > DataCap) => r = [p EXCEPT !.data = j, !.has = TRUE]
    BY <1>4 DEF ProcessLine
  <2>3. ~(Len(j) > DataCap)
    BY <2>1 DEF Reading
  <2>4. r.has = TRUE /\ r.data = j /\ r.state = p.state
    BY <2>2, <2>3 DEF Reading
  <2>5. WithLine([has |-> p.has, data |-> p.data], line) = [has |-> TRUE, data |-> j]
    BY <1>4 DEF WithLine, IsData
  <2> HIDE DEF r, j
  <2>6. QED
    BY <1>4, <2>4, <2>5 DEF r
<1>5. QED
  BY <1>1, <1>2, <1>3, <1>4
-----------------------------------------------------------------------------
\* One line, without the mark of its event, and what both parsers make of it.
LEMMA AgreeOnLine ==
    ASSUME NEW R \in Readings, NEW W \in Wired, NEW line \in Seq(Alphabet), NEW own \in Seq(Alphabet),
           own = (IF W.first THEN Stripped(line) ELSE line), own = <<>> /\ line # <<>> => R = Unread,
           W.has = R.p.has, W.data = R.p.data, W.out = Datas(R.out),
           ReadLine(R, own).p.state # "failed"
    PROVE  /\ WithWire(W, line).has = ReadLine(R, own).p.has /\ WithWire(W, line).data = ReadLine(R, own).p.data
           /\ WithWire(W, line).out = Datas(ReadLine(R, own).out)
           /\ WithWire(W, line).first = (line = <<>>)
<1> DEFINE N == ReadLine(R, own)
           V == WithWire(W, line)
           p == R.p
           e == WithLine([has |-> W.has, data |-> W.data], own)
<1>1. /\ p \in Reading /\ R.out \in Seq(Event) /\ p.has \in BOOLEAN /\ p.data \in Data /\ p.type \in Seq(Alphabet)
  <2>1. p \in Reading /\ R.out \in Seq(Event)
    BY DEF Readings
  <2> HIDE DEF p
  <2>2. QED
    BY <2>1 DEF Reading
<1>2. N.p = ProcessLine(p, own) /\ N.out = R.out \o Dispatched(p, own)
  <2>1. N = [p |-> ProcessLine(p, own), out |-> R.out \o Dispatched(p, own)]
    BY LineKinds
  <2> HIDE DEF N, p
  <2>2. QED
    BY <2>1
<1>3. /\ own = <<>> => N.p.has = FALSE /\ N.p.data = <<>>
      /\ own # <<>> => [has |-> N.p.has, data |-> N.p.data] = e
      /\ own # <<>> => Dispatched(p, own) = <<>>
      /\ own = <<>> => Utf8(p.data)
  <2>1. ProcessLine(p, own).state # "failed"
    BY <1>2
  <2>2. W.has = p.has /\ W.data = p.data
    OBVIOUS
  <2> HIDE DEF N, p
  <2>3. /\ own = <<>> => ProcessLine(p, own).has = FALSE /\ ProcessLine(p, own).data = <<>>
        /\ own # <<>> => [has |-> ProcessLine(p, own).has, data |-> ProcessLine(p, own).data]
                         = WithLine([has |-> p.has, data |-> p.data], own)
        /\ own = <<>> => Utf8(p.data)
    BY <1>1, <2>1, DataIsRead
  <2>4. own # <<>> => Dispatched(p, own) = <<>>
    BY <1>1, LineIsRead
  <2>5. QED
    BY <1>2, <2>2, <2>3, <2>4
<1>4. /\ line = <<>> => V = [first |-> TRUE, has |-> FALSE, data |-> <<>>,
                             out |-> IF W.has THEN Append(W.out, W.data) ELSE W.out]
      /\ line # <<>> => V = [first |-> FALSE, has |-> e.has, data |-> e.data, out |-> W.out]
  BY WithWireIs
<1>5. line = <<>> => own = <<>>
  BY EmptyIsPlain
<1>6. R.out \o <<>> = R.out
  BY <1>1
<1> HIDE DEF N, V, e
<1>7. CASE line = <<>>
  <2>1. V.first = TRUE /\ V.has = FALSE /\ V.data = <<>> /\ V.out = IF p.has THEN Append(Datas(R.out), p.data) ELSE Datas(R.out)
    BY <1>4, <1>7
  <2>2. N.out = IF p.has THEN Append(R.out, [type |-> p.type, data |-> p.data]) ELSE R.out
    <3> HIDE DEF p
    <3>1. [type |-> p.type, data |-> p.data] \in Event
      BY <1>1 DEF Event
    <3>2. Append(R.out, [type |-> p.type, data |-> p.data]) = R.out \o <<[type |-> p.type, data |-> p.data]>>
      BY <1>1, <3>1, SMTT(30)
    <3>3. QED
      BY <1>2, <1>3, <1>5, <1>6, <1>7, <3>2 DEF Dispatched
  <2>3. Datas(Append(R.out, [type |-> p.type, data |-> p.data])) = Append(Datas(R.out), p.data)
    <3> HIDE DEF p
    <3>0. [type |-> p.type, data |-> p.data] \in Event /\ [type |-> p.type, data |-> p.data].data = p.data
      BY <1>1 DEF Event
    <3>1. PICK ev \in Event : ev = [type |-> p.type, data |-> p.data] /\ ev.data = p.data
      BY <3>0, Zenon
    <3>2. QED
      BY <1>1, <3>1, DatasGrow
  <2>4. (line = <<>>) = TRUE
    BY <1>7
  <2> HIDE DEF p
  <2>5. QED
    BY <1>3, <1>5, <1>7, <2>1, <2>2, <2>3, <2>4 DEF N, V
<1>8. CASE line # <<>> /\ own = <<>>
  <2>1. R = Unread
    BY <1>8
  <2>2. p.has = FALSE /\ p.data = <<>> /\ R.out = <<>>
    BY <2>1 DEF Unread
  <2>3. e = [has |-> W.has, data |-> W.data]
    BY <1>8, EmptyIsPlain DEF WithLine, e
  <2>4. V.first = FALSE /\ V.has = W.has /\ V.data = W.data /\ V.out = W.out
    BY <1>4, <1>8, <2>3
  <2>5. Dispatched(p, own) = <<>>
    BY <1>8, <2>2 DEF Dispatched
  <2>6. (line = <<>>) = FALSE
    BY <1>8
  <2>7. QED
    BY <1>2, <1>3, <1>6, <1>8, <2>2, <2>4, <2>5, <2>6 DEF N, V
<1>9. CASE own # <<>>
  <2>1. (line = <<>>) = FALSE
    BY <1>5, <1>9
  <2>2. V.first = FALSE /\ V.has = e.has /\ V.data = e.data /\ V.out = W.out
    BY <1>4, <2>1
  <2>3. e.has = N.p.has /\ e.data = N.p.data
    BY <1>3, <1>9
  <2>4. N.out = R.out
    BY <1>2, <1>3, <1>6, <1>9
  <2>5. QED
    BY <2>1, <2>2, <2>3, <2>4 DEF N, V
<1>10. QED
  BY <1>7, <1>8, <1>9

\* No event but the first has a mark at its start.
NoLater(ls) == \A k \in 2..Len(ls) : ~(ls[k - 1] = <<>> /\ IsPrefix(Bom, ls[k]))

\* The reader takes the mark off the first line only, and still the two agree.
Agree(ls, R) ==
    /\ Wire(ls).has = R.p.has /\ Wire(ls).data = R.p.data /\ Wire(ls).out = Datas(R.out)
    /\ Wire(ls).first = (ls = <<>> \/ ls[Len(ls)] = <<>>)

\* Line by line, the HTTP parser has the data and the events' data of the reader.
LEMMA TheyAgree ==
    ASSUME NEW ls \in Seq(Seq(Alphabet)), NoLater(ls), ReadLines(StripFirst(ls)).p.state # "failed"
    PROVE  Agree(ls, ReadLines(StripFirst(ls)))
<1> DEFINE Rd(m) == ReadLines(StripFirst(m))
           Ok(m) == NoLater(m) /\ Rd(m).p.state # "failed" => Agree(m, Rd(m))
           S == {m \in Seq(Seq(Alphabet)) : Ok(m)}
<1>1. <<>> \in S
  <2>1. <<>> \in Seq(Seq(Alphabet))
    OBVIOUS
  <2>2. Rd(<<>>) = Unread /\ Wire(<<>>) = NoWire
    BY StripFirstOfNone, ReadLinesBegins, WireBegins
  <2>3. Agree(<<>>, Unread)
    <3>1. Unread.p.has = FALSE /\ Unread.p.data = <<>> /\ Unread.out = <<>>
      BY DEF Unread
    <3>2. NoWire.first = TRUE /\ NoWire.has = FALSE /\ NoWire.data = <<>> /\ NoWire.out = <<>>
      BY DEF NoWire
    <3>3. QED
      BY <2>2, <3>1, <3>2, DatasOfNone DEF Agree
  <2>4. QED
    BY <2>1, <2>2, <2>3
<1>2. ASSUME NEW m \in Seq(Seq(Alphabet)), NEW b \in Seq(Alphabet), m \in S PROVE Append(m, b) \in S
  <2> DEFINE x == Append(m, b)
             a == Wire(m)
             R == Rd(m)
             own == IF a.first THEN Stripped(b) ELSE b
  <2>0. x \in Seq(Seq(Alphabet)) /\ x # <<>> /\ x[Len(x)] = b
    <3>1. x \in Seq(Seq(Alphabet)) /\ Len(x) = Len(m) + 1 /\ x[Len(m) + 1] = b
      OBVIOUS
    <3>2. x # <<>>
      BY AppendFull
    <3> HIDE DEF x
    <3>3. QED
      BY <3>1, <3>2
  <2>1. SUFFICES ASSUME NoLater(x), Rd(x).p.state # "failed" PROVE Agree(x, Rd(x))
    BY <2>0
  <2>2. NoLater(m) /\ (m # <<>> => ~(m[Len(m)] = <<>> /\ IsPrefix(Bom, b)))
    <3>1. Len(x) = Len(m) + 1 /\ x[Len(m) + 1] = b /\ Len(m) \in Nat /\ \A k \in 1..Len(m) : x[k] = m[k]
      OBVIOUS
    <3> HIDE DEF x
    <3>2. \A k \in 2..Len(x) : ~(x[k - 1] = <<>> /\ IsPrefix(Bom, x[k]))
      BY <2>1 DEF NoLater, x
    <3>3. ASSUME NEW k \in 2..Len(m) PROVE ~(m[k - 1] = <<>> /\ IsPrefix(Bom, m[k]))
      <4>0. k \in 1..Len(m) /\ k - 1 \in 1..Len(m)
        BY <3>1
      <4>1. k \in 2..Len(x) /\ x[k] = m[k] /\ x[k - 1] = m[k - 1]
        <5>1. k \in 2..Len(x)
          BY ONLY <3>1, k \in 2..Len(m)
        <5>2. x[k] = m[k] /\ x[k - 1] = m[k - 1]
          BY ONLY <3>1, <4>0, Zenon
        <5>3. QED
          BY ONLY <5>1, <5>2, Zenon
      <4>2. QED
        BY <3>2, <4>1
    <3>4. ASSUME m # <<>> PROVE ~(m[Len(m)] = <<>> /\ IsPrefix(Bom, b))
      <4>0. Len(m) \in 1..Len(m)
        BY <3>1, <3>4
      <4>1. Len(m) + 1 \in 2..Len(x) /\ x[Len(m)] = m[Len(m)] /\ Len(m) + 1 - 1 = Len(m)
        BY <3>1, <4>0
      <4>2. ~(x[Len(m) + 1 - 1] = <<>> /\ IsPrefix(Bom, x[Len(m) + 1]))
        BY <3>2, <4>1
      <4>3. QED
        BY <3>1, <4>1, <4>2
    <3>5. QED
      BY <3>3, <3>4 DEF NoLater
  <2>3. StripFirst(m) \in Seq(Seq(Alphabet)) /\ own \in Seq(Alphabet) /\ R \in Readings /\ a \in Wired
    BY StripFirstIs, StrippedIs, ReadLinesTyped, WireTyped
  <2>4. a.first = (m = <<>> \/ m[Len(m)] = <<>>) \/ R.p.state = "failed"
    BY <1>2, <2>2 DEF Agree
  <2>5. m # <<>> => own = b \/ R.p.state = "failed"
    <3>1. ASSUME m # <<>>, a.first, R.p.state # "failed" PROVE Stripped(b) = b
      <4>1. m[Len(m)] = <<>>
        BY <2>4, <3>1
      <4>2. ~IsPrefix(Bom, b)
        BY <2>2, <3>1, <4>1
      <4>3. QED
        BY <4>2 DEF Stripped
    <3>2. QED
      BY <3>1
  <2>6. R.p.state = "failed" \/ StripFirst(x) = Append(StripFirst(m), own)
    <3>1. CASE m = <<>> /\ R.p.state # "failed"
      <4>1. x = <<b>> /\ a.first
        <5>1. x = <<b>>
          BY <3>1
        <5> HIDE DEF x, a, R
        <5>2. QED
          BY <2>4, <3>1, <5>1
      <4>2. StripFirst(m) = <<>> /\ StripFirst(<<b>>) = <<Stripped(b)>>
        BY <3>1, StripFirstOfOne, StripFirstOfNone
      <4>3. own = Stripped(b)
        BY <4>1
      <4> HIDE DEF x, own
      <4>4. QED
        BY <4>1, <4>2, <4>3
    <3>2. CASE m # <<>> /\ R.p.state # "failed"
      <4>1. own = b
        BY <2>5, <3>2
      <4>2. StripFirst(x) = Append(StripFirst(m), b)
        BY <3>2, StripFirstGrows
      <4>3. QED
        BY <4>1, <4>2
    <3>3. QED
      BY <3>1, <3>2
  <2>7. R.p.state # "failed"
    <3>1. SUFFICES ASSUME R.p.state = "failed" PROVE FALSE
      OBVIOUS
    <3>2. PICK y \in Seq(Alphabet) : StripFirst(x) = Append(StripFirst(m), y)
      <4>1. CASE m = <<>>
        <5>1. R = Unread
          BY <4>1, StripFirstOfNone, ReadLinesBegins
        <5>2. QED
          BY <3>1, <5>1 DEF Unread
      <4>2. CASE m # <<>>
        BY <4>2, StripFirstGrows
      <4>3. QED
        BY <4>1, <4>2
    <3>3. Rd(x) = ReadLine(R, y)
      BY <2>3, <3>2, ReadLinesGrows
    <3>4. ReadLine(R, y).p.state = "failed"
      <4> HIDE DEF R
      <4>1. QED
        BY <2>3, <3>1, LineKinds
    <3>5. QED
      BY <2>1, <3>3, <3>4
  <2>8. Rd(x) = ReadLine(R, own) /\ Wire(x) = WithWire(a, b)
    <3>1. StripFirst(x) = Append(StripFirst(m), own)
      BY <2>6, <2>7
    <3> HIDE DEF own, x
    <3>2. Rd(x) = ReadLine(R, own)
      BY <2>3, <3>1, ReadLinesGrows
    <3>3. Wire(x) = WithWire(a, b)
      BY WireGrows DEF x
    <3>4. QED
      BY <3>2, <3>3
  <2>9. a.has = R.p.has /\ a.data = R.p.data /\ a.out = Datas(R.out)
    BY <1>2, <2>2, <2>7 DEF Agree
  <2>10. own = <<>> /\ b # <<>> => R = Unread
    <3>1. m # <<>> => own = b
      BY <2>5, <2>7
    <3>2. m = <<>> => R = Unread
      BY StripFirstOfNone, ReadLinesBegins
    <3>3. QED
      BY <3>1, <3>2
  <2>11. own = IF a.first THEN Stripped(b) ELSE b
    OBVIOUS
  <2>12. ReadLine(R, own).p.state # "failed"
    BY <2>1, <2>8
  <2> HIDE DEF x, a, R, own
  <2>13. /\ WithWire(a, b).has = ReadLine(R, own).p.has /\ WithWire(a, b).data = ReadLine(R, own).p.data
         /\ WithWire(a, b).out = Datas(ReadLine(R, own).out)
         /\ WithWire(a, b).first = (b = <<>>)
    BY <2>3, <2>9, <2>10, <2>11, <2>12, AgreeOnLine
  <2>14. (x = <<>> \/ x[Len(x)] = <<>>) = (b = <<>>)
    BY <2>0 DEF x
  <2>15. QED
    BY <2>8, <2>13, <2>14 DEF Agree, x
<1>3. ls \in S
  <2> HIDE DEF S
  <2>1. QED
    BY <1>1, <1>2, EverySequence
<1>4. QED
  BY <1>3

\* The lines of a stream, the last of which is ended too.
Closed(s) == IF Cut(s).last = <<>> THEN Lines(s) ELSE Append(Lines(s), <<>>)

\* A blank line is marked by nothing.
LEMMA NoLaterThanEnd ==
    ASSUME NEW ls \in Seq(Seq(Alphabet)), NoLater(ls)
    PROVE  NoLater(Append(ls, <<>>))
<1> DEFINE x == Append(ls, <<>>)
<1>1. /\ Len(x) = Len(ls) + 1 /\ x[Len(ls) + 1] = <<>> /\ Len(ls) \in Nat
      /\ \A k \in 1..Len(ls) : x[k] = ls[k]
  BY EmptyIsPlain
<1>2. ~IsPrefix(Bom, <<>>)
  <2>1. ~(Len(<<>>) >= 2)
    OBVIOUS
  <2>2. QED
    BY <2>1, EmptyIsPlain, Marked
<1> HIDE DEF x
<1>3. ASSUME NEW k \in 2..Len(x) PROVE ~(x[k - 1] = <<>> /\ IsPrefix(Bom, x[k]))
  <2>1. CASE k = Len(ls) + 1
    BY <1>1, <1>2, <2>1
  <2>2. CASE k # Len(ls) + 1
    <3>1. k \in 2..Len(ls) /\ k \in 1..Len(ls) /\ k - 1 \in 1..Len(ls)
      BY <1>1, <2>2
    <3>2. x[k] = ls[k] /\ x[k - 1] = ls[k - 1]
      BY <1>1, <3>1
    <3>3. QED
      BY <3>1, <3>2 DEF NoLater
  <2>3. QED
    BY <2>1, <2>2
<1>4. QED
  BY <1>3 DEF NoLater, x

\* Of a whole stream both parsers make the same data.
LEMMA StreamAgrees ==
    ASSUME NEW s \in Seq(Alphabet), NoLater(Lines(s)), Whole(s).p.state # "failed"
    PROVE  Wire(Closed(s)).out = Datas(Whole(s).out)
<1> DEFINE t == Stripped(s)
           L == Lines(s)
           T == StripFirst(L)
<1>1. t \in Seq(Alphabet) /\ Lines(t) = T
  BY StrippedIs, LinesStripped
<1>2. L \in Seq(Seq(Alphabet)) /\ Len(L) >= 1 /\ Len(L) \in Nat /\ L # <<>>
  <2>2. Cut(s).ended \in Seq(Seq(Alphabet)) /\ Cut(s).last \in Seq(Alphabet) /\ L = Append(Cut(s).ended, Cut(s).last)
    BY ReadOfTyped DEF Lines
  <2>3. L \in Seq(Seq(Alphabet)) /\ L # <<>>
    BY <2>2, AppendFull
  <2> HIDE DEF L
  <2>4. QED
    BY <2>3
<1>3. Cut(t).ended \in Seq(Seq(Alphabet)) /\ Cut(t).last \in Seq(Alphabet) /\ T = Append(Cut(t).ended, Cut(t).last)
  BY <1>1, ReadOfTyped DEF Lines
<1>4. L[Len(L)] = Cut(s).last
  <2>1. PICK e \in Seq(Seq(Alphabet)), l \in Seq(Alphabet) : e = Cut(s).ended /\ l = Cut(s).last
    BY ReadOfTyped
  <2>2. L = Append(e, l)
    BY <2>1 DEF Lines
  <2> HIDE DEF L
  <2>3. QED
    BY <2>1, <2>2
<1>5. WithWire(Wire(L), <<>>) = [first |-> TRUE, has |-> FALSE, data |-> <<>>,
                                 out |-> IF Wire(L).has THEN Append(Wire(L).out, Wire(L).data) ELSE Wire(L).out]
  BY <1>2, WireTyped, EmptyIsPlain, WithWireIs
<1>6. Wire(Append(L, <<>>)) = WithWire(Wire(L), <<>>)
  BY <1>2, EmptyIsPlain, WireGrows
<1>7. T \in Seq(Seq(Alphabet))
  BY <1>2, StripFirstIs
<1>w. /\ Cut(t).last = <<>> => Whole(s) = ReadLine(ReadLines(Cut(t).ended), <<>>)
      /\ Cut(t).last # <<>> => Whole(s) = ReadLine(ReadLine(ReadLines(Cut(t).ended), Cut(t).last), <<>>)
  BY WholeIs DEF ReadOf
<1>8. CASE Cut(t).last = <<>>
  <2>1. Whole(s) = ReadLines(T)
    <3>1. ReadLines(T) = ReadLine(ReadLines(Cut(t).ended), <<>>)
      BY <1>3, <1>8, EmptyIsPlain, ReadLinesGrows
    <3>2. QED
      BY <1>8, <1>w, <3>1
  <2>2. Agree(L, Whole(s))
    BY <1>2, <2>1, TheyAgree
  <2>3. Wire(L).out = Datas(Whole(s).out) /\ Wire(L).has = Whole(s).p.has
    BY <2>2 DEF Agree
  <2>4. Whole(s).p.has = FALSE
    <3>1. PICK R \in Readings : R = ReadLines(Cut(t).ended)
      BY <1>3, ReadLinesTyped
    <3>2. ReadLine(R, <<>>).p.state # "failed" /\ Whole(s) = ReadLine(R, <<>>)
      BY <1>8, <1>w, <3>1
    <3>3. ReadLine(R, <<>>) = [p |-> ProcessLine(R.p, <<>>), out |-> R.out \o Dispatched(R.p, <<>>)]
      BY <3>2, EmptyIsPlain, LineKinds
    <3>4. ReadLine(R, <<>>).p = ProcessLine(R.p, <<>>)
      BY <3>3
    <3>5. R.p \in Reading
      BY DEF Readings
    <3>6. QED
      BY <3>2, <3>4, <3>5, EmptyIsPlain, DataIsRead
  <2>5. Wire(Append(L, <<>>)).out = Wire(L).out
    BY <1>5, <1>6, <2>3, <2>4
  <2>6. QED
    BY <2>3, <2>5 DEF Closed
<1>9. CASE Cut(t).last # <<>>
  <2>1. StripFirst(Append(L, <<>>)) = Append(T, <<>>)
    BY <1>2, EmptyIsPlain, StripFirstGrows
  <2>2. Whole(s) = ReadLines(Append(T, <<>>))
    <3>1. ReadLines(T) = ReadLine(ReadLines(Cut(t).ended), Cut(t).last)
      BY <1>3, ReadLinesGrows
    <3>2. ReadLines(Append(T, <<>>)) = ReadLine(ReadLines(T), <<>>)
      BY <1>7, EmptyIsPlain, ReadLinesGrows
    <3>3. QED
      BY <1>9, <1>w, <3>1, <3>2
  <2>3. NoLater(Append(L, <<>>)) /\ Append(L, <<>>) \in Seq(Seq(Alphabet))
    BY <1>2, EmptyIsPlain, NoLaterThanEnd, AppendFull
  <2>4. Agree(Append(L, <<>>), Whole(s))
    BY <2>1, <2>2, <2>3, TheyAgree
  <2>5. Wire(Append(L, <<>>)).out = Datas(Whole(s).out)
    BY <2>4 DEF Agree
  <2>6. Cut(s).last # <<>>
    <3>1. SUFFICES ASSUME Cut(s).last = <<>> PROVE FALSE
      OBVIOUS
    <3>2. Len(L) \in 1..Len(L) /\ L[Len(L)] = <<>>
      BY <1>2, <1>4, <3>1
    <3>3. T[Len(L)] = IF Len(L) = 1 THEN Stripped(L[1]) ELSE L[Len(L)]
      BY <1>2, <3>2, StripFirstIs
    <3>4. T[Len(L)] = <<>>
      BY <3>2, <3>3, EmptyIsPlain
    <3>5. Len(T) = Len(L)
      BY <1>2, StripFirstIs
    <3>6. T[Len(T)] = Cut(t).last
      <4>1. PICK e \in Seq(Seq(Alphabet)), l \in Seq(Alphabet) : T = Append(e, l) /\ l = Cut(t).last
        BY <1>3
      <4> HIDE DEF T, t
      <4>2. QED
        BY <4>1
    <3>7. QED
      BY <1>9, <3>4, <3>5, <3>6
  <2>7. QED
    BY <2>5, <2>6 DEF Closed
<1>10. QED
  BY <1>8, <1>9
-----------------------------------------------------------------------------
\* What follows x is no LF that belongs to its last byte.
Unbroken(x, y) == x # <<>> /\ x[Len(x)] = "CR" => IF y # <<>> THEN y[1] # "LF" ELSE over

\* Where the scan is: u was scanned to its last blank line, v is the lines of an event after
\* that, w the part of a line it has looked at, and rest is ahead.
ScanAt(u, v, w, rest) ==
    /\ u \in Seq(Alphabet) /\ v \in Seq(Alphabet) /\ w \in Seq(Alphabet) /\ rest \in Seq(Alphabet)
    /\ sent = (u \o v) \o (w \o rest)
    /\ scan.event = Len(u) + 1 /\ scan.line = Len(u) + Len(v) + 1 /\ scan.at = Len(u) + Len(v) + Len(w) + 1
    /\ Cut(u).last = <<>> /\ Cut(v).last = <<>> /\ Full(Cut(v).ended) /\ NoBreak(w)
    /\ Unbroken(u, v \o (w \o rest)) /\ Unbroken(u \o v, w \o rest)
    /\ found \in Seq(Data) /\ AtRest(Wire(Cut(u).ended), found)

\* What the scan keeps.
Offsets == [event : Nat, line : Nat, at : Nat, refused : BOOLEAN]

\* The scan is somewhere in the stream, until it has made the data of all of it or
\* refused it.
ScanInv ==
    /\ sent \in Seq(Alphabet) /\ over \in BOOLEAN /\ scanned \in BOOLEAN
    /\ scan \in Offsets
    /\ 1 <= scan.event /\ scan.event <= scan.line /\ scan.line <= scan.at
    /\ ~(over /\ scanned) => \E u, v, w, rest : ScanAt(u, v, w, rest)
    /\ over /\ scanned /\ ~scan.refused => found = Wire(Closed(sent)).out

\* Where the scan is says what its offsets are.
LEMMA ScanIsTyped ==
    ASSUME NEW u, NEW v, NEW w, NEW rest, ScanAt(u, v, w, rest)
    PROVE  1 <= scan.event /\ scan.event <= scan.line /\ scan.line <= scan.at
<1>1. Len(u) \in Nat /\ Len(v) \in Nat /\ Len(w) \in Nat
  BY DEF ScanAt
<1>2. scan.event = Len(u) + 1 /\ scan.line = Len(u) + Len(v) + 1 /\ scan.at = Len(u) + Len(v) + Len(w) + 1
  BY DEF ScanAt
<1>3. QED
  BY <1>1, <1>2

\* What is no part of an event is nothing.
LEMMA NothingIsParsed == ParseSseEvent(<<>>) = <<>>
<1>1. Len(Bom) + 1 = 3
  BY DEF Bom
<1>2. PICK all : all = DataOf(Lines(Stripped(<<>>)))
  OBVIOUS
<1>3. ParseSseEvent(<<>>) = IF all.has THEN <<all.data>> ELSE <<>>
  BY <1>1, <1>2 DEF ParseSseEvent, Stripped
<1>4. Cut(<<>>).ended = <<>> /\ Cut(<<>>).last = <<>>
  BY CutBegins
<1>5. Lines(<<>>) = Append(<<>>, <<>>)
  BY <1>4 DEF Lines
<1>6. <<>> \in Seq(Seq(Alphabet))
  OBVIOUS
<1>7. DataOf(Append(<<>>, <<>>)) = WithLine(DataOf(<<>>), <<>>)
  BY <1>6, EmptyIsPlain, DataOfGrows
<1>8. all = [has |-> FALSE, data |-> <<>>]
  BY <1>2, <1>5, <1>7, EmptyIsPlain, DataOfBegins DEF WithLine
<1>9. all.has = FALSE
  BY <1>8
<1>10. QED
  BY <1>3, <1>9

\* The scan begins before the first byte.
LEMMA ScanBegins == StreamInit => ScanInv
<1> SUFFICES ASSUME StreamInit PROVE ScanInv
  OBVIOUS
<1>1. /\ sent = <<>> /\ over = FALSE /\ scanned = TRUE /\ scan = [event |-> 1, line |-> 1, at |-> 1, refused |-> FALSE] /\ found = <<>>
      /\ scan.event = 1 /\ scan.line = 1 /\ scan.at = 1
  BY DEF StreamInit
<1>2. <<>> \in Seq(Alphabet) /\ <<>> \in Seq(Data) /\ Len(<<>>) = 0 /\ <<>> \o <<>> = <<>>
  OBVIOUS
<1>3. Cut(<<>>).ended = <<>> /\ Cut(<<>>).last = <<>>
  BY CutBegins
<1>4. Full(<<>>) /\ NoBreak(<<>>)
  BY <1>2 DEF Full, NoBreak
<1>5. Unbroken(<<>>, <<>>)
  BY DEF Unbroken
<1>6. AtRest(Wire(<<>>), <<>>)
  BY WireBegins DEF NoWire, AtRest
<1>7. ScanAt(<<>>, <<>>, <<>>, <<>>)
  BY <1>1, <1>2, <1>3, <1>4, <1>5, <1>6 DEF ScanAt
<1>8. scan \in Offsets /\ sent \in Seq(Alphabet)
  BY <1>1, <1>2 DEF Offsets
<1>9. \E u, v, w, rest : ScanAt(u, v, w, rest)
  BY <1>7
<1>10. over \in BOOLEAN /\ scanned \in BOOLEAN /\ ~over
  BY <1>1, Zenon
<1>11. 1 <= scan.event /\ scan.event <= scan.line /\ scan.line <= scan.at
  BY <1>1
<1>12. QED
  BY <1>8, <1>9, <1>10, <1>11, Zenon DEF ScanInv

\* A line break, of one byte or two, and where it leads.
LEMMA BreakIs ==
    ASSUME NEW t \in Seq(Alphabet), NEW rest \in Seq(Alphabet), sent = t \o rest, rest # <<>>, rest[1] \in Breaks,
           over \in BOOLEAN, ~Undecided(Len(t) + 1)
    PROVE  \E brk, r \in Seq(Alphabet) :
              /\ rest = brk \o r /\ AfterBreak(Len(t) + 1) = Len(t) + 1 + Len(brk)
              /\ \A y \in Seq(Alphabet) : Unbroken(y \o brk, r) /\ Cut(y \o brk) = Cut(Append(y, rest[1]))
<1> DEFINE b == rest[1]
           r1 == Tail(rest)
<1>1. /\ b \in Alphabet /\ r1 \in Seq(Alphabet) /\ rest = <<b>> \o r1 /\ Len(rest) = Len(r1) + 1 /\ <<b>> \in Seq(Alphabet)
      /\ Len(r1) \in Nat /\ Len(t) \in Nat /\ Len(<<b>>) = 1
  OBVIOUS
<1>2. /\ Len(sent) = Len(t) + 1 + Len(r1) /\ sent[Len(t) + 1] = b
      /\ r1 # <<>> => sent[Len(t) + 2] = r1[1]
  <2>1. Len(sent) = Len(t) + Len(rest) /\ sent[Len(t) + 1] = rest[1]
    OBVIOUS
  <2>2. Len(rest) >= 2 => sent[Len(t) + 2] = rest[2]
    OBVIOUS
  <2>3. r1 # <<>> => Len(rest) >= 2 /\ rest[2] = r1[1]
    BY <1>1
  <2>4. QED
    BY <1>1, <2>1, <2>2, <2>3
<1> HIDE DEF r1
<1>3. CASE b = "CR" /\ r1 # <<>> /\ r1[1] = "LF"
  <2> DEFINE brk == <<b, r1[1]>>
             r == Tail(r1)
  <2>1. r1[1] \in Alphabet /\ brk \in Seq(Alphabet) /\ r \in Seq(Alphabet) /\ rest = brk \o r /\ Len(brk) = 2 /\ Len(r1) >= 1
    <3>1. r1[1] \in Alphabet /\ r \in Seq(Alphabet) /\ r1 = <<r1[1]>> \o r /\ Len(r1) >= 1
      BY <1>1, <1>3
    <3>2. <<b>> \o (<<r1[1]>> \o r) = brk \o r
      BY <1>1, <3>1
    <3>3. brk \in Seq(Alphabet) /\ Len(brk) = 2
      BY <1>1, <3>1
    <3>4. QED
      BY <1>1, <3>1, <3>2, <3>3
  <2>2. AfterBreak(Len(t) + 1) = Len(t) + 1 + Len(brk)
    <3>1. Len(t) + 1 < Len(sent) /\ sent[Len(t) + 1] = "CR" /\ sent[Len(t) + 1 + 1] = "LF"
      BY <1>1, <1>2, <1>3, <2>1
    <3>2. AfterBreak(Len(t) + 1) = Len(t) + 1 + 2
      BY <3>1 DEF AfterBreak
    <3>3. QED
      BY <2>1, <3>2
  <2>3. ASSUME NEW y \in Seq(Alphabet) PROVE Unbroken(y \o brk, r) /\ Cut(y \o brk) = Cut(Append(y, b))
    <3> DEFINE z == Append(y, b)
    <3>1. z \in Seq(Alphabet) /\ z # <<>> /\ z[Len(z)] = b
      <4>1. <<>> \in Seq(Alphabet)
        OBVIOUS
      <4>2. QED
        BY <1>1, <4>1, JoinOne
    <3>2. y \o brk = Append(z, r1[1])
      <4>1. PICK c \in Alphabet, d \in Alphabet : c = b /\ d = r1[1]
        BY <1>1, <2>1
      <4>2. y \o <<c, d>> = Append(Append(y, c), d)
        OBVIOUS
      <4>3. QED
        BY <4>1, <4>2
    <3> HIDE DEF z
    <3>3. MidBreak(z, r1[1])
      BY <1>3, <3>1 DEF MidBreak
    <3>4. Cut(Append(z, r1[1])) = Cut(z)
      BY <2>1, <3>1, <3>3, CutCases
    <3>5. Append(z, r1[1])[Len(Append(z, r1[1]))] = "LF"
      BY <1>3, <2>1, <3>1
    <3>6. Unbroken(Append(z, r1[1]), r)
      BY <3>5 DEF Unbroken
    <3>7. QED
      BY <3>2, <3>4, <3>6 DEF z
  <2> HIDE DEF brk, r, b
  <2>4. QED
    BY <2>1, <2>2, <2>3 DEF b
<1>4. CASE ~(b = "CR" /\ r1 # <<>> /\ r1[1] = "LF")
  <2>1. AfterBreak(Len(t) + 1) = Len(t) + 1 + Len(<<b>>)
    <3>1. ~(sent[Len(t) + 1] = "CR" /\ Len(t) + 1 < Len(sent) /\ sent[Len(t) + 1 + 1] = "LF")
      BY <1>1, <1>2, <1>4
    <3>2. AfterBreak(Len(t) + 1) = Len(t) + 1 + 1
      BY <3>1 DEF AfterBreak
    <3>3. QED
      BY <1>1, <3>2
  <2>2. b = "CR" => IF r1 # <<>> THEN r1[1] # "LF" ELSE over
    <3>1. b = "CR" /\ r1 = <<>> => Len(t) + 1 = Len(sent)
      BY <1>1, <1>2
    <3>2. b = "CR" /\ r1 = <<>> => over
      BY <1>2, <3>1 DEF Undecided
    <3>3. QED
      BY <1>4, <3>2
  <2>3. ASSUME NEW y \in Seq(Alphabet) PROVE Unbroken(y \o <<b>>, r1) /\ Cut(y \o <<b>>) = Cut(Append(y, b))
    <3>1. y \o <<b>> = Append(y, b)
      BY <1>1
    <3>2. Append(y, b)[Len(Append(y, b))] = b
      <4>1. <<>> \in Seq(Alphabet)
        OBVIOUS
      <4>2. QED
        BY <1>1, <4>1, JoinOne
    <3>3. Unbroken(Append(y, b), r1)
      BY <2>2, <3>2 DEF Unbroken
    <3>4. QED
      BY <3>1, <3>3
  <2> HIDE DEF b
  <2>4. QED
    BY <1>1, <2>1, <2>3 DEF b
<1>5. QED
  BY <1>3, <1>4

\* Sequences that are put together in another order.
InTurn(s, t, u) == s \o (t \o u) = (s \o t) \o u

\* ... and so are these.
LEMMA JoinBytes ==
    ASSUME NEW s \in Seq(Alphabet), NEW t \in Seq(Alphabet), NEW u \in Seq(Alphabet)
    PROVE  InTurn(s, t, u)
BY JoinThree DEF InTurn

LEMMA BytesJoined ==
    ASSUME NEW s \in Seq(Alphabet), NEW t \in Seq(Alphabet)
    PROVE  s \o t \in Seq(Alphabet)
OBVIOUS

\* The parts of a stream, when the last is longer by c ...
LongerBy(u, v, w, r, c) ==
    /\ ((u \o v) \o (w \o r)) \o c = (u \o v) \o (w \o (r \o c))
    /\ (v \o (w \o r)) \o c = v \o (w \o (r \o c)) /\ (w \o r) \o c = w \o (r \o c)
    /\ (u \o v) \o (w \o r) = ((u \o v) \o w) \o r
    /\ r \o c \in Seq(Alphabet) /\ (u \o v) \o w \in Seq(Alphabet)
    /\ v \o (w \o r) \in Seq(Alphabet) /\ w \o r \in Seq(Alphabet) /\ u \o v \in Seq(Alphabet)

LEMMA RegroupChunk ==
    ASSUME NEW u \in Seq(Alphabet), NEW v \in Seq(Alphabet), NEW w \in Seq(Alphabet), NEW r \in Seq(Alphabet),
           NEW c \in Seq(Alphabet)
    PROVE  LongerBy(u, v, w, r, c)
<1>1. r \o c \in Seq(Alphabet) /\ w \o r \in Seq(Alphabet) /\ u \o v \in Seq(Alphabet)
  BY BytesJoined, Zenon
<1>2. PICK wr \in Seq(Alphabet) : wr = w \o r
  BY <1>1, Zenon
<1>3. PICK uv \in Seq(Alphabet) : uv = u \o v
  BY <1>1, Zenon
<1>4. InTurn(w, r, c)
  BY JoinBytes, Zenon
<1>5. InTurn(v, wr, c)
  BY JoinBytes, Zenon
<1>6. InTurn(uv, wr, c)
  BY JoinBytes, Zenon
<1>7. InTurn(uv, w, r)
  BY JoinBytes, Zenon
<1>8. uv \o w \in Seq(Alphabet) /\ v \o wr \in Seq(Alphabet)
  BY BytesJoined, Zenon
<1>9. QED
  BY <1>1, <1>2, <1>3, <1>4, <1>5, <1>6, <1>7, <1>8, Zenon DEF InTurn, LongerBy

\* ... and when a break k comes between the line w and the rest.
PastBreak(u, v, w, k, r) ==
    /\ ((v \o w) \o k) \o (<<>> \o r) = v \o (w \o (k \o r)) /\ u \o ((v \o w) \o k) = (u \o (v \o w)) \o k
    /\ (u \o ((v \o w) \o k)) \o (<<>> \o r) = (u \o v) \o (w \o (k \o r))
    /\ v \o (k \o r) = ((v \o k) \o <<>>) \o (<<>> \o r) /\ (v \o k) \o <<>> = v \o k

LEMMA RegroupLine ==
    ASSUME NEW u \in Seq(Alphabet), NEW v \in Seq(Alphabet), NEW w \in Seq(Alphabet), NEW k \in Seq(Alphabet),
           NEW r \in Seq(Alphabet)
    PROVE  PastBreak(u, v, w, k, r)
<1>1. k \o r \in Seq(Alphabet) /\ v \o w \in Seq(Alphabet) /\ v \o k \in Seq(Alphabet)
  BY BytesJoined, Zenon
<1>2. PICK kr \in Seq(Alphabet) : kr = k \o r
  BY <1>1, Zenon
<1>3. PICK vw \in Seq(Alphabet) : vw = v \o w
  BY <1>1, Zenon
<1>4. PICK vk \in Seq(Alphabet) : vk = v \o k
  BY <1>1, Zenon
<1>5. <<>> \o r = r /\ vk \o <<>> = vk
  OBVIOUS
<1>6. w \o kr \in Seq(Alphabet) /\ vw \o k \in Seq(Alphabet)
  BY BytesJoined, Zenon
<1>7. PICK wkr \in Seq(Alphabet) : wkr = w \o kr
  BY <1>6, Zenon
<1>8. PICK vwk \in Seq(Alphabet) : vwk = vw \o k
  BY <1>6, Zenon
<1>9. InTurn(vw, k, r)
  BY JoinBytes, Zenon
<1>10. InTurn(v, k, r)
  BY JoinBytes, Zenon
<1>11. InTurn(v, w, kr)
  BY JoinBytes, Zenon
<1>12. InTurn(u, vw, k)
  BY JoinBytes, Zenon
<1>13. InTurn(u, vwk, r)
  BY JoinBytes, Zenon
<1>14. InTurn(u, v, wkr)
  BY JoinBytes, Zenon
<1>15. vwk \o r = v \o wkr
  BY ONLY <1>2, <1>3, <1>7, <1>8, <1>9, <1>11, Zenon DEF InTurn
<1>16. (u \o vwk) \o r = (u \o v) \o wkr
  BY ONLY <1>13, <1>14, <1>15, Zenon DEF InTurn
<1>17. /\ ((v \o w) \o k) \o (<<>> \o r) = v \o (w \o (k \o r))
       /\ (u \o ((v \o w) \o k)) \o (<<>> \o r) = (u \o v) \o (w \o (k \o r))
  BY ONLY <1>2, <1>3, <1>5, <1>7, <1>8, <1>15, <1>16, Zenon
<1>18. u \o ((v \o w) \o k) = (u \o (v \o w)) \o k
  BY ONLY <1>3, <1>12, Zenon DEF InTurn
<1>19. v \o (k \o r) = ((v \o k) \o <<>>) \o (<<>> \o r) /\ (v \o k) \o <<>> = v \o k
  BY ONLY <1>4, <1>5, <1>10, Zenon DEF InTurn
<1>20. QED
  BY ONLY <1>17, <1>18, <1>19, Zenon DEF PastBreak

\* A chunk is ahead of the scan; the byte it was waiting for comes with it.
LEMMA ScanChunk ==
    ASSUME ScanInv, NEW n \in 1..StreamCap, NEW c \in [1..n -> Alphabet], Chunk(c)
    PROVE  ScanInv'
<1>1. /\ ~over /\ sent' = sent \o c /\ scanned' = FALSE /\ over' = over /\ scan' = scan /\ found' = found
  BY DEF Chunk
<1>2. c \in Seq(Alphabet)
  BY StreamAssumption
<1>3. PICK u, v, w, rest : ScanAt(u, v, w, rest)
  BY <1>1 DEF ScanInv
<1>4. u \in Seq(Alphabet) /\ v \in Seq(Alphabet) /\ w \in Seq(Alphabet) /\ rest \in Seq(Alphabet)
  BY <1>3 DEF ScanAt
<1>r. LongerBy(u, v, w, rest, c)
  BY <1>2, <1>4, RegroupChunk
<1>5. PICK more \in Seq(Alphabet) : more = rest \o c
  <2>1. rest \o c \in Seq(Alphabet)
    BY ONLY <1>r, Zenon DEF LongerBy
  <2>2. QED
    BY <2>1, Zenon
<1>6. sent' = (u \o v) \o (w \o more)
  <2>1. sent = (u \o v) \o (w \o rest)
    BY <1>3 DEF ScanAt
  <2>2. ((u \o v) \o (w \o rest)) \o c = (u \o v) \o (w \o (rest \o c))
    BY ONLY <1>r, Zenon DEF LongerBy
  <2>3. QED
    BY <1>1, <1>5, <2>1, <2>2
<1>7. ASSUME NEW x \in Seq(Alphabet), NEW y \in Seq(Alphabet), Unbroken(x, y)
      PROVE  Unbroken(x, y \o c)'
  <2>1. y # <<>> => y \o c # <<>> /\ (y \o c)[1] = y[1]
    BY <1>2
  <2>2. QED
    BY <1>1, <1>7, <2>1 DEF Unbroken
<1>8. Unbroken(u, v \o (w \o more))' /\ Unbroken(u \o v, w \o more)'
  <2>1. Unbroken(u, v \o (w \o rest)) /\ Unbroken(u \o v, w \o rest)
    BY <1>3 DEF ScanAt
  <2>2. /\ v \o (w \o rest) \in Seq(Alphabet) /\ w \o rest \in Seq(Alphabet) /\ u \o v \in Seq(Alphabet)
        /\ (v \o (w \o rest)) \o c = v \o (w \o (rest \o c)) /\ (w \o rest) \o c = w \o (rest \o c)
    BY ONLY <1>r, Zenon DEF LongerBy
  <2>3. QED
    BY <1>4, <1>5, <1>7, <2>1, <2>2
<1>9. ScanAt(u, v, w, more)'
  BY <1>1, <1>3, <1>4, <1>6, <1>8 DEF ScanAt
<1>10. sent' \in Seq(Alphabet)
  BY <1>1, <1>2 DEF ScanInv
<1>11. QED
  BY <1>1, <1>9, <1>10 DEF ScanInv

\* At the end a CR that was waiting is a break of its own.
LEMMA ScanStreamEnds == ScanInv /\ StreamEnds => ScanInv'
<1> SUFFICES ASSUME ScanInv, StreamEnds PROVE ScanInv'
  OBVIOUS
<1>1. ~over /\ over' = TRUE /\ scanned' = FALSE /\ sent' = sent /\ scan' = scan /\ found' = found
  BY DEF StreamEnds
<1>2. PICK u, v, w, rest : ScanAt(u, v, w, rest)
  BY <1>1 DEF ScanInv
<1>3. ASSUME NEW x, NEW y, Unbroken(x, y) PROVE Unbroken(x, y)'
  BY <1>1, <1>3 DEF Unbroken
<1>4. Unbroken(u, v \o (w \o rest))' /\ Unbroken(u \o v, w \o rest)'
  BY <1>2, <1>3 DEF ScanAt
<1>5. ScanAt(u, v, w, rest)'
  BY <1>1, <1>2, <1>4 DEF ScanAt
<1>6. QED
  BY <1>1, <1>5 DEF ScanInv

\* A scan that goes on where it is.
LEMMA ScanGoesOn ==
    ASSUME ScanInv, ~over \/ ~scanned', sent' = sent, over' = over, scanned' \in BOOLEAN,
           scan' \in Offsets,
           NEW u, NEW v, NEW w, NEW rest, ScanAt(u, v, w, rest)'
    PROVE  ScanInv'
<1>1. (1 <= scan.event /\ scan.event <= scan.line /\ scan.line <= scan.at)'
  <2>1. (Len(u) \in Nat /\ Len(v) \in Nat /\ Len(w) \in Nat)'
    BY DEF ScanAt
  <2>2. (scan.event = Len(u) + 1 /\ scan.line = Len(u) + Len(v) + 1 /\ scan.at = Len(u) + Len(v) + Len(w) + 1)'
    BY DEF ScanAt
  <2>3. QED
    BY <2>1, <2>2
<1>2. QED
  BY <1>1 DEF ScanInv

\* A byte makes the line longer; a break ends the line, or the event if the line is blank.
LEMMA ScanScan == ScanInv /\ Scan /\ ~Refuse => ScanInv'
<1> SUFFICES ASSUME ScanInv, Scan, ~Refuse PROVE ScanInv'
  OBVIOUS
<1>1. /\ ~scanned /\ scan.at <= Len(sent) /\ ~Undecided(scan.at)
      /\ sent' = sent /\ over' = over /\ scanned' = scanned
  BY DEF Scan
<1>2. PICK u, v, w, rest : ScanAt(u, v, w, rest)
  BY <1>1 DEF ScanInv
<1>3. u \in Seq(Alphabet) /\ v \in Seq(Alphabet) /\ w \in Seq(Alphabet) /\ rest \in Seq(Alphabet) /\ over \in BOOLEAN
  BY <1>2 DEF ScanAt, ScanInv
<1>4. /\ sent = (u \o v) \o (w \o rest) /\ Cut(u).last = <<>> /\ Cut(v).last = <<>> /\ Full(Cut(v).ended) /\ NoBreak(w)
      /\ Unbroken(u, v \o (w \o rest)) /\ Unbroken(u \o v, w \o rest)
      /\ found \in Seq(Data) /\ AtRest(Wire(Cut(u).ended), found)
  BY <1>2 DEF ScanAt
<1>s. /\ scan.event = Len(u) + 1 /\ scan.line = Len(u) + Len(v) + 1 /\ scan.at = Len(u) + Len(v) + Len(w) + 1
      /\ scan \in Offsets
  BY <1>2 DEF ScanAt, ScanInv
<1>g. ~scanned' /\ scanned' \in BOOLEAN
  BY <1>1 DEF ScanInv
<1>r. LongerBy(u, v, w, rest, rest)
  BY <1>3, RegroupChunk
<1>5. PICK t \in Seq(Alphabet) : t = (u \o v) \o w
  <2>1. (u \o v) \o w \in Seq(Alphabet)
    BY ONLY <1>r, Zenon DEF LongerBy
  <2>2. QED
    BY <2>1, Zenon
<1>6. sent = t \o rest /\ scan.at = Len(t) + 1 /\ rest # <<>> /\ sent[scan.at] = rest[1] /\ rest[1] \in Alphabet
  <2>1. sent = t \o rest
    <3>1. (u \o v) \o (w \o rest) = ((u \o v) \o w) \o rest
      BY ONLY <1>r, Zenon DEF LongerBy
    <3>2. QED
      BY <1>4, <1>5, <3>1
  <2>2. Len(t) = Len(u) + Len(v) + Len(w) /\ Len(t) \in Nat
    BY ONLY <1>3, <1>5
  <2>3. scan.at = Len(t) + 1 /\ Len(t) + 1 <= Len(sent)
    BY <1>1, <1>s, <2>2
  <2>4. rest # <<>> /\ rest[1] \in Alphabet /\ sent[Len(t) + 1] = rest[1]
    <3>1. Len(sent) = Len(t) + Len(rest) /\ Len(rest) \in Nat
      BY <1>3, <2>1
    <3>2. Len(rest) >= 1
      BY <2>2, <2>3, <3>1
    <3>3. QED
      BY <1>3, <2>1, <2>2, <3>2
  <2>5. QED
    BY <2>1, <2>3, <2>4
<1>7. CASE rest[1] \notin Breaks
  <2>1. scan' = [scan EXCEPT !.at = @ + 1] /\ found' = found
    BY <1>6, <1>7 DEF Scan
  <2>2. /\ scan'.event = scan.event /\ scan'.line = scan.line /\ scan'.at = scan.at + 1
        /\ scan' \in Offsets
    BY <1>s, <2>1 DEF Offsets
  <2>3. PICK w2, r \in Seq(Alphabet) : w2 = Append(w, rest[1]) /\ r = Tail(rest)
    <3>1. Append(w, rest[1]) \in Seq(Alphabet) /\ Tail(rest) \in Seq(Alphabet)
      BY <1>3, <1>6
    <3>2. QED
      BY <3>1, Zenon
  <2>4. w2 \o r = w \o rest /\ Len(w2) = Len(w) + 1 /\ NoBreak(w2)
    <3>1. Len(w2) = Len(w) + 1 /\ w2[Len(w) + 1] = rest[1] /\ (\A i \in 1..Len(w) : w2[i] = w[i]) /\ Len(w) \in Nat
      BY <1>3, <1>6, <2>3
    <3>2. ASSUME NEW i \in 1..Len(w2) PROVE w2[i] \notin Breaks
      <4>1. CASE i = Len(w) + 1
        BY <1>7, <3>1, <4>1
      <4>2. CASE i # Len(w) + 1
        <5>1. i \in 1..Len(w)
          BY <3>1, <4>2
        <5>2. QED
          BY <1>4, <3>1, <5>1 DEF NoBreak
      <4>3. QED
        BY <4>1, <4>2
    <3>3. Append(w, rest[1]) \o Tail(rest) = w \o rest
      <4>1. rest = <<rest[1]>> \o Tail(rest) /\ Tail(rest) \in Seq(Alphabet)
        BY <1>3, <1>6
      <4>2. InTurn(w, <<rest[1]>>, Tail(rest)) /\ Append(w, rest[1]) = w \o <<rest[1]>>
        <5>1. <<rest[1]>> \in Seq(Alphabet) /\ Append(w, rest[1]) = w \o <<rest[1]>>
          <6>1. PICK one \in Alphabet : one = rest[1]
            BY <1>6
          <6>2. <<one>> \in Seq(Alphabet) /\ Append(w, one) = w \o <<one>>
            BY <1>3
          <6>3. QED
            BY <6>1, <6>2
        <5>2. QED
          BY <1>3, <4>1, <5>1, JoinBytes, Zenon
      <4>3. QED
        BY ONLY <4>1, <4>2, Zenon DEF InTurn
    <3>4. QED
      BY <2>3, <3>1, <3>2, <3>3 DEF NoBreak
  <2>5. Unbroken(u, v \o (w2 \o r))' /\ Unbroken(u \o v, w2 \o r)'
    BY <1>1, <1>4, <2>4 DEF Unbroken
  <2>6. (scan.event = Len(u) + 1 /\ scan.line = Len(u) + Len(v) + 1 /\ scan.at = Len(u) + Len(v) + Len(w2) + 1)'
    <3>1. Len(u) \in Nat /\ Len(v) \in Nat /\ Len(w) \in Nat
      BY <1>3
    <3>2. QED
      BY <1>s, <2>2, <2>4, <3>1
  <2>7. ScanAt(u, v, w2, r)'
    BY <1>1, <1>3, <1>4, <2>1, <2>3, <2>4, <2>5, <2>6 DEF ScanAt
  <2>8. QED
    BY <1>1, <1>g, <2>2, <2>7, ScanGoesOn
<1>8. CASE rest[1] \in Breaks
  <2> DEFINE b == rest[1]
  <2>1. PICK brk, r \in Seq(Alphabet) :
              /\ rest = brk \o r /\ AfterBreak(Len(t) + 1) = Len(t) + 1 + Len(brk)
              /\ \A y \in Seq(Alphabet) : Unbroken(y \o brk, r) /\ Cut(y \o brk) = Cut(Append(y, b))
    BY <1>1, <1>3, <1>6, <1>8, BreakIs, ZenonT(30)
  <2>n. PICK next \in Nat : next = AfterBreak(scan.at) /\ next = Len(u) + Len(v) + Len(w) + 1 + Len(brk)
    <3>1. Len(t) = Len(u) + Len(v) + Len(w) /\ Len(t) \in Nat /\ Len(brk) \in Nat
      BY ONLY <1>3, <1>5, <2>1
    <3>2. QED
      BY <1>6, <2>1, <3>1
  <2>e. <<>> \in Seq(Alphabet) /\ Len(<<>>) = 0 /\ <<>> \o r = r /\ NoBreak(<<>>)
    BY DEF NoBreak
  <2>2. CASE w = <<>>
    <3> DEFINE x == u \o v
               u2 == x \o brk
               pre == Cut(u).ended
               ls == Cut(v).ended
    <3>1. x \in Seq(Alphabet) /\ u2 \in Seq(Alphabet) /\ w \o rest = rest /\ pre \in Seq(Seq(Alphabet)) /\ ls \in Seq(Seq(Alphabet))
      <4>1. x \in Seq(Alphabet) /\ u2 \in Seq(Alphabet) /\ w \o rest = rest
        BY <1>3, <2>1, <2>2
      <4>2. QED
        BY <1>3, <4>1, ReadOfTyped
    <3>2. Cut(x) = [ended |-> pre \o ls, last |-> <<>>]
      <4>1. ASSUME v # <<>> PROVE ~MidBreak(u, v[1])
        <5>1. v \o (w \o rest) # <<>> /\ (v \o (w \o rest))[1] = v[1]
          BY <1>3, <4>1
        <5>2. QED
          BY <1>4, <5>1 DEF Unbroken, MidBreak
      <4>2. QED
        <5>1. Cut(u \o v) = [ended |-> Cut(u).ended \o Cut(v).ended, last |-> Cut(v).last]
          BY <1>3, <1>4, <4>1, CutOfBoth, Zenon
        <5>2. QED
          BY <1>4, <5>1
    <3>3. Cut(x).ended = pre \o ls /\ Cut(x).last = <<>>
      <4> HIDE DEF x, pre, ls
      <4>1. QED
        BY <3>2
    <3>4. ~MidBreak(x, b)
      BY <1>4, <1>6, <3>1 DEF Unbroken, MidBreak
    <3> HIDE DEF x, pre, ls
    <3>5. Cut(Append(x, b)) = [ended |-> Append(pre \o ls, <<>>), last |-> <<>>]
      <4>1. x \o <<>> = x /\ <<>> \o <<>> = <<>>
        BY <3>1
      <4>2. Cut(Append(x \o <<>>, b)) = [ended |-> Append(Cut(x).ended, Cut(x).last \o <<>>), last |-> <<>>]
        BY <1>6, <1>8, <2>e, <3>1, <3>4, CutLine
      <4>3. QED
        BY <3>3, <4>1, <4>2
    <3>6. Cut(u2) = Cut(Append(x, b)) /\ Unbroken(u2, r)
      BY <2>1, <3>1
    <3>7. Cut(u2).ended = Append(pre \o ls, <<>>) /\ Cut(u2).last = <<>>
      BY <3>5, <3>6
    <3>8. Lines(v) = Append(ls, <<>>)
      BY <1>4 DEF Lines, ls
    <3>9. /\ AtRest(Wire(Append(pre \o ls, <<>>)), found \o ParseSseEvent(v)) /\ found \o ParseSseEvent(v) \in Seq(Data)
      <4>1. AtRest(Wire(pre), found) /\ Full(ls)
        BY <1>4 DEF pre, ls
      <4>2. QED
        BY <1>3, <1>4, <3>1, <3>8, <4>1, EventEnds
    <3>10. SubSeq(sent, scan.event, scan.line - 1) = v
      <4>1. SubSeq((u \o v) \o (w \o rest), Len(u) + 1, Len(u) + Len(v)) = v
        BY ONLY <1>3
      <4>2. scan.event = Len(u) + 1 /\ scan.line - 1 = Len(u) + Len(v)
        <5>1. Len(u) \in Nat /\ Len(v) \in Nat
          BY <1>3
        <5>2. QED
          BY <1>s, <5>1
      <4>3. QED
        BY <1>4, <4>1, <4>2
    <3>11. scan.at = scan.line
      <4>1. Len(w) = 0 /\ Len(u) \in Nat /\ Len(v) \in Nat
        BY <1>3, <2>2
      <4>2. QED
        BY <1>s, <4>1
    <3>12. found' = found \o ParseSseEvent(v) /\ scan' = [event |-> next, line |-> next, at |-> next, refused |-> FALSE]
      BY <1>6, <1>8, <2>n, <3>10, <3>11 DEF Scan
    <3>13. /\ scan'.event = next /\ scan'.line = next /\ scan'.at = next
           /\ scan' \in Offsets
      BY <3>12 DEF Offsets
    <3>14. next = Len(u2) + 1 /\ Len(u2) \in Nat
      <4>1. Len(u2) = Len(u) + Len(v) + Len(brk) /\ Len(w) = 0 /\ Len(u) \in Nat /\ Len(v) \in Nat /\ Len(brk) \in Nat
        BY ONLY <1>3, <2>1, <2>2 DEF x
      <4>2. QED
        BY <2>n, <4>1
    <3>15. sent = (u2 \o <<>>) \o (<<>> \o r) /\ u2 \o <<>> = u2
      <4>1. x \o (brk \o r) = ((x \o brk) \o <<>>) \o (<<>> \o r) /\ (x \o brk) \o <<>> = x \o brk
        <5>1. PastBreak(x, x, x, brk, r)
          BY <2>1, <3>1, RegroupLine
        <5>2. QED
          BY ONLY <5>1, Zenon DEF PastBreak
      <4>2. sent = x \o (brk \o r)
        BY <1>4, <2>1, <3>1 DEF x
      <4>3. QED
        BY <4>1, <4>2
    <3> HIDE DEF u2
    <3>16. Unbroken(u2, <<>> \o (<<>> \o r))' /\ Unbroken(u2 \o <<>>, <<>> \o r)'
      BY <1>1, <2>e, <3>6, <3>15 DEF Unbroken
    <3>17. Cut(<<>>).last = <<>> /\ Full(Cut(<<>>).ended)
      <4>1. Cut(<<>>).ended = <<>> /\ Cut(<<>>).last = <<>>
        BY CutBegins
      <4>2. QED
        BY <2>e, <4>1 DEF Full
    <3>18. (scan.event = Len(u2) + 1 /\ scan.line = Len(u2) + Len(<<>>) + 1 /\ scan.at = Len(u2) + Len(<<>>) + Len(<<>>) + 1)'
      BY <2>e, <3>13, <3>14
    <3>19. found' \in Seq(Data) /\ AtRest(Wire(Cut(u2).ended), found')
      BY <3>7, <3>9, <3>12
    <3>20. ScanAt(u2, <<>>, <<>>, r)'
      BY <1>1, <2>1, <2>e, <3>1, <3>7, <3>15, <3>16, <3>17, <3>18, <3>19 DEF ScanAt
    <3>21. QED
      BY <1>1, <1>g, <3>13, <3>20, ScanGoesOn
  <2>3. CASE w # <<>>
    <3> DEFINE x == v \o w
               v2 == x \o brk
               ls == Cut(v).ended
    <3>1. x \in Seq(Alphabet) /\ v2 \in Seq(Alphabet) /\ ls \in Seq(Seq(Alphabet)) /\ Len(w) >= 1
      <4>1. x \in Seq(Alphabet) /\ v2 \in Seq(Alphabet) /\ Len(w) >= 1
        BY <1>3, <2>1, <2>3
      <4>2. QED
        BY <1>3, <4>1, ReadOfTyped
    <3>2. Cut(Append(x, b)) = [ended |-> Append(ls, w), last |-> <<>>]
      <4>1. Cut(Append(x, b)) = [ended |-> Append(Cut(v).ended, Cut(v).last \o w), last |-> <<>>]
        BY <1>3, <1>4, <1>6, <1>8, <2>3, CutLine
      <4>2. <<>> \o w = w
        BY <1>3
      <4>3. QED
        BY <1>4, <4>1, <4>2
    <3> HIDE DEF x, ls
    <3>3. Cut(v2).ended = Append(ls, w) /\ Cut(v2).last = <<>>
      <4>1. Cut(v2) = Cut(Append(x, b))
        BY <2>1, <3>1
      <4>2. QED
        BY <3>2, <4>1
    <3>4. Full(Append(ls, w))
      <4>1. Full(ls)
        BY <1>4 DEF ls
      <4>2. /\ Len(Append(ls, w)) = Len(ls) + 1 /\ Append(ls, w)[Len(ls) + 1] = w /\ Len(ls) \in Nat
            /\ \A k \in 1..Len(ls) : Append(ls, w)[k] = ls[k]
        BY <1>3, <3>1
      <4>3. ASSUME NEW k \in 1..Len(Append(ls, w)) PROVE Append(ls, w)[k] # <<>>
        <5>1. CASE k = Len(ls) + 1
          BY <2>3, <4>2, <5>1
        <5>2. CASE k # Len(ls) + 1
          <6>1. k \in 1..Len(ls)
            BY <4>2, <5>2
          <6>2. QED
            BY <4>1, <4>2, <6>1 DEF Full
        <5>3. QED
          BY <5>1, <5>2
      <4>4. QED
        BY <4>3 DEF Full
    <3>5. Unbroken((u \o x) \o brk, r)
      <4>1. u \o x \in Seq(Alphabet)
        BY <1>3, <3>1
      <4>2. QED
        BY <2>1, <4>1
    <3>6. /\ v2 \o (<<>> \o r) = v \o (w \o rest) /\ u \o v2 = (u \o x) \o brk
          /\ (u \o v2) \o (<<>> \o r) = (u \o v) \o (w \o rest)
      <4>1. /\ ((v \o w) \o brk) \o (<<>> \o r) = v \o (w \o (brk \o r)) /\ u \o ((v \o w) \o brk) = (u \o (v \o w)) \o brk
            /\ (u \o ((v \o w) \o brk)) \o (<<>> \o r) = (u \o v) \o (w \o (brk \o r))
        <5>1. PastBreak(u, v, w, brk, r)
          BY <1>3, <2>1, RegroupLine
        <5>2. QED
          BY ONLY <5>1, Zenon DEF PastBreak
      <4>2. QED
        BY <2>1, <4>1 DEF x
    <3>7. scan' = [scan EXCEPT !.line = next, !.at = next] /\ found' = found
      <4>1. scan.at # scan.line
        <5>1. Len(u) \in Nat /\ Len(v) \in Nat /\ Len(w) \in Nat
          BY <1>3
        <5>2. QED
          BY <1>s, <3>1, <5>1
      <4>2. QED
        BY <1>6, <1>8, <2>n, <4>1 DEF Scan
    <3>8. /\ scan'.event = scan.event /\ scan'.line = next /\ scan'.at = next
          /\ scan' \in Offsets
      BY <1>s, <3>7 DEF Offsets
    <3>9. next = Len(u) + Len(v2) + 1 /\ Len(u) \in Nat /\ Len(v2) \in Nat
      <4>1. Len(v2) = Len(v) + Len(w) + Len(brk) /\ Len(w) \in Nat /\ Len(u) \in Nat /\ Len(v) \in Nat /\ Len(brk) \in Nat
        BY ONLY <1>3, <2>1 DEF x
      <4>2. QED
        BY <2>n, <4>1
    <3> HIDE DEF v2
    <3>10. Unbroken(u, v2 \o (<<>> \o r))' /\ Unbroken(u \o v2, <<>> \o r)'
      BY <1>1, <1>4, <2>e, <3>5, <3>6 DEF Unbroken
    <3>11. (scan.event = Len(u) + 1 /\ scan.line = Len(u) + Len(v2) + 1 /\ scan.at = Len(u) + Len(v2) + Len(<<>>) + 1)'
      BY <1>s, <2>e, <3>8, <3>9
    <3>12. ScanAt(u, v2, <<>>, r)'
      BY <1>1, <1>3, <1>4, <2>1, <2>e, <3>1, <3>3, <3>4, <3>6, <3>7, <3>10, <3>11 DEF ScanAt
    <3>13. QED
      BY <1>1, <1>g, <3>8, <3>12, ScanGoesOn
  <2>4. QED
    BY <2>2, <2>3
<1>9. QED
  BY <1>7, <1>8

\* The second of two parts is found by its offsets.
LEMMA SecondPart ==
    ASSUME NEW s \in Seq(Alphabet), NEW t \in Seq(Alphabet)
    PROVE  Len(s \o t) = Len(s) + Len(t) /\ SubSeq(s \o t, Len(s) + 1, Len(s) + Len(t)) = t
OBVIOUS

\* Joined lines, of which the last is joined later.
LEMMA LastPart ==
    ASSUME NEW ls \in Seq(Seq(Alphabet)), NEW more \in Seq(Seq(Alphabet)), NEW line \in Seq(Alphabet)
    PROVE  ls \o Append(more, line) = Append(ls \o more, line)
OBVIOUS

\* At the end what is left of the stream is the last event.
LEMMA ScanScanDone == ScanInv /\ ScanDone /\ ~Refuse /\ ~scan.refused => ScanInv'
<1> SUFFICES ASSUME ScanInv, ScanDone, ~Refuse, ~scan.refused PROVE ScanInv'
  OBVIOUS
<1>1. /\ ~scanned /\ (scan.at > Len(sent) \/ Undecided(scan.at)) /\ scanned' = TRUE
      /\ sent' = sent /\ over' = over /\ scan' = scan
      /\ found' = IF over /\ scan.event <= Len(sent)
                  THEN found \o ParseSseEvent(SubSeq(sent, scan.event, Len(sent))) ELSE found
  <2>1. scan.event \in Nat /\ Len(sent) \in Nat /\ over \in BOOLEAN
    BY DEF ScanInv, Offsets
  <2>2. QED
    BY <2>1 DEF ScanDone
<1>2. PICK u, v, w, rest : ScanAt(u, v, w, rest)
  BY <1>1 DEF ScanInv
<1>3. u \in Seq(Alphabet) /\ v \in Seq(Alphabet) /\ w \in Seq(Alphabet) /\ rest \in Seq(Alphabet) /\ over \in BOOLEAN
  BY <1>2 DEF ScanAt, ScanInv
<1>4. /\ sent = (u \o v) \o (w \o rest) /\ Cut(u).last = <<>> /\ Cut(v).last = <<>> /\ Full(Cut(v).ended) /\ NoBreak(w)
      /\ Unbroken(u, v \o (w \o rest)) /\ Unbroken(u \o v, w \o rest)
      /\ found \in Seq(Data) /\ AtRest(Wire(Cut(u).ended), found)
  BY <1>2 DEF ScanAt
<1>5. /\ scan.event = Len(u) + 1 /\ scan.line = Len(u) + Len(v) + 1 /\ scan.at = Len(u) + Len(v) + Len(w) + 1
      /\ Len(u) \in Nat /\ Len(v) \in Nat /\ Len(w) \in Nat
  BY <1>2, <1>3 DEF ScanAt
<1>6. CASE ~over
  <2>1. found' = found
    BY <1>1, <1>6
  <2>2. ScanAt(u, v, w, rest)'
    BY <1>1, <1>2, <2>1 DEF ScanAt, Unbroken
  <2>3. QED
    BY <1>1, <1>6, <2>1, <2>2 DEF ScanInv
<1>7. CASE over
  <2>1. rest = <<>> /\ w \o rest = w
    <3>1. scan.at > Len(sent)
      BY <1>1, <1>7 DEF Undecided
    <3>2. Len(sent) = Len(u) + Len(v) + Len(w) + Len(rest) /\ Len(rest) \in Nat
      BY <1>3, <1>4
    <3>3. Len(rest) = 0
      BY <1>5, <3>1, <3>2
    <3>4. rest = <<>>
      BY <1>3, <3>3
    <3>5. QED
      BY <1>3, <3>4
  <2> DEFINE e == v \o w
             pre == Cut(u).ended
             ls == Cut(v).ended
  <2>2. e \in Seq(Alphabet) /\ pre \in Seq(Seq(Alphabet)) /\ ls \in Seq(Seq(Alphabet)) /\ Len(e) = Len(v) + Len(w)
    <3>1. e \in Seq(Alphabet) /\ Len(e) = Len(v) + Len(w)
      BY <1>3
    <3>2. QED
      BY <1>3, <3>1, ReadOfTyped
  <2>3. sent = u \o e /\ Len(sent) = Len(u) + Len(e) /\ SubSeq(sent, scan.event, Len(sent)) = e
    <3>1. InTurn(u, v, w)
      BY <1>3, JoinBytes
    <3>2. sent = u \o e
      BY <1>4, <2>1, <3>1, Zenon DEF InTurn
    <3> HIDE DEF e
    <3>3. Len(u \o e) = Len(u) + Len(e) /\ SubSeq(u \o e, Len(u) + 1, Len(u) + Len(e)) = e
      BY <1>3, <2>2, SecondPart, Zenon
    <3>4. QED
      BY <1>5, <3>2, <3>3
  <2>4. Cut(e) = [ended |-> ls, last |-> w]
    <3>1. Cut(v \o w) = [ended |-> Cut(v).ended, last |-> Cut(v).last \o w]
      BY <1>3, <1>4, CutOfPlain
    <3>2. <<>> \o w = w
      BY <1>3
    <3>3. QED
      BY <1>4, <3>1, <3>2
  <2>5. Cut(e).ended = ls /\ Cut(e).last = w
    <3> HIDE DEF e, ls
    <3>1. QED
      BY <2>4
  <2>6. Cut(sent) = [ended |-> pre \o ls, last |-> w]
    <3>1. ASSUME e # <<>> PROVE ~MidBreak(u, e[1])
      <4>1. v \o (w \o rest) = e
        BY <2>1
      <4>2. QED
        BY <1>4, <3>1, <4>1 DEF Unbroken, MidBreak
    <3>2. Cut(u \o e) = [ended |-> Cut(u).ended \o Cut(e).ended, last |-> Cut(e).last]
      BY <1>3, <1>4, <2>2, <3>1, CutOfBoth
    <3>3. QED
      BY <2>3, <2>5, <3>2
  <2> HIDE DEF e, pre, ls
  <2>7. Cut(sent).ended = pre \o ls /\ Cut(sent).last = w
    BY <2>6
  <2>8. AtRest(Wire(pre), found) /\ Full(ls)
    BY <1>4 DEF pre, ls
  <2>9. /\ sent' \in Seq(Alphabet) /\ over' \in BOOLEAN /\ scan' \in Offsets
        /\ (1 <= scan.event /\ scan.event <= scan.line /\ scan.line <= scan.at)'
    BY <1>1 DEF ScanInv
  <2>10. SUFFICES found' = Wire(Closed(sent)).out
    <3>1. found' = Wire(Closed(sent)).out => (found = Wire(Closed(sent)).out)'
      BY <1>1
    <3>2. over' = TRUE
      BY <1>1, <1>3, <1>7
    <3>3. scanned' = TRUE
      BY <1>1
    <3>4. QED
      BY <2>9, <3>1, <3>2, <3>3 DEF ScanInv
  <2>11. found' = found \o ParseSseEvent(e)
    <3>1. CASE e = <<>>
      <4>1. ~(scan.event <= Len(sent))
        <5>1. Len(e) = 0
          BY <3>1
        <5>2. QED
          BY <1>5, <2>3, <5>1
      <4>2. found \o <<>> = found
        BY <1>4
      <4>3. QED
        BY <1>1, <3>1, <4>1, <4>2, NothingIsParsed
    <3>2. CASE e # <<>>
      <4>1. scan.event <= Len(sent)
        <5>1. Len(e) >= 1
          BY <2>2, <3>2
        <5>2. QED
          BY <1>5, <2>2, <2>3, <5>1
      <4>2. QED
        BY <1>1, <1>7, <2>3, <4>1
    <3>3. QED
      BY <3>1, <3>2
  <2>12. CASE w = <<>>
    <3>1. Lines(e) = Append(ls, <<>>)
      BY <2>5, <2>12 DEF Lines
    <3>2. AtRest(Wire(Append(pre \o ls, <<>>)), found \o ParseSseEvent(e))
      BY <1>4, <2>2, <2>8, <3>1, EventEnds
    <3>3. Closed(sent) = Append(pre \o ls, <<>>)
      BY <2>7, <2>12 DEF Closed, Lines
    <3>4. QED
      BY <2>11, <3>2, <3>3 DEF AtRest
  <2>13. CASE w # <<>>
    <3>1. Lines(e) = Append(ls, w)
      BY <2>5 DEF Lines
    <3>2. PICK m \in Seq(Seq(Alphabet)) : m = Append(ls, w)
      BY <1>3, <2>2, AppendFull
    <3>3. Full(m)
      <4>2. /\ Len(m) = Len(ls) + 1 /\ m[Len(ls) + 1] = w /\ Len(ls) \in Nat
            /\ \A k \in 1..Len(ls) : m[k] = ls[k]
        BY <1>3, <2>2, <3>2
      <4>3. ASSUME NEW k \in 1..Len(m) PROVE m[k] # <<>>
        <5>1. CASE k = Len(ls) + 1
          BY <2>13, <4>2, <5>1
        <5>2. CASE k # Len(ls) + 1
          <6>1. k \in 1..Len(ls)
            BY <4>2, <5>2
          <6>2. QED
            BY <2>8, <4>2, <6>1 DEF Full
        <5>3. QED
          BY <5>1, <5>2
      <4>4. QED
        BY <4>3 DEF Full
    <3>4. AtRest(Wire(Append(pre \o m, <<>>)), found \o ParseSseEvent(e))
      BY <1>4, <2>2, <2>8, <3>1, <3>2, <3>3, EventEnds
    <3>5. pre \o m = Append(pre \o ls, w)
      BY <1>3, <2>2, <3>2, LastPart, ZenonT(30)
    <3>6. Closed(sent) = Append(pre \o m, <<>>)
      BY <2>7, <2>13, <3>5 DEF Closed, Lines
    <3>7. QED
      BY <2>11, <3>4, <3>6 DEF AtRest
  <2>14. QED
    BY <2>12, <2>13
<1>8. QED
  BY <1>3, <1>6, <1>7

\* A scan that refuses what is no text goes no further, nor does one that did.
LEMMA ScanRefuses ==
    ASSUME ScanInv, ((Scan \/ ScanDone) /\ Refuse) \/ (ScanDone /\ scan.refused)
    PROVE  ScanInv'
<1>1. /\ ~scanned /\ scanned' \in BOOLEAN /\ sent' = sent /\ over' = over /\ found' = found
      /\ (scan' = scan /\ scan.refused) \/ scan' = [scan EXCEPT !.refused = TRUE]
  <2>1. CASE Refuse
    BY <2>1 DEF ScanInv, Scan, ScanDone, Refuse
  <2>2. CASE ScanDone /\ scan.refused
    BY <2>2 DEF ScanDone
  <2>3. QED
    BY <2>1, <2>2
<1>2. /\ scan'.event = scan.event /\ scan'.line = scan.line /\ scan'.at = scan.at /\ scan'.refused
      /\ scan' \in Offsets
  BY <1>1 DEF ScanInv, Offsets
<1>3. PICK u, v, w, rest : ScanAt(u, v, w, rest)
  BY <1>1 DEF ScanInv
<1>4. ScanAt(u, v, w, rest)'
  BY <1>1, <1>2, <1>3 DEF ScanAt, Unbroken
<1>5. QED
  BY <1>1, <1>2, <1>4 DEF ScanInv

\* The reader does not touch the scan.
LEMMA ScanStays ==
    ASSUME ScanInv, sent' = sent, over' = over, scanned' = scanned, scan' = scan, found' = found
    PROVE  ScanInv'
<1>1. ASSUME NEW u, NEW v, NEW w, NEW rest, ScanAt(u, v, w, rest) PROVE ScanAt(u, v, w, rest)'
  BY <1>1 DEF ScanAt, Unbroken
<1>2. QED
  BY <1>1 DEF ScanInv

\* No step of either parser takes the scan from its place.
LEMMA ScanKeeps == ScanInv /\ StreamStep => ScanInv'
<1> SUFFICES ASSUME ScanInv, StreamStep PROVE ScanInv'
  OBVIOUS
<1>1. ASSUME NEW n \in 1..StreamCap, NEW c \in [1..n -> Alphabet], Chunk(c) PROVE ScanInv'
  BY <1>1, ScanChunk
<1>2. CASE StreamEnds
  BY <1>2, ScanStreamEnds
<1>3. CASE ResolveBom
  BY <1>3, ScanStays DEF ResolveBom
<1>4. CASE SkipLf
  BY <1>4, ScanStays DEF SkipLf
<1>5. CASE TakeSegment
  BY <1>5, ScanStays DEF TakeSegment
<1>6. CASE ReaderEof
  BY <1>6, ScanStays DEF ReaderEof
<1>7. CASE Scan
  BY <1>7, ScanScan, ScanRefuses
<1>8. CASE ScanDone
  BY <1>8, ScanScanDone, ScanRefuses
<1>9. QED
  BY <1>1, <1>2, <1>3, <1>4, <1>5, <1>6, <1>7, <1>8 DEF StreamStep

-----------------------------------------------------------------------------
\* The byte before i is a line break, if there is one.
Edge(s, i) == i = 1 \/ (i - 1 \in 1..Len(s) /\ s[i - 1] \in Breaks)

\* What was scanned to the last blank line is text, unless it was refused: for a byte that
\* no later one can make text, or at the end.
TextInv ==
    /\ Edge(sent, scan.event) /\ Edge(sent, scan.line) /\ scan.at <= Len(sent) + 1
    /\ ~scan.refused => \A i \in 1..(scan.event - 1) : Utf8At(sent, i)
    /\ scan.refused => (over /\ ~Utf8(sent)) \/ \E i \in 1..(Len(sent) - 1) : ~Utf8At(sent, i)
    /\ over /\ scanned /\ ~scan.refused => Utf8(sent)

\* Whole lines are text if each of their bytes is text where it stands.
LEMMA PartIsText ==
    ASSUME NEW s \in Seq(Alphabet), NEW a \in Nat, NEW b \in Nat, 1 <= a, b <= Len(s), Edge(s, a),
           b = Len(s) \/ b < a \/ s[b] \in Breaks
    PROVE  Utf8(SubSeq(s, a, b)) <=> \A i \in a..b : Utf8At(s, i)
<1> DEFINE e == SubSeq(s, a, b)
           n == Len(e)
<1>1. /\ n \in Nat /\ DOMAIN e = 1..n /\ (a <= b => n = b - a + 1) /\ (~(a <= b) => n = 0)
      /\ \A j \in 1..n : e[j] = s[a + j - 1] /\ a + j - 1 \in a..b
  OBVIOUS
<1>2. Len(s) \in Nat
  OBVIOUS
<1> HIDE DEF e, n
<1>3. Bom[1] = "f" /\ Bom[2] = "u" /\ "f" \notin Breaks
  BY DEF Bom, Breaks
<1>4. ASSUME NEW j \in 1..n PROVE Utf8At(e, j) <=> Utf8At(s, a + j - 1)
  <2>1. e[j] = s[a + j - 1] /\ n = b - a + 1 /\ a <= b
    BY <1>1
  <2>2. (e[j] = "f" => j < n /\ e[j + 1] = "u")
         <=> (s[a + j - 1] = "f" => a + j - 1 < Len(s) /\ s[a + j] = "u")
    <3>1. CASE j < n
      <4>1. e[j + 1] = s[a + j] /\ a + j - 1 < Len(s)
        <5>1. j + 1 \in 1..n /\ a + (j + 1) - 1 = a + j
          BY <1>1, <3>1
        <5>2. e[j + 1] = s[a + (j + 1) - 1]
          BY <1>1, <5>1
        <5>3. QED
          BY <1>2, <2>1, <3>1, <5>1, <5>2
      <4>2. QED
        BY <2>1, <3>1, <4>1
    <3>2. CASE ~(j < n)
      <4>1. a + j - 1 = b
        BY <1>1, <2>1, <3>2
      <4>2. CASE s[b] \in Breaks
        BY <1>3, <2>1, <4>1, <4>2
      <4>3. CASE b = Len(s)
        BY <1>2, <2>1, <3>2, <4>1, <4>3
      <4>4. QED
        BY <1>2, <2>1, <4>2, <4>3
    <3>3. QED
      BY <3>1, <3>2
  <2>3. (e[j] = "u" => j > 1 /\ e[j - 1] = "f")
         <=> (s[a + j - 1] = "u" => a + j - 1 > 1 /\ s[a + j - 2] = "f")
    <3>1. CASE j > 1
      <4>1. e[j - 1] = s[a + j - 2] /\ a + j - 1 > 1
        <5>1. j - 1 \in 1..n /\ a + (j - 1) - 1 = a + j - 2
          BY <1>1, <3>1
        <5>2. e[j - 1] = s[a + (j - 1) - 1]
          BY <1>1, <5>1
        <5>3. QED
          BY <3>1, <5>1, <5>2
      <4>2. QED
        BY <2>1, <3>1, <4>1
    <3>2. CASE ~(j > 1)
      <4>1. j = 1 /\ a + j - 1 = a /\ a + j - 2 = a - 1
        BY <1>1, <3>2
      <4>2. a = 1 \/ s[a - 1] \in Breaks
        BY DEF Edge
      <4>3. QED
        BY <1>3, <2>1, <4>1, <4>2
    <3>3. QED
      BY <3>1, <3>2
  <2>4. (a + j - 1) + 1 = a + j /\ (a + j - 1) - 1 = a + j - 2
    BY <1>1
  <2>5. n = Len(e)
    BY DEF n
  <2>6. QED
    BY <1>3, <2>2, <2>3, <2>4, <2>5 DEF Utf8At
<1>5. ASSUME \A j \in 1..n : Utf8At(e, j), NEW i \in a..b PROVE Utf8At(s, i)
  <2>1. i - a + 1 \in 1..n /\ a + (i - a + 1) - 1 = i
    BY <1>1
  <2>2. QED
    BY <1>4, <1>5, <2>1
<1>6. ASSUME \A i \in a..b : Utf8At(s, i), NEW j \in 1..n PROVE Utf8At(e, j)
  BY <1>1, <1>4, <1>6
<1>7. QED
  BY <1>1, <1>5, <1>6 DEF Utf8, e

\* A line break is text.
LEMMA BreakIsText ==
    ASSUME NEW s, NEW i, s[i] \in Breaks
    PROVE  Utf8At(s, i)
BY DEF Utf8At, Bom, Breaks

\* Bytes that follow change nothing for one that has a neighbour on both sides.
LEMMA TextGrows ==
    ASSUME NEW s \in Seq(Alphabet), NEW c \in Seq(Alphabet)
    PROVE  /\ \A i \in 1..(Len(s) - 1) : Utf8At(s \o c, i) <=> Utf8At(s, i)
           /\ \A i \in 1..Len(s) + 1 : Edge(s, i) => Edge(s \o c, i)
<1>1. /\ Len(s) \in Nat /\ Len(c) \in Nat /\ Len(s \o c) = Len(s) + Len(c)
      /\ \A i \in 1..Len(s) : (s \o c)[i] = s[i]
  OBVIOUS
<1> DEFINE t == s \o c
<1> HIDE DEF t
<1>2. ASSUME NEW i \in 1..(Len(s) - 1) PROVE Utf8At(t, i) <=> Utf8At(s, i)
  <2>1. t[i] = s[i] /\ t[i + 1] = s[i + 1] /\ i < Len(t) /\ i < Len(s)
    BY <1>1 DEF t
  <2>2. i > 1 => t[i - 1] = s[i - 1]
    BY <1>1 DEF t
  <2>3. QED
    BY <2>1, <2>2 DEF Utf8At
<1>3. ASSUME NEW i \in 1..Len(s) + 1, Edge(s, i) PROVE Edge(t, i)
  BY <1>1, <1>3 DEF Edge, t
<1>4. QED
  BY <1>2, <1>3 DEF t

\* A chunk follows what was scanned.
LEMMA TextOfChunk ==
    ASSUME ScanInv, TextInv, NEW n \in 1..StreamCap, NEW c \in [1..n -> Alphabet], Chunk(c)
    PROVE  TextInv'
<1>1. ~over /\ sent' = sent \o c /\ scanned' = FALSE /\ over' = over /\ scan' = scan
  BY DEF Chunk
<1>2. c \in Seq(Alphabet) /\ sent \in Seq(Alphabet)
  BY StreamAssumption DEF ScanInv
<1>3. /\ scan.event \in Nat /\ scan.line \in Nat /\ scan.at \in Nat /\ Len(sent) \in Nat /\ Len(c) \in Nat
      /\ 1 <= scan.event /\ scan.event <= scan.line /\ scan.line <= scan.at /\ scan.at <= Len(sent) + 1
      /\ Len(sent') = Len(sent) + Len(c)
  BY <1>1, <1>2 DEF ScanInv, Offsets, TextInv
<1>4. Edge(sent', scan.event) /\ Edge(sent', scan.line) /\ scan.at <= Len(sent') + 1
  BY <1>1, <1>2, <1>3, TextGrows DEF TextInv
<1>5. ASSUME ~scan.refused, NEW i \in 1..(scan.event - 1) PROVE Utf8At(sent', i)
  <2>1. CASE i \in 1..(Len(sent) - 1)
    BY <1>1, <1>2, <1>5, <2>1, TextGrows DEF TextInv
  <2>2. CASE i \notin 1..(Len(sent) - 1)
    <3>1. i = scan.event - 1
      BY <1>3, <2>2
    <3>2. sent'[i] \in Breaks
      BY <1>3, <1>4, <3>1 DEF Edge
    <3>3. QED
      BY <3>2, BreakIsText
  <2>3. QED
    BY <2>1, <2>2
<1>6. ASSUME scan.refused PROVE \E i \in 1..(Len(sent') - 1) : ~Utf8At(sent', i)
  <2>1. PICK i \in 1..(Len(sent) - 1) : ~Utf8At(sent, i)
    BY <1>1, <1>6 DEF TextInv
  <2>2. ~Utf8At(sent', i) /\ i \in 1..(Len(sent') - 1)
    BY <1>1, <1>2, <1>3, <2>1, TextGrows
  <2>3. QED
    BY <2>2
<1>7. QED
  BY <1>1, <1>4, <1>5, <1>6 DEF TextInv

\* A step of the scan goes past text, or refuses what is none.
LEMMA TextOfScan == ScanInv /\ TextInv /\ Scan => TextInv'
<1> SUFFICES ASSUME ScanInv, TextInv, Scan PROVE TextInv'
  OBVIOUS
<1>1. /\ ~scanned /\ ~scan.refused /\ scan.at <= Len(sent)
      /\ sent' = sent /\ over' = over /\ scanned' = scanned
  BY DEF Scan
<1>2. /\ scan.event \in Nat /\ scan.line \in Nat /\ scan.at \in Nat /\ Len(sent) \in Nat /\ sent \in Seq(Alphabet)
      /\ 1 <= scan.event /\ scan.event <= scan.line /\ scan.line <= scan.at /\ scan \in Offsets
      /\ Edge(sent, scan.event) /\ Edge(sent, scan.line)
      /\ \A i \in 1..(scan.event - 1) : Utf8At(sent, i)
  BY <1>1 DEF ScanInv, Offsets, TextInv
<1> DEFINE next == AfterBreak(scan.at)
           event == SubSeq(sent, scan.event, scan.line - 1)
<1>3. ASSUME sent[scan.at] \in Breaks
      PROVE  /\ next \in Nat /\ next > scan.at /\ next <= Len(sent) + 1 /\ Edge(sent, next)
             /\ \A i \in scan.at..(next - 1) : sent[i] \in Breaks
  <2>1. CASE sent[scan.at] = "CR" /\ scan.at < Len(sent) /\ sent[scan.at + 1] = "LF"
    <3>1. next = scan.at + 2 /\ next - 1 = scan.at + 1
      BY <1>2, <2>1 DEF AfterBreak
    <3>2. sent[next - 1] \in Breaks /\ next - 1 \in 1..Len(sent)
      BY <1>2, <2>1, <3>1 DEF Breaks
    <3>3. ASSUME NEW i \in scan.at..(next - 1) PROVE sent[i] \in Breaks
      <4>1. i = scan.at \/ i = next - 1
        BY <1>2, <3>1
      <4>2. QED
        BY <1>3, <3>2, <4>1
    <3>4. next \in Nat /\ next > scan.at /\ next <= Len(sent) + 1
      BY <1>2, <2>1, <3>1
    <3>5. Edge(sent, next)
      BY <3>2 DEF Edge
    <3> HIDE DEF next
    <3>6. QED
      BY <3>3, <3>4, <3>5
  <2>2. CASE ~(sent[scan.at] = "CR" /\ scan.at < Len(sent) /\ sent[scan.at + 1] = "LF")
    <3>1. next = scan.at + 1 /\ next - 1 = scan.at
      BY <1>2, <2>2 DEF AfterBreak
    <3>2. QED
      BY <1>1, <1>2, <1>3, <3>1 DEF Edge
  <2>3. QED
    BY <2>1, <2>2
<1>4. Utf8(event) <=> \A i \in scan.event..(scan.line - 1) : Utf8At(sent, i)
  <2>1. scan.line - 1 < scan.event \/ sent[scan.line - 1] \in Breaks
    BY <1>2 DEF Edge
  <2>2. scan.line - 1 \in Nat /\ scan.line - 1 <= Len(sent)
    BY <1>1, <1>2
  <2>3. QED
    BY <1>2, <2>1, <2>2, PartIsText
<1> HIDE DEF next, event
<1>5. CASE sent[scan.at] \notin Breaks
  <2>1. scan' = [scan EXCEPT !.at = @ + 1]
    BY <1>5 DEF Scan
  <2>2. scan'.event = scan.event /\ scan'.line = scan.line /\ scan'.at = scan.at + 1 /\ scan'.refused = scan.refused
    BY <1>2, <2>1 DEF Offsets
  <2>3. QED
    BY <1>1, <1>2, <2>2 DEF TextInv
<1>6. CASE sent[scan.at] \in Breaks /\ scan.at # scan.line
  <2>1. scan' = [scan EXCEPT !.line = next, !.at = next]
    BY <1>6 DEF Scan, next
  <2>2. scan'.event = scan.event /\ scan'.line = next /\ scan'.at = next /\ scan'.refused = scan.refused
    BY <1>2, <2>1 DEF Offsets
  <2>3. QED
    BY <1>1, <1>2, <1>3, <1>6, <2>2 DEF TextInv
<1>7. CASE sent[scan.at] \in Breaks /\ scan.at = scan.line /\ ~Utf8(event)
  <2>1. scan' = [scan EXCEPT !.refused = TRUE]
    BY <1>7 DEF Scan, Refuse, next, event
  <2>2. scan'.event = scan.event /\ scan'.line = scan.line /\ scan'.at = scan.at /\ scan'.refused
    BY <1>2, <2>1 DEF Offsets
  <2>3. PICK i \in scan.event..(scan.line - 1) : ~Utf8At(sent, i)
    BY <1>4, <1>7
  <2>4. i \in 1..(Len(sent) - 1)
    BY <1>1, <1>2, <1>7
  <2>5. QED
    BY <1>1, <1>2, <2>2, <2>3, <2>4 DEF TextInv
<1>8. CASE sent[scan.at] \in Breaks /\ scan.at = scan.line /\ Utf8(event)
  <2>1. scan' = [event |-> next, line |-> next, at |-> next, refused |-> FALSE]
    BY <1>8 DEF Scan, next, event
  <2>2. scan'.event = next /\ scan'.line = next /\ scan'.at = next /\ scan'.refused = FALSE
    BY <2>1
  <2>3. ASSUME NEW i \in 1..(next - 1) PROVE Utf8At(sent, i)
    <3>1. CASE i < scan.event
      BY <1>2, <3>1
    <3>2. CASE scan.event <= i /\ i < scan.line
      BY <1>2, <1>4, <1>8, <3>2
    <3>3. CASE scan.line <= i
      BY <1>2, <1>3, <1>8, <3>3, BreakIsText
    <3>4. QED
      BY <1>2, <3>1, <3>2, <3>3
  <2>4. QED
    BY <1>1, <1>3, <1>8, <2>2, <2>3 DEF TextInv
<1>9. QED
  BY <1>5, <1>6, <1>7, <1>8

\* The end of the scan looks at what follows the last blank line.
LEMMA TextOfScanDone == ScanInv /\ TextInv /\ ScanDone => TextInv'
<1> SUFFICES ASSUME ScanInv, TextInv, ScanDone PROVE TextInv'
  OBVIOUS
<1>1. ~scanned /\ sent' = sent /\ over' = over /\ scanned' = TRUE
  BY DEF ScanDone
<1>2. /\ scan.event \in Nat /\ scan.line \in Nat /\ scan.at \in Nat /\ Len(sent) \in Nat /\ sent \in Seq(Alphabet)
      /\ 1 <= scan.event /\ scan.event <= scan.line /\ scan.line <= scan.at /\ scan \in Offsets /\ scan.at <= Len(sent) + 1
      /\ Edge(sent, scan.event) /\ Edge(sent, scan.line) /\ over \in BOOLEAN /\ scan.refused \in BOOLEAN
  BY DEF ScanInv, Offsets, TextInv
<1>3. CASE scan.refused \/ ~over
  <2>1. scan' = scan
    BY <1>3 DEF ScanDone
  <2>2. QED
    BY <1>1, <1>3, <2>1 DEF TextInv
<1>4. CASE ~scan.refused /\ over
  <2> DEFINE last == SubSeq(sent, scan.event, Len(sent))
  <2>1. Utf8(last) <=> \A i \in scan.event..Len(sent) : Utf8At(sent, i)
    BY <1>2, PartIsText
  <2>2. \A i \in 1..(scan.event - 1) : Utf8At(sent, i)
    BY <1>4 DEF TextInv
  <2>3. Utf8(sent) <=> Utf8(last)
    <3>1. Utf8(sent) <=> \A i \in 1..Len(sent) : Utf8At(sent, i)
      BY <1>2 DEF Utf8
    <3> HIDE DEF last
    <3>2. QED
      BY <1>2, <2>1, <2>2, <3>1
  <2>4. CASE scan.event > Len(sent)
    <3>1. scan' = scan
      BY <2>4 DEF ScanDone
    <3>2. Utf8(last)
      BY <1>2, <2>1, <2>4
    <3>3. QED
      BY <1>1, <1>4, <2>3, <3>1, <3>2 DEF TextInv
  <2>5. CASE ~(scan.event > Len(sent)) /\ Utf8(last)
    <3>1. scan' = scan
      BY <1>4, <2>5 DEF ScanDone
    <3>2. QED
      BY <1>1, <1>4, <2>3, <2>5, <3>1 DEF TextInv
  <2>6. CASE ~(scan.event > Len(sent)) /\ ~Utf8(last)
    <3>1. scan' = [scan EXCEPT !.refused = TRUE]
      BY <1>4, <2>6 DEF ScanDone, Refuse
    <3>2. scan'.event = scan.event /\ scan'.line = scan.line /\ scan'.at = scan.at /\ scan'.refused
      BY <1>2, <3>1 DEF Offsets
    <3>3. QED
      BY <1>1, <1>2, <1>4, <2>3, <2>6, <3>2 DEF TextInv
  <2>7. QED
    BY <2>4, <2>5, <2>6
<1>5. QED
  BY <1>2, <1>3, <1>4

\* Nothing else has to do with what is text.
LEMMA TextStays ==
    ASSUME TextInv, sent' = sent, scan' = scan,
           (over' = over /\ scanned' = scanned) \/ (~over /\ ~scanned')
    PROVE  TextInv'
BY DEF TextInv

LEMMA TextBegins == StreamInit => TextInv
<1> SUFFICES ASSUME StreamInit PROVE TextInv
  OBVIOUS
<1>1. sent = <<>> /\ over = FALSE /\ scan = [event |-> 1, line |-> 1, at |-> 1, refused |-> FALSE]
  BY DEF StreamInit
<1>2. scan.event = 1 /\ scan.line = 1 /\ scan.at = 1 /\ scan.refused = FALSE /\ Len(sent) = 0
  BY <1>1
<1>3. QED
  BY <1>1, <1>2 DEF TextInv, Edge

LEMMA TextKeeps == ScanInv /\ TextInv /\ StreamStep => TextInv'
<1> SUFFICES ASSUME ScanInv, TextInv, StreamStep PROVE TextInv'
  OBVIOUS
<1>1. ASSUME NEW n \in 1..StreamCap, NEW c \in [1..n -> Alphabet], Chunk(c) PROVE TextInv'
  BY <1>1, TextOfChunk
<1>2. CASE StreamEnds
  <2>1. sent' = sent /\ scan' = scan /\ ~over /\ ~scanned'
    BY <1>2 DEF StreamEnds
  <2>2. QED
    BY <2>1, TextStays
<1>3. CASE ResolveBom \/ SkipLf \/ TakeSegment \/ ReaderEof
  BY <1>3, TextStays DEF ResolveBom, SkipLf, TakeSegment, ReaderEof
<1>4. CASE Scan \/ ScanDone
  BY <1>4, TextOfScan, TextOfScanDone
<1>5. QED
  BY <1>1, <1>2, <1>3, <1>4 DEF StreamStep

-----------------------------------------------------------------------------
\* The event streams: what the reader has, where the scan is, and what of it is text.
StreamInv == ReaderInv /\ ScanInv /\ TextInv

\* The invariant of both parsers holds at first, in every step of them, and while others go on.
LEMMA StreamBegins == StreamInit => StreamInv
BY ReaderBegins, ScanBegins, TextBegins DEF StreamInv

LEMMA StreamKeeps == StreamInv /\ StreamStep => StreamInv'
BY ReaderKeeps, ScanKeeps, TextKeeps DEF StreamInv

LEMMA StreamStutters == StreamInv /\ UNCHANGED streamVars => StreamInv'
<1> SUFFICES ASSUME StreamInv, UNCHANGED streamVars PROVE StreamInv'
  OBVIOUS
<1>1. UNCHANGED <<sent, over, chunk, scanned, parser, scan, read, found>>
  BY DEF streamVars
<1>2. ScanInv'
  BY <1>1, ScanStays DEF StreamInv
<1>3. ASSUME NEW seen, Position(seen) PROVE Position(seen)'
  BY <1>1, <1>3 DEF Position
<1>4. ReaderInv'
  BY <1>1, <1>3 DEF StreamInv, ReaderInv, ReaderTyped
<1>5. TextInv'
  BY <1>1, TextStays DEF StreamInv
<1>6. QED
  BY <1>2, <1>4, <1>5 DEF StreamInv

\* ... and so in every behaviour of the transports;
LEMMA StreamInvHolds == Spec => []StreamInv
<1>1. Init => StreamInv
  BY StreamBegins DEF Init
<1>2. StreamInv /\ [Next]_remoteVars => StreamInv'
  <2> SUFFICES ASSUME StreamInv, [Next]_remoteVars PROVE StreamInv'
    OBVIOUS
  <2>1. StreamStep \/ UNCHANGED streamVars
    BY DEF Next, Over, OverSse, OverChannel, remoteVars
  <2>2. QED
    BY <2>1, StreamKeeps, StreamStutters
<1>3. QED
  BY <1>1, <1>2, PTL DEF Spec

\* it says of a stream that is over what both made of it.
LEMMA StreamInvIsEnough == StreamInv => StreamsAreRead
<1> SUFFICES ASSUME StreamInv PROVE StreamsAreRead
  OBVIOUS
<1>1. StreamTypeOK
  <2>1. parser.state \in {"open", "failed", "done"} /\ Len(parser.line) <= LineCap /\ Len(parser.data) <= DataCap
    BY DEF StreamInv, ReaderInv, ReaderTyped, Reader
  <2>2. 1 <= scan.event /\ scan.event <= scan.line /\ scan.line <= scan.at
    BY DEF StreamInv, ScanInv
  <2>3. QED
    BY <2>1, <2>2 DEF StreamTypeOK
<1>2. EventsOfTheStream
  <2> SUFFICES ASSUME over, scanned, parser.state # "open"
               PROVE  /\ read = Whole(sent).out
                      /\ (parser.state = "failed") = (Whole(sent).p.state = "failed")
                      /\ scan.refused = ~Utf8(sent)
                      /\ parser.state = "done" /\ ~scan.refused /\ ~LaterMark => found = [k \in DOMAIN read |-> read[k].data]
    BY DEF EventsOfTheStream
  <2>1. /\ read = Whole(sent).out /\ (parser.state = "failed") = (Whole(sent).p.state = "failed")
        /\ parser.state = "done" => Whole(sent).p.state = "open"
    BY ReaderIsDone DEF StreamInv
  <2>2. sent \in Seq(Alphabet) /\ (~scan.refused => found = Wire(Closed(sent)).out)
    BY DEF StreamInv, ScanInv
  <2>r. scan.refused = ~Utf8(sent)
    <3>1. scan.refused \in BOOLEAN /\ Len(sent) \in Nat /\ DOMAIN sent = 1..Len(sent)
      BY <2>2 DEF StreamInv, ScanInv, Offsets
    <3>2. ASSUME NEW i \in 1..(Len(sent) - 1), ~Utf8At(sent, i) PROVE ~Utf8(sent)
      BY <3>1, <3>2 DEF Utf8
    <3>3. (scan.refused => ~Utf8(sent)) /\ (~scan.refused => Utf8(sent))
      BY <3>2 DEF StreamInv, TextInv
    <3>4. Utf8(sent) \in BOOLEAN
      BY DEF Utf8
    <3>5. QED
      BY <3>1, <3>3, <3>4
  <2>3. ASSUME parser.state = "done", ~scan.refused, ~LaterMark PROVE found = [k \in DOMAIN read |-> read[k].data]
    <3>1. NoLater(Lines(sent))
      BY <2>3 DEF LaterMark, NoLater
    <3>2. Whole(sent).p.state # "failed"
      BY <2>1, <2>3
    <3>3. Wire(Closed(sent)).out = Datas(Whole(sent).out)
      BY <2>2, <3>1, <3>2, StreamAgrees
    <3>4. found = Datas(read)
      BY <2>1, <2>2, <2>3, <3>3
    <3>5. QED
      BY <3>4 DEF Datas
  <2>4. QED
    BY <2>1, <2>3, <2>r
<1>3. QED
  BY <1>1, <1>2 DEF StreamsAreRead

\* However a stream is cut into chunks, wherever its lines end with CR, LF or both and whatever
\* the limits are, the reader makes the events of the whole stream or fails when that has too
\* long a line, too much data, or a type or data that is no text; the HTTP parser refuses the
\* same bytes just when any of them are no text, and reads the same data from those neither
\* refuses, unless a mark begins a later event (next_event, scan_sse_events).
THEOREM StreamsStayRead == Spec => []StreamsAreRead
BY StreamInvHolds, StreamInvIsEnough, PTL
=============================================================================
