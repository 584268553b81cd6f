------------------------ MODULE TileTransportProofs ------------------------
(***************************************************************************)
(* The way of a message from thread to thread, for any number of clients,  *)
(* threads, displays and tiles, and for connections of any size: no core   *)
(* idles while a tile waits, and every step is one of TileNetwork, so that *)
(* a tile comes to each of its displays once and whole.                    *)
(***************************************************************************)
EXTENDS TileTransportInvariant, MailboxFacts

USE DisplaysAssumption, LeaversAssumption, ThreadsAssumption, TilesAssumption,
    PartsAssumption, NamesAssumption

-----------------------------------------------------------------------------
(* Ranks, messages and connections.                                        *)

\* Every set of ranks that is not empty has a first one.
LEMMA FirstRankFacts ==
  ASSUME NEW ranks \in SUBSET Displays, ranks # {}
  PROVE  FirstRank(ranks) \in ranks
<1>1. ranks \in SUBSET Nat /\ IsFiniteSet(ranks)
  <2>1. IsFiniteSet(Displays)
    BY FS_Interval DEF Displays
  <2>2. IsFiniteSet(ranks)
    BY <2>1, FS_Subset
  <2>3. QED
    BY <2>2 DEF Displays
<1>2. Cardinality(ranks) \in Nat \ {0}
  BY <1>1, FS_CardinalityType, FS_EmptySet
<1>3. PICK d \in ranks : Rank(ranks, d) = 1
  BY <1>1, <1>2, RankFacts, 1 \in 1 .. Cardinality(ranks)
<1>4. ASSUME NEW e \in ranks PROVE d <= e
  <2> DEFINE upto == {j \in ranks : j <= d}
  <2>1. IsFiniteSet(upto) /\ Cardinality(upto) = 1
    BY <1>1, <1>3, FS_Subset, upto \in SUBSET ranks DEF Rank
  <2>2. d \in upto
    BY <1>1
  <2>3. PICK x : upto = {x}
    BY <2>1, FS_Singleton
  <2>4. e <= d => e = d
    <3>1. e <= d => e \in upto
      OBVIOUS
    <3>2. QED
      BY <2>2, <2>3, <3>1
  <2>5. QED
    BY <1>1, <2>4
<1>5. QED
  BY <1>4 DEF FirstRank

\* Messages tell their tile, and whether they are whole.
LEMMA MessageFacts ==
  /\ MadeUp \in Message
  /\ \A t \in Tile : Whole(t) \in Message /\ Torn(t) \in Message
  /\ \A t \in Tile : Whole(t) # MadeUp /\ Torn(t) # MadeUp
  /\ \A t, u \in Tile : Whole(t) # Torn(u)
  /\ \A t, u \in Tile : Whole(t) = Whole(u) => t = u
  /\ \A t, u \in Tile : Torn(t) = Torn(u) => t = u
<1>1. \A t, u \in Tile : /\ Whole(t).tile = t /\ Whole(t).whole = TRUE
                         /\ Torn(t).tile = t /\ Torn(t).whole = FALSE
  BY DEF Whole, Torn
<1>2. \A t, u \in Tile : /\ Whole(t) = Whole(u) => t = u
                         /\ Torn(t) = Torn(u) => t = u
                         /\ Whole(t) # Torn(u)
  BY <1>1
<1>3. \A t \in Tile : Whole(t) \in [tile: Tile, whole: BOOLEAN]
                      /\ Torn(t) \in [tile: Tile, whole: BOOLEAN]
  BY DEF Whole, Torn
<1>4. QED
  BY <1>2, <1>3 DEF Message

\* A display is handed one message.
LEMMA HandFacts ==
  ASSUME inbox \in [Displays -> [Message -> Nat]],
         NEW d \in Displays, NEW m \in Message, Hand(d, m)
  PROVE  /\ inbox' \in [Displays -> [Message -> Nat]]
         /\ \A e \in Displays, n \in Message :
              inbox'[e][n] = IF e = d /\ n = m THEN inbox[e][n] + 1 ELSE inbox[e][n]
BY DEF Hand

\* One connection changes.
LEMMA PipeFacts ==
  ASSUME pipe \in [Clients -> [Displays -> Seq(Part)]],
         NEW c \in Clients, NEW d \in Displays, NEW q \in Seq(Part),
         pipe' = [pipe EXCEPT ![c][d] = q]
  PROVE  /\ pipe' \in [Clients -> [Displays -> Seq(Part)]]
         /\ \A b \in Clients, e \in Displays :
              pipe'[b][e] = IF b = c /\ e = d THEN q ELSE pipe[b][e]
OBVIOUS

\* The parts of a sequence are parts.
LEMMA PartFacts ==
  ASSUME NEW p \in Seq(Part)
  PROVE  /\ Len(p) \in Nat
         /\ p # <<>> <=> Len(p) > 0
         /\ \A i \in 1 .. Len(p) : p[i] \in Part /\ p[i].tile \in Tile /\ p[i].part \in 0 .. DataParts
<1>1. Len(p) \in Nat /\ (p = <<>> <=> Len(p) = 0)
  BY LenProperties, EmptySeq
<1>2. ASSUME NEW i \in 1 .. Len(p) PROVE p[i] \in Part
  BY ElementOfSeq
<1>3. \A q \in Part : q.tile \in Tile /\ q.part \in 0 .. DataParts
  BY DEF Part
<1>4. QED
  BY <1>1, <1>2, <1>3

-----------------------------------------------------------------------------
(* What the invariant owes to the variables that a step leaves alone.      *)

\* Steps inside a client: what the displays and the connections hold stays.
LEMMA QuietStep ==
  ASSUME IInv, UNCHANGED <<pipe, reading, inbox, stopped>>,
         given \subseteq given', left \subseteq left'
  PROVE  /\ \A c \in Clients, d \in Displays : InOrder(c, d)' /\ AtDisplay(c, d)'
         /\ TornIsLast'
         /\ \A t \in Tile, d \in Displays : Untouched(t, d)' <=> Untouched(t, d)
<1>1. \A c \in Clients, d \in Displays : Reads(c, d)' <=> Reads(c, d)
  BY DEF Reads
<1>2. \A t \in Tile, d \in Displays : Unheard(t, d)' <=> Unheard(t, d)
  BY DEF Unheard
<1>3. \A d \in Displays : TileRead(d)' = TileRead(d)
  BY DEF TileRead
<1>4. ASSUME NEW c \in Clients, NEW d \in Displays PROVE InOrder(c, d)'
  <2>1. InOrder(c, d)
    BY DEF IInv, WholeMessages
  <2>2. QED
    BY <2>1 DEF InOrder, Unheard, Follows
<1>5. ASSUME NEW c \in Clients, NEW d \in Displays PROVE AtDisplay(c, d)'
  <2>1. AtDisplay(c, d)
    BY DEF IInv, WholeMessages
  <2>2. QED
    BY <1>1, <2>1 DEF AtDisplay, Unheard
<1>6. TornIsLast'
  BY <1>1 DEF IInv, TornIsLast
<1>7. \A t \in Tile, d \in Displays : Untouched(t, d)' <=> Untouched(t, d)
  BY <1>1, <1>2, <1>3 DEF Untouched
<1>8. QED
  BY <1>4, <1>5, <1>6, <1>7

\* A step that leaves the memory of a client alone, and brings nothing near a
\* display but what is out of that memory already.
LEMMA StaysFresh ==
  ASSUME IInv, NEW c \in Clients, given \subseteq given',
         tilesToSend'[c] = tilesToSend[c], compressor'[c] = compressor[c],
         outbox'[c] = outbox[c], sending'[c] = sending[c],
         \A t \in Tile, d \in Displays :
           From[t] = c /\ Untouched(t, d) => Untouched(t, d)'
  PROVE  ClientIsFresh(c)'
<1>1. Inside(c)' = Inside(c) /\ Encoded(c)' = Encoded(c)
  BY DEF Inside, Encoded
<1>2. ClientIsFresh(c)
  BY DEF IInv
<1>3. OnePlaceEach(c)'
  BY <1>1, <1>2 DEF ClientIsFresh, OnePlaceEach
<1>4. InsideIsFresh(c)'
  <2>1. Inside(c) \subseteq Tile
    BY DEF IInv, TypeOK, Inside, Encoded, Range
  <2>2. QED
    BY <1>1, <1>2, <2>1 DEF ClientIsFresh, InsideIsFresh
<1>5. SendingIsFresh(c)'
  BY <1>2 DEF ClientIsFresh, SendingIsFresh, IInv, TypeOK, Sending
<1>6. QED
  BY <1>3, <1>4, <1>5 DEF ClientIsFresh


-----------------------------------------------------------------------------
(* The types.                                                              *)

\* What the send thread works on after a part has its type, too.
LEMMA AfterPartFacts ==
  ASSUME NEW s \in Sending
  PROVE  LET rest == s.to \ {FirstRank(s.to)}
         IN  /\ FirstRank(s.to) \in s.to /\ FirstRank(s.to) \in Displays
             /\ s.part < DataParts =>
                  AfterPart(s) = [tile |-> s.tile, to |-> s.to, part |-> s.part + 1]
             /\ s.part = DataParts /\ rest # {} =>
                  AfterPart(s) = [tile |-> s.tile, to |-> rest, part |-> 0]
             /\ s.part = DataParts /\ rest = {} => AfterPart(s) = Nothing
             /\ AfterPart(s) \in {Nothing} \cup Sending
<1> DEFINE rest == s.to \ {FirstRank(s.to)}
<1>1. FirstRank(s.to) \in s.to /\ FirstRank(s.to) \in Displays
  BY FirstRankFacts DEF Sending
<1>2. /\ s = [tile |-> s.tile, to |-> s.to, part |-> s.part]
      /\ s.tile \in Tile /\ s.to \in (SUBSET Displays) \ {{}} /\ s.part \in 0 .. DataParts
  BY DEF Sending
<1>3. rest \in SUBSET Displays
  BY <1>2
<1>4. CASE s.part < DataParts
  <2>1. AfterPart(s) = [tile |-> s.tile, to |-> s.to, part |-> s.part + 1]
    BY <1>2, <1>4 DEF AfterPart
  <2>2. s.part + 1 \in 0 .. DataParts
    BY <1>2, <1>4
  <2>3. QED
    BY <1>1, <1>2, <1>4, <2>1, <2>2 DEF Sending
<1>5. CASE s.part = DataParts /\ rest # {}
  <2>1. AfterPart(s) = [tile |-> s.tile, to |-> rest, part |-> 0]
    BY <1>2, <1>5 DEF AfterPart
  <2>2. QED
    BY <1>1, <1>2, <1>3, <1>5, <2>1 DEF Sending
<1>6. CASE s.part = DataParts /\ rest = {}
  BY <1>1, <1>2, <1>6 DEF AfterPart
<1>7. QED
  BY <1>2, <1>4, <1>5, <1>6

\* A display makes a message of the parts it has.
LEMMA MessageOfFacts ==
  ASSUME NEW parts \in Seq(Part), Len(parts) >= 1
  PROVE  /\ parts[1].tile \in Tile
         /\ MessageOf(parts) \in {Whole(parts[1].tile), Torn(parts[1].tile)}
         /\ MessageOf(parts) \in Message
<1>1. parts[1] \in Part
  BY ElementOfSeq, 1 \in 1 .. Len(parts), LenProperties
<1>2. QED
  BY <1>1, MessageFacts DEF MessageOf, Part

\* A thread of a client does something.
LEMMA ClientTypes ==
  ASSUME TypeOK,
         \/ \E t \in Tile : Put(t)
         \/ \E c \in Clients, k \in Threads : Compressor(c, k) \/ WakeUp(c, k)
         \/ \E c \in Clients : GetMessage(c) \/ Exit(c)
  PROVE  TypeOK'
<1>1. ASSUME NEW t \in Tile, Put(t) PROVE TypeOK'
  <2>1. From[t] \in Clients /\ given' \subseteq Tile
    BY <1>1 DEF Put, TypeOK
  <2>2. tilesToSend' \in [Clients -> Seq(Tile)]
    BY <1>1, <2>1 DEF Put, TypeOK
  <2>3. compressor' \in [Clients -> [Threads -> {"awake", "asleep"} \cup Tile]]
    <3>1. CASE InState(From[t], "asleep") = {}
      BY <1>1, <3>1 DEF Put, TypeOK, NotifyOne
    <3>2. CASE InState(From[t], "asleep") # {}
      <4>1. PICK k \in Threads : compressor' = [compressor EXCEPT ![From[t]][k] = "awake"]
        BY <1>1, <3>2 DEF Put, NotifyOne, InState
      <4>2. QED
        BY <2>1, <4>1 DEF TypeOK
    <3>3. QED
      BY <3>1, <3>2
  <2>4. QED
    BY <1>1, <2>1, <2>2, <2>3 DEF Put, TypeOK, displayVars
<1>2. ASSUME NEW c \in Clients, NEW k \in Threads, Take(c, k) PROVE TypeOK'
  <2>1. Head(tilesToSend[c]) \in Tile /\ Tail(tilesToSend[c]) \in Seq(Tile)
    BY <1>2, HeadTailProperties DEF Take, TypeOK
  <2>2. QED
    BY <1>2, <2>1 DEF Take, TypeOK, displayVars
<1>3. ASSUME NEW c \in Clients, NEW k \in Threads, Wait(c, k) \/ WakeUp(c, k) PROVE TypeOK'
  <2>1. compressor' \in [Clients -> [Threads -> {"awake", "asleep"} \cup Tile]]
    <3>1. PICK state \in {"awake", "asleep"} :
            compressor' = [compressor EXCEPT ![c][k] = state]
      BY <1>3 DEF Wait, WakeUp
    <3>2. QED
      BY <3>1 DEF TypeOK
  <2>2. QED
    BY <1>3, <2>1 DEF Wait, WakeUp, TypeOK, displayVars
<1>4. ASSUME NEW c \in Clients, NEW k \in Threads, SendTo(c, k) PROVE TypeOK'
  BY <1>4 DEF SendTo, TypeOK, displayVars
<1>5. ASSUME NEW c \in Clients, GetMessage(c) PROVE TypeOK'
  <2> DEFINE t == Head(outbox[c])
  <2>1. t \in Tile /\ Tail(outbox[c]) \in Seq(Tile)
    BY <1>5, HeadTailProperties DEF GetMessage, TypeOK
  <2>2. Reach[t] # {} => [tile |-> t, to |-> Reach[t], part |-> 0] \in Sending
    BY <2>1 DEF Sending
  <2>3. sending' \in [Clients -> {Nothing} \cup Sending]
    BY <1>5, <2>2 DEF GetMessage, TypeOK
  <2>4. QED
    BY <1>5, <2>1, <2>3 DEF GetMessage, TypeOK, displayVars
<1>6. ASSUME NEW c \in Clients, Exit(c) PROVE TypeOK'
  <2>1. left' \subseteq Clients /\ left \subseteq left'
    BY <1>6 DEF Exit, TypeOK
  <2>2. reset' \subseteq left' \X {0} /\ hungUp' \in [Displays -> SUBSET left']
    BY <1>6, <2>1 DEF Exit, TypeOK, displayVars
  <2>3. <<>> \in Seq(Tile)
    OBVIOUS
  <2>4. /\ tilesToSend' \in [Clients -> Seq(Tile)]
        /\ compressor' \in [Clients -> [Threads -> {"awake", "asleep"} \cup Tile]]
        /\ outbox' \in [Clients -> Seq(Tile)]
        /\ sending' \in [Clients -> {Nothing} \cup Sending]
    BY <1>6, <2>3 DEF Exit, TypeOK
  <2>5. QED
    BY <1>6, <2>1, <2>2, <2>4 DEF Exit, TypeOK, displayVars
<1>7. QED
  BY <1>1, <1>2, <1>3, <1>4, <1>5, <1>6 DEF Compressor

\* A connection changes.
LEMMA ConnectionTypes ==
  ASSUME TypeOK,
         \/ \E c \in Clients : WritePart(c)
         \/ \E c \in Clients : \E kept \in 0 .. Len(pipe[c][0]) : TokenToNobody(c, kept)
  PROVE  TypeOK'
<1>1. ASSUME NEW c \in Clients, WritePart(c) PROVE TypeOK'
  <2> DEFINE s == sending[c]
             d == FirstRank(s.to)
             q == Append(pipe[c][d], [tile |-> s.tile, part |-> s.part])
  <2>1. s \in Sending
    BY <1>1 DEF WritePart, TypeOK
  <2>2. d \in Displays /\ AfterPart(s) \in {Nothing} \cup Sending
    BY <2>1, AfterPartFacts
  <2>3. sending' \in [Clients -> {Nothing} \cup Sending]
    BY <1>1, <2>2 DEF WritePart, TypeOK
  <2>4. pipe[c][d] \in Seq(Part) /\ [tile |-> s.tile, part |-> s.part] \in Part
    <3>1. [tile |-> s.tile, part |-> s.part] \in Part
      BY <2>1 DEF Sending, Part
    <3>2. QED
      BY <2>2, <3>1 DEF TypeOK
  <2>5. q \in Seq(Part) /\ Len(q) = Len(pipe[c][d]) + 1 /\ Len(pipe[c][d]) \in Nat
    BY <2>4, AppendProperties, LenProperties
  <2>6. /\ pipe' \in [Clients -> [Displays -> Seq(Part)]]
        /\ \A b \in Clients, e \in Displays : Len(pipe'[b][e]) <= PipeSize
    <3>1. CASE d \in stopped
      BY <1>1, <3>1 DEF WritePart, TypeOK
    <3>2. CASE d \notin stopped
      <4>1. pipe' = [pipe EXCEPT ![c][d] = q] /\ Len(pipe[c][d]) < PipeSize
        BY <1>1, <3>2 DEF WritePart
      <4> HIDE DEF q, d
      <4>2. /\ pipe' \in [Clients -> [Displays -> Seq(Part)]]
            /\ \A b \in Clients, e \in Displays :
                 pipe'[b][e] = IF b = c /\ e = d THEN q ELSE pipe[b][e]
        BY <2>2, <2>5, <4>1, PipeFacts DEF TypeOK
      <4>3. QED
        BY <2>5, <4>1, <4>2 DEF TypeOK
    <3>3. QED
      BY <3>1, <3>2
  <2>7. QED
    BY <1>1, <2>3, <2>6 DEF WritePart, TypeOK, displayVars
<1>2. ASSUME NEW c \in Clients, NEW kept \in 0 .. Len(pipe[c][0]), TokenToNobody(c, kept)
      PROVE  TypeOK'
  <2> DEFINE d == 0
             q == SubSeq(pipe[c][d], 1, kept)
  <2>1. d \in Displays
    BY DEF Displays
  <2>2. pipe' = [pipe EXCEPT ![c][d] = q] /\ reset' = reset \cup {<<c, 0>>} /\ c \in left
    BY <1>2 DEF TokenToNobody
  <2>3. kept \in 0 .. Len(pipe[c][d])
    OBVIOUS
  <2> HIDE DEF d
  <2>4. pipe[c][d] \in Seq(Part) /\ Len(pipe[c][d]) \in Nat
    BY <2>1, LenProperties DEF TypeOK
  <2>5. q \in Seq(Part) /\ Len(q) <= Len(pipe[c][d]) /\ Len(q) \in Nat
    BY <2>3, <2>4, SubSeqProperties
  <2> HIDE DEF q
  <2>6. /\ pipe' \in [Clients -> [Displays -> Seq(Part)]]
        /\ \A b \in Clients, e \in Displays : Len(pipe'[b][e]) <= PipeSize
    <3>1. /\ pipe' \in [Clients -> [Displays -> Seq(Part)]]
          /\ \A b \in Clients, e \in Displays :
               pipe'[b][e] = IF b = c /\ e = d THEN q ELSE pipe[b][e]
      BY <2>1, <2>2, <2>5, PipeFacts DEF TypeOK
    <3>2. Len(pipe[c][d]) <= PipeSize
      BY <2>1 DEF TypeOK
    <3>3. Len(q) <= PipeSize
      BY <2>4, <2>5, <3>2
    <3>4. QED
      BY <3>1, <3>3 DEF TypeOK
  <2>7. reset' \subseteq left \X {0}
    BY <2>2 DEF TypeOK
  <2>8. QED
    BY <1>2, <2>6, <2>7 DEF TokenToNobody, TypeOK, displayVars, memory
<1>3. QED
  BY <1>1, <1>2

\* A display does something.
LEMMA DisplayTypes ==
  ASSUME TypeOK, NEW d \in Displays, ReceiveThread(d)
  PROVE  TypeOK'
<1>1. CASE Poll(d)
  <2>1. Readable(d) \subseteq Clients
    BY DEF Readable
  <2>2. {c \in Readable(d) : <<c, d>> \in reset} \subseteq left
    BY DEF TypeOK
  <2>3. ready' \in [Displays -> SUBSET Clients] /\ hungUp' \in [Displays -> SUBSET left]
    BY <1>1, <2>1, <2>2 DEF Poll, TypeOK
  <2>4. \A e \in Displays : hungUp'[e] \subseteq ready'[e]
    BY <1>1 DEF Poll, TypeOK
  <2>5. QED
    BY <1>1, <2>3, <2>4 DEF Poll, TypeOK, memory
<1>2. ASSUME NEW c \in Clients, Serve(c, d)
      PROVE  /\ ready' \in [Displays -> SUBSET Clients]
             /\ hungUp' \in [Displays -> SUBSET left]
             /\ \A e \in Displays : hungUp'[e] \subseteq ready'[e]
  BY <1>2 DEF Serve, TypeOK
<1>3. ASSUME NEW c \in Clients, pipe[c][d] # <<>>, ReadFrom(c, d)
      PROVE  /\ pipe' \in [Clients -> [Displays -> Seq(Part)]]
             /\ \A b \in Clients, e \in Displays : Len(pipe'[b][e]) <= PipeSize
             /\ Head(pipe[c][d]) \in Part
  <2> DEFINE q == Tail(pipe[c][d])
  <2>1. pipe[c][d] \in Seq(Part) /\ Len(pipe[c][d]) <= PipeSize
    BY DEF TypeOK
  <2>2. q \in Seq(Part) /\ Len(q) = Len(pipe[c][d]) - 1 /\ Len(pipe[c][d]) \in Nat
        /\ Head(pipe[c][d]) \in Part
    BY <1>3, <2>1, HeadTailProperties, LenProperties
  <2>3. pipe' = [pipe EXCEPT ![c][d] = q]
    BY <1>3 DEF ReadFrom
  <2> HIDE DEF q
  <2>4. /\ pipe' \in [Clients -> [Displays -> Seq(Part)]]
        /\ \A b \in Clients, e \in Displays :
             pipe'[b][e] = IF b = c /\ e = d THEN q ELSE pipe[b][e]
    BY <2>2, <2>3, PipeFacts DEF TypeOK
  <2>5. Len(q) <= PipeSize
    BY <2>1, <2>2
  <2>6. QED
    BY <2>2, <2>4, <2>5 DEF TypeOK
<1>4. ASSUME NEW c \in Clients, ReceiveSize(c, d) PROVE TypeOK'
  <2> DEFINE h == Head(pipe[c][d])
  <2>1. h \in Part
    BY <1>3, <1>4 DEF ReceiveSize
  <2>2. <<h>> \in Seq(Part) /\ Len(<<h>>) = 1
    BY <2>1
  <2>3. reading' = [reading EXCEPT ![d] = [from |-> c, parts |-> <<h>>]]
    BY <1>4 DEF ReceiveSize
  <2> HIDE DEF h
  <2>4. /\ reading' \in [Displays -> {Nothing} \cup Reading]
        /\ \A e \in Displays : reading'[e] # Nothing => Len(reading'[e].parts) \in 1 .. DataParts
    <3>1. [from |-> c, parts |-> <<h>>] \in Reading
      BY <2>2 DEF Reading
    <3>2. QED
      BY <2>2, <2>3, <3>1 DEF TypeOK
  <2>5. QED
    BY <1>2, <1>3, <1>4, <2>4 DEF ReceiveSize, TypeOK, memory
<1>5. CASE ReceiveData(d)
  <2> DEFINE r == reading[d]
             h == Head(pipe[r.from][d])
             parts == Append(r.parts, h)
  <2>1. r \in Reading /\ Len(r.parts) \in 1 .. DataParts
    BY <1>5 DEF ReceiveData, TypeOK
  <2>2. r.from \in Clients /\ r.parts \in Seq(Part)
    BY <2>1 DEF Reading
  <2>3. /\ pipe' \in [Clients -> [Displays -> Seq(Part)]]
        /\ \A b \in Clients, e \in Displays : Len(pipe'[b][e]) <= PipeSize
        /\ h \in Part
    BY <1>3, <1>5, <2>2 DEF ReceiveData
  <2> HIDE DEF h
  <2>4. parts \in Seq(Part) /\ Len(parts) = Len(r.parts) + 1
    BY <2>2, <2>3, AppendProperties
  <2>5. CASE Len(parts) <= DataParts
    <3>1. reading' = [reading EXCEPT ![d].parts = parts] /\ UNCHANGED inbox
      BY <1>5, <2>5 DEF ReceiveData, h
    <3> HIDE DEF parts
    <3>2. Len(parts) \in 1 .. DataParts
      BY <2>1, <2>4, <2>5
    <3>3. reading'[d] = [from |-> r.from, parts |-> parts]
      BY <2>1, <3>1 DEF Reading, TypeOK
    <3>4. reading'[d] \in Reading /\ reading'[d].parts = parts
      BY <2>2, <2>4, <3>3 DEF Reading
    <3>5. /\ reading' \in [Displays -> {Nothing} \cup Reading]
          /\ \A e \in Displays : reading'[e] # Nothing => Len(reading'[e].parts) \in 1 .. DataParts
      BY <3>1, <3>2, <3>4 DEF TypeOK
    <3>6. QED
      BY <1>5, <2>3, <3>1, <3>5 DEF ReceiveData, TypeOK, memory
  <2>6. CASE ~ (Len(parts) <= DataParts)
    <3>1. reading' = [reading EXCEPT ![d] = Nothing] /\ Hand(d, MessageOf(parts))
      BY <1>5, <2>6 DEF ReceiveData, h
    <3> HIDE DEF parts
    <3>2. MessageOf(parts) \in Message
      BY <2>1, <2>2, <2>4, MessageOfFacts, LenProperties
    <3>3. inbox' \in [Displays -> [Message -> Nat]]
      BY <3>1, <3>2, HandFacts DEF TypeOK
    <3>4. QED
      BY <1>5, <2>3, <3>1, <3>3 DEF ReceiveData, TypeOK, memory
  <2>7. QED
    BY <2>5, <2>6
<1>6. CASE ReceiveTorn(d)
  <2> DEFINE r == reading[d]
  <2>1. r \in Reading /\ Len(r.parts) \in 1 .. DataParts
    BY <1>6 DEF ReceiveTorn, TypeOK
  <2>2. MessageOf(r.parts) \in Message
    BY <2>1, MessageOfFacts DEF Reading
  <2>3. inbox' \in [Displays -> [Message -> Nat]]
    BY <1>6, <2>2, HandFacts DEF ReceiveTorn, TypeOK
  <2>4. QED
    BY <1>6, <2>3 DEF ReceiveTorn, TypeOK, memory
<1>7. CASE Stop(d)
  <2>1. <<>> \in Seq(Part) /\ Len(<<>>) = 0
    OBVIOUS
  <2>2. /\ pipe' \in [Clients -> [Displays -> Seq(Part)]]
        /\ \A b \in Clients, e \in Displays : Len(pipe'[b][e]) <= PipeSize
    BY <1>7, <2>1 DEF Stop, TypeOK
  <2>3. QED
    BY <1>7, <2>2 DEF Stop, TypeOK, memory
<1>8. ASSUME NEW c \in Clients, ReceiveNothing(c, d), ~ Stop(d) PROVE TypeOK'
  <2>1. Serve(c, d) /\ (UNCHANGED inbox \/ Hand(d, MadeUp))
    BY <1>8 DEF ReceiveNothing
  <2>2. inbox' \in [Displays -> [Message -> Nat]]
    BY <2>1, MessageFacts, HandFacts DEF TypeOK
  <2>3. UNCHANGED <<given, left, memory, pipe, reset, reading, stopped>>
    BY <1>8 DEF ReceiveNothing
  <2>4. QED
    BY <1>2, <2>1, <2>2, <2>3 DEF TypeOK, memory
<1>9. QED
  BY <1>1, <1>4, <1>5, <1>6, <1>7, <1>8 DEF ReceiveThread, ExitHungUp

-----------------------------------------------------------------------------
(* No core idles while a tile waits.                                       *)

\* One thread changes its state.
LEMMA InStateFacts ==
  ASSUME TypeOK, NEW c \in Clients, NEW k \in Threads, NEW state,
         compressor' = [compressor EXCEPT ![c][k] = state]
  PROVE  /\ \A b \in Clients \ {c} : /\ InState(b, "awake")' = InState(b, "awake")
                                      /\ InState(b, "asleep")' = InState(b, "asleep")
         /\ state = "awake" => InState(c, "awake")' = InState(c, "awake") \cup {k}
         /\ state # "awake" => InState(c, "awake")' = InState(c, "awake") \ {k}
         /\ state # "asleep" => InState(c, "asleep")' = InState(c, "asleep") \ {k}
<1>1. \A b \in Clients, l \in Threads :
        compressor'[b][l] = IF b = c /\ l = k THEN state ELSE compressor[b][l]
  BY DEF TypeOK
<1>2. QED
  BY <1>1 DEF InState

\* The threads in a state can be counted.
LEMMA AwakeFacts ==
  ASSUME NEW c \in Clients
  PROVE  LET awake == InState(c, "awake")
         IN  /\ Cardinality(awake) \in Nat
             /\ \A k \in Threads \ awake :
                  Cardinality(awake \cup {k}) = Cardinality(awake) + 1
             /\ \A k \in awake : Cardinality(awake \ {k}) = Cardinality(awake) - 1
<1>1. IsFiniteSet(InState(c, "awake"))
  BY FS_Subset DEF InState
<1>2. QED
  BY <1>1, FS_CardinalityType, FS_AddElement, FS_RemoveElement

\* A thread of a client does something.
LEMMA NobodyIdles ==
  ASSUME TypeOK, NoCoreIdles,
         \/ \E t \in Tile : Put(t)
         \/ \E c \in Clients, k \in Threads : Compressor(c, k) \/ WakeUp(c, k)
         \/ \E c \in Clients : GetMessage(c) \/ Exit(c)
  PROVE  NoCoreIdles'
<1> DEFINE Awake(c) == Cardinality(InState(c, "awake"))
           Fine(c) == InState(c, "asleep") # {} => Awake(c) >= Len(tilesToSend[c])
<1>0. \A c \in Clients : /\ Fine(c)
                         /\ Awake(c) \in Nat
                         /\ tilesToSend[c] \in Seq(Tile)
                         /\ Len(tilesToSend[c]) \in Nat
  BY AwakeFacts, LenProperties DEF NoCoreIdles, TypeOK
<1>1. ASSUME NEW t \in Tile, Put(t) PROVE NoCoreIdles'
  <2> DEFINE c == From[t]
             asleep == InState(c, "asleep")
  <2>1. c \in Clients /\ NotifyOne(c)
    BY <1>1 DEF Put
  <2>2. /\ tilesToSend' \in [Clients -> Seq(Tile)]
        /\ Len(tilesToSend'[c]) = Len(tilesToSend[c]) + 1
        /\ \A b \in Clients \ {c} : tilesToSend'[b] = tilesToSend[b]
    <3>1. tilesToSend' = [tilesToSend EXCEPT ![c] = Append(@, t)]
      BY <1>1 DEF Put
    <3>2. Append(tilesToSend[c], t) \in Seq(Tile)
          /\ Len(Append(tilesToSend[c], t)) = Len(tilesToSend[c]) + 1
      BY <1>0, <2>1, AppendProperties
    <3>3. QED
      BY <2>1, <3>1, <3>2 DEF TypeOK
  <2> HIDE DEF c
  <2>3. CASE asleep = {}
    <3>1. UNCHANGED compressor
      BY <2>1, <2>3 DEF NotifyOne
    <3>2. \A b \in Clients : \A x : InState(b, x)' = InState(b, x)
      BY <3>1 DEF InState
    <3>3. QED
      BY <2>2, <2>3, <3>2 DEF NoCoreIdles
  <2>4. CASE asleep # {}
    <3>1. PICK k \in asleep : compressor' = [compressor EXCEPT ![c][k] = "awake"]
      BY <2>1, <2>4 DEF NotifyOne
    <3>2. k \in Threads /\ k \notin InState(c, "awake")
      BY DEF InState
    <3>3. /\ \A b \in Clients \ {c} : /\ InState(b, "awake")' = InState(b, "awake")
                                       /\ InState(b, "asleep")' = InState(b, "asleep")
          /\ InState(c, "awake")' = InState(c, "awake") \cup {k}
      BY <2>1, <3>1, <3>2, InStateFacts
    <3>4. Awake(c)' = Awake(c) + 1 /\ Awake(c) >= Len(tilesToSend[c])
      BY <1>0, <2>1, <2>4, <3>2, <3>3, AwakeFacts
    <3>5. Awake(c)' >= Len(tilesToSend[c])'
      BY <1>0, <2>1, <2>2, <3>4
    <3> HIDE DEF Awake
    <3>6. QED
      BY <2>2, <3>3, <3>5 DEF NoCoreIdles, Awake
  <2>5. QED
    BY <2>3, <2>4
<1>2. ASSUME NEW c \in Clients, NEW k \in Threads, Take(c, k) PROVE NoCoreIdles'
  <2> DEFINE h == Head(tilesToSend[c])
  <2>1. /\ Len(Tail(tilesToSend[c])) = Len(tilesToSend[c]) - 1
        /\ h \in Tile
    BY <1>0, <1>2, HeadTailProperties DEF Take
  <2>2. /\ compressor' = [compressor EXCEPT ![c][k] = h]
        /\ tilesToSend' = [tilesToSend EXCEPT ![c] = Tail(@)]
        /\ k \in InState(c, "awake")
    BY <1>2 DEF Take, InState
  <2> HIDE DEF h
  <2>3. /\ \A b \in Clients \ {c} : /\ InState(b, "awake")' = InState(b, "awake")
                                     /\ InState(b, "asleep")' = InState(b, "asleep")
        /\ InState(c, "awake")' = InState(c, "awake") \ {k}
        /\ InState(c, "asleep")' \subseteq InState(c, "asleep")
    <3>1. h # "awake" /\ h # "asleep"
      BY <2>1
    <3>2. QED
      BY <2>2, <3>1, InStateFacts
  <2>4. Awake(c)' = Awake(c) - 1
    BY <2>2, <2>3, AwakeFacts
  <2>5. /\ Len(tilesToSend'[c]) = Len(tilesToSend[c]) - 1
        /\ \A b \in Clients \ {c} : tilesToSend'[b] = tilesToSend[b]
    BY <2>1, <2>2 DEF TypeOK
  <2>6. Fine(c)'
    <3>1. InState(c, "asleep")' # {} => InState(c, "asleep") # {}
      BY <2>3
    <3>2. /\ InState(c, "asleep") # {} => Awake(c) >= Len(tilesToSend[c])
          /\ Awake(c) \in Nat /\ Len(tilesToSend[c]) \in Nat
      BY <1>0
    <3> HIDE DEF Awake
    <3>3. InState(c, "asleep")' # {} => Awake(c)' >= Len(tilesToSend'[c])
      BY ONLY <2>4, <2>5, <3>1, <3>2
    <3>4. QED
      BY <3>3
  <2> HIDE DEF Awake
  <2>7. QED
    BY <1>0, <2>3, <2>5, <2>6 DEF NoCoreIdles, Awake
<1>3. ASSUME NEW c \in Clients, NEW k \in Threads, Wait(c, k) PROVE NoCoreIdles'
  <2>1. /\ compressor' = [compressor EXCEPT ![c][k] = "asleep"]
        /\ UNCHANGED tilesToSend
        /\ tilesToSend[c] = <<>>
    BY <1>3 DEF Wait
  <2>2. \A b \in Clients \ {c} : /\ InState(b, "awake")' = InState(b, "awake")
                                  /\ InState(b, "asleep")' = InState(b, "asleep")
    BY <2>1, InStateFacts
  <2>3. Awake(c)' \in Nat /\ Len(tilesToSend'[c]) = 0
    <3>1. IsFiniteSet(InState(c, "awake")')
      BY FS_Subset DEF InState
    <3>2. QED
      BY <2>1, <3>1, FS_CardinalityType
  <2>4. Awake(c)' >= Len(tilesToSend'[c])
    BY <2>3
  <2> HIDE DEF Awake
  <2>5. QED
    BY <2>1, <2>2, <2>4 DEF NoCoreIdles, Awake
<1>4. ASSUME NEW c \in Clients, NEW k \in Threads, SendTo(c, k) \/ WakeUp(c, k)
      PROVE  NoCoreIdles'
  <2>1. /\ compressor' = [compressor EXCEPT ![c][k] = "awake"]
        /\ UNCHANGED tilesToSend
        /\ k \notin InState(c, "awake")
    BY <1>4 DEF SendTo, WakeUp, InState
  <2>2. /\ \A b \in Clients \ {c} : /\ InState(b, "awake")' = InState(b, "awake")
                                     /\ InState(b, "asleep")' = InState(b, "asleep")
        /\ InState(c, "awake")' = InState(c, "awake") \cup {k}
        /\ InState(c, "asleep")' \subseteq InState(c, "asleep")
    BY <2>1, InStateFacts
  <2>3. Awake(c)' = Awake(c) + 1
    BY <2>1, <2>2, AwakeFacts
  <2>4. Fine(c)'
    BY <1>0, <2>1, <2>2, <2>3
  <2> HIDE DEF Awake
  <2>5. QED
    BY <2>1, <2>2, <2>4 DEF NoCoreIdles, Awake
<1>5. ASSUME NEW c \in Clients, GetMessage(c) PROVE NoCoreIdles'
  BY <1>5 DEF GetMessage, NoCoreIdles, InState
<1>6. ASSUME NEW c \in Clients, Exit(c) PROVE NoCoreIdles'
  <2>1. InState(c, "asleep")' = {}
    BY <1>6 DEF Exit, InState, TypeOK
  <2>2. \A b \in Clients \ {c} : /\ InState(b, "awake")' = InState(b, "awake")
                                 /\ InState(b, "asleep")' = InState(b, "asleep")
                                 /\ tilesToSend'[b] = tilesToSend[b]
    BY <1>6 DEF Exit, InState, TypeOK
  <2>3. QED
    BY <2>1, <2>2 DEF NoCoreIdles
<1>7. QED
  BY <1>1, <1>2, <1>3, <1>4, <1>5, <1>6 DEF Compressor

-----------------------------------------------------------------------------
(* The invariant: inside a client.                                         *)

LEMMA InitIInv == Init => IInv
<1> SUFFICES ASSUME Init PROVE IInv
  OBVIOUS
<1>1. /\ <<>> \in Seq(Tile) /\ <<>> \in Seq(Part)
      /\ Len(<<>>) = 0
      /\ Range(<<>>) = {} /\ IsInjective(<<>>)
  BY DEF Range, IsInjective
<1>2. TypeOK
  BY <1>1 DEF Init, TypeOK
<1>3. NoCoreIdles
  BY DEF Init, NoCoreIdles, InState
<1>4. \A t \in Tile, d \in Displays : Untouched(t, d)
  BY <1>1, MessageFacts DEF Init, Untouched, Unheard, Reads
<1>5. \A c \in Clients : Inside(c) = {}
  BY <1>1 DEF Init, Inside, Encoded
<1>6. \A c \in Clients : ClientIsFresh(c)
  BY <1>1, <1>5 DEF Init, ClientIsFresh, OnePlaceEach, InsideIsFresh, SendingIsFresh, Encoded
<1>7. WholeMessages
  BY <1>1 DEF Init, WholeMessages, InOrder, AtDisplay, AtSender, Reads, Writes
<1>8. TornIsLast
  BY MessageFacts DEF Init, TornIsLast
<1>9. GoneIsGone
  BY DEF Init, GoneIsGone
<1>10. QED
  BY <1>2, <1>3, <1>4, <1>6, <1>7, <1>8, <1>9 DEF IInv, RestIsFresh

\* What a step of a thread of one client leaves to be shown.
LEMMA InsideOneClient ==
  ASSUME IInv, TypeOK', NoCoreIdles', NEW c \in Clients,
         UNCHANGED <<pipe, reading, inbox, stopped>>,
         given \subseteq given', left \subseteq left', left' \subseteq left \cup {c},
         c \notin left,
         \A b \in Clients \ {c} : /\ tilesToSend'[b] = tilesToSend[b]
                                  /\ compressor'[b] = compressor[b]
                                  /\ outbox'[b] = outbox[b]
                                  /\ sending'[b] = sending[b],
         c \in left' => Inside(c)' = {} /\ sending'[c] = Nothing /\ InState(c, "asleep")' = {},
         \/ sending'[c] = sending[c]
         \/ c \in left'
         \/ sending[c] = Nothing /\ (sending'[c] = Nothing \/ sending'[c].part = 0),
         ClientIsFresh(c)'
  PROVE  IInv'
<1>1. /\ \A b \in Clients, d \in Displays : InOrder(b, d)' /\ AtDisplay(b, d)'
      /\ TornIsLast'
      /\ \A t \in Tile, d \in Displays : Untouched(t, d)' <=> Untouched(t, d)
  BY QuietStep
<1>2. ASSUME NEW b \in Clients PROVE ClientIsFresh(b)'
  BY <1>1, StaysFresh
<1>3. RestIsFresh'
  BY <1>1 DEF IInv, RestIsFresh
<1>4. ASSUME NEW b \in Clients, NEW d \in Displays, b \notin left', d \notin stopped'
      PROVE  AtSender(b, d)'
  <2>1. AtSender(b, d)
    BY <1>4 DEF IInv, WholeMessages
  <2>2. Reads(b, d)' <=> Reads(b, d)
    BY DEF Reads
  <2>3. CASE sending'[b] = sending[b]
    BY <2>1, <2>2, <2>3 DEF AtSender, Writes
  <2>4. CASE sending'[b] # sending[b]
    <3>1. ~ Writes(b, d) /\ ~ Writes(b, d)'
      BY <1>4, <2>4 DEF Writes
    <3>2. QED
      BY <2>1, <2>2, <3>1 DEF AtSender
  <2>5. QED
    BY <2>3, <2>4
<1>5. GoneIsGone'
  <2>1. \A b \in Clients \ {c} : Inside(b)' = Inside(b) /\ InState(b, "asleep")' = InState(b, "asleep")
    BY DEF Inside, Encoded, InState
  <2>2. \A b \in left' : Inside(b)' = {} /\ sending'[b] = Nothing /\ InState(b, "asleep")' = {}
    BY <2>1 DEF IInv, TypeOK, GoneIsGone
  <2>3. QED
    BY <2>2 DEF IInv, GoneIsGone
<1>6. QED
  BY <1>1, <1>2, <1>3, <1>4, <1>5 DEF IInv, WholeMessages

\* A compressor thread of a client puts a tile down, or takes one up that no
\* other has.
LEMMA EncodedFacts ==
  ASSUME TypeOK, NEW c \in Clients, NEW k \in Threads,
         NEW state \in {"awake", "asleep"} \cup Tile,
         compressor' = [compressor EXCEPT ![c][k] = state],
         OnePlaceEach(c)
  PROVE  LET old == compressor[c][k]
             each == \A j, l \in Threads :
                       compressor[c][j] \in Tile /\ compressor[c][j] = compressor[c][l] => j = l
         IN  /\ state \notin Tile => each' /\ Encoded(c)' = Encoded(c) \ {old}
             /\ state \in Tile /\ old \notin Tile /\ state \notin Encoded(c) =>
                  each' /\ Encoded(c)' = Encoded(c) \cup {state}
<1>1. \A l \in Threads : compressor'[c][l] = IF l = k THEN state ELSE compressor[c][l]
  BY DEF TypeOK
<1>2. \A j, l \in Threads :
        compressor[c][j] \in Tile /\ compressor[c][j] = compressor[c][l] => j = l
  BY DEF OnePlaceEach
<1>3. QED
  BY <1>1, <1>2 DEF Encoded

LEMMA PutStep ==
  ASSUME IInv, NEW t \in Tile, Put(t)
  PROVE  IInv'
<1> DEFINE c == From[t]
<1>1. TypeOK' /\ NoCoreIdles'
  BY ClientTypes, NobodyIdles DEF IInv
<1>2. /\ c \in Clients /\ c \notin left /\ NotifyOne(c)
      /\ t \notin given /\ given' = given \cup {t}
      /\ tilesToSend' = [tilesToSend EXCEPT ![c] = Append(@, t)]
      /\ UNCHANGED <<left, outbox, sending, pipe, reading, inbox, stopped>>
  BY DEF Put, displayVars
<1> HIDE DEF c
<1>3. /\ TypeOK /\ ClientIsFresh(c)
      /\ tilesToSend[c] \in Seq(Tile)
      /\ \A d \in Displays : Untouched(t, d)
  BY <1>2 DEF IInv, TypeOK, RestIsFresh
<1>4. /\ \A b \in Clients \ {c} : compressor'[b] = compressor[b]
      /\ Encoded(c)' = Encoded(c)
      /\ \A k, l \in Threads :
           compressor'[c][k] \in Tile /\ compressor'[c][k] = compressor'[c][l] => k = l
  <2>1. CASE UNCHANGED compressor
    BY <1>3, <2>1 DEF Encoded, ClientIsFresh, OnePlaceEach
  <2>2. CASE compressor' # compressor
    <3>1. PICK k \in Threads : /\ compressor' = [compressor EXCEPT ![c][k] = "awake"]
                              /\ compressor[c][k] = "asleep"
      BY <1>2, <2>2 DEF NotifyOne, InState
    <3>2. "asleep" \notin Encoded(c)
      BY DEF Encoded
    <3>3. /\ Encoded(c)' = Encoded(c) \ {compressor[c][k]}
          /\ \A j, l \in Threads :
               compressor'[c][j] \in Tile /\ compressor'[c][j] = compressor'[c][l] => j = l
      BY <1>2, <1>3, <3>1, EncodedFacts DEF ClientIsFresh
    <3>4. Encoded(c)' = Encoded(c)
      BY <3>1, <3>2, <3>3
    <3>5. \A b \in Clients \ {c} : compressor'[b] = compressor[b]
      BY <1>3, <3>1 DEF TypeOK
    <3>6. QED
      BY <3>3, <3>4, <3>5
  <2>3. QED
    BY <2>1, <2>2
<1>5. t \notin Inside(c)
  BY <1>2, <1>3 DEF ClientIsFresh, InsideIsFresh
<1>6. /\ Range(tilesToSend'[c]) = Range(tilesToSend[c]) \cup {t}
      /\ IsInjective(tilesToSend'[c])
  <2>1. tilesToSend'[c] = Append(tilesToSend[c], t)
    BY <1>2 DEF IInv, TypeOK
  <2>2. IsInjective(tilesToSend[c]) /\ t \notin Range(tilesToSend[c])
    BY <1>3, <1>5 DEF ClientIsFresh, OnePlaceEach, Inside
  <2>3. QED
    BY <1>3, <2>1, <2>2, AppendFacts
<1>7. Inside(c)' = Inside(c) \cup {t}
  BY <1>2, <1>4, <1>6 DEF Inside
<1>8. OnePlaceEach(c)'
  <2>1. sending[c] # Nothing => sending[c].tile # t
    BY <1>2, <1>3 DEF ClientIsFresh, SendingIsFresh
  <2>2. QED
    BY <1>2, <1>3, <1>4, <1>5, <1>6, <1>7, <2>1 DEF ClientIsFresh, OnePlaceEach, Inside
<1>9. \A u \in Tile, d \in Displays : Untouched(u, d)' <=> Untouched(u, d)
  BY <1>2, QuietStep
<1>10. InsideIsFresh(c)' /\ SendingIsFresh(c)'
  <2>1. Inside(c) \subseteq Tile
    BY <1>2 DEF IInv, TypeOK, Inside, Encoded, Range
  <2>2. InsideIsFresh(c)'
    BY <1>2, <1>3, <1>7, <1>9, <2>1 DEF ClientIsFresh, InsideIsFresh, c
  <2>3. SendingIsFresh(c)'
    BY <1>2, <1>3, <1>9 DEF ClientIsFresh, SendingIsFresh, TypeOK, Sending
  <2>4. QED
    BY <2>2, <2>3
<1>11. \A b \in Clients \ {c} : tilesToSend'[b] = tilesToSend[b]
  BY <1>2, <1>3 DEF TypeOK
<1>12. QED
  BY <1>1, <1>2, <1>4, <1>8, <1>10, <1>11, InsideOneClient DEF ClientIsFresh

LEMMA TakeStep ==
  ASSUME IInv, NEW c \in Clients, NEW k \in Threads, Take(c, k)
  PROVE  IInv'
<1> DEFINE t == Head(tilesToSend[c])
<1>1. TypeOK' /\ NoCoreIdles'
  BY ClientTypes, NobodyIdles DEF IInv, Compressor
<1>2. /\ c \notin left
      /\ compressor[c][k] = "awake" /\ tilesToSend[c] # <<>>
      /\ compressor' = [compressor EXCEPT ![c][k] = t]
      /\ tilesToSend' = [tilesToSend EXCEPT ![c] = Tail(@)]
      /\ UNCHANGED <<given, left, outbox, sending, pipe, reading, inbox, stopped>>
  BY DEF Take, displayVars
<1>3. TypeOK /\ ClientIsFresh(c) /\ OnePlaceEach(c) /\ tilesToSend[c] \in Seq(Tile)
  BY DEF IInv, TypeOK, ClientIsFresh
<1>4. /\ t \in Range(tilesToSend[c]) /\ t \in Tile
      /\ Range(tilesToSend[c]) = Range(Tail(tilesToSend[c])) \cup {t}
      /\ IsInjective(Tail(tilesToSend[c])) /\ t \notin Range(Tail(tilesToSend[c]))
  BY <1>2, <1>3, TailFacts, HeadTailProperties DEF OnePlaceEach
<1>5. tilesToSend'[c] = Tail(tilesToSend[c])
  BY <1>2, <1>3 DEF TypeOK
<1> HIDE DEF t
<1>6. /\ Encoded(c)' = Encoded(c) \cup {t}
      /\ \A j, l \in Threads :
           compressor'[c][j] \in Tile /\ compressor'[c][j] = compressor'[c][l] => j = l
  <2>1. t \notin Encoded(c) /\ compressor[c][k] \notin Tile
    BY <1>2, <1>3, <1>4 DEF OnePlaceEach
  <2>2. QED
    BY <1>2, <1>3, <1>4, <2>1, EncodedFacts
<1>7. Inside(c)' = Inside(c)
  BY <1>2, <1>4, <1>5, <1>6 DEF Inside
<1>8. OnePlaceEach(c)'
  <2>1. t \notin Range(outbox[c])
    BY <1>3, <1>4 DEF OnePlaceEach
  <2>2. QED
    BY <1>2, <1>3, <1>4, <1>5, <1>6, <1>7, <2>1 DEF OnePlaceEach
<1>9. \A u \in Tile, d \in Displays : Untouched(u, d)' <=> Untouched(u, d)
  BY <1>2, QuietStep
<1>10. InsideIsFresh(c)' /\ SendingIsFresh(c)'
  <2>1. Inside(c) \subseteq Tile
    BY DEF IInv, TypeOK, Inside, Encoded, Range
  <2>2. InsideIsFresh(c)'
    BY <1>2, <1>3, <1>7, <1>9, <2>1 DEF ClientIsFresh, InsideIsFresh
  <2>3. SendingIsFresh(c)'
    BY <1>2, <1>3, <1>9 DEF ClientIsFresh, SendingIsFresh, TypeOK, Sending
  <2>4. QED
    BY <2>2, <2>3
<1>11. \A b \in Clients \ {c} : tilesToSend'[b] = tilesToSend[b] /\ compressor'[b] = compressor[b]
  BY <1>2, <1>3 DEF TypeOK
<1>12. QED
  BY <1>1, <1>2, <1>8, <1>10, <1>11, InsideOneClient DEF ClientIsFresh

LEMMA SleepStep ==
  ASSUME IInv, NEW c \in Clients, NEW k \in Threads, Wait(c, k) \/ WakeUp(c, k)
  PROVE  IInv'
<1>1. TypeOK' /\ NoCoreIdles'
  BY ClientTypes, NobodyIdles DEF IInv, Compressor
<1>2. /\ c \notin left
      /\ compressor[c][k] \notin Tile
      /\ UNCHANGED <<given, left, tilesToSend, outbox, sending, pipe, reading, inbox, stopped>>
  BY DEF Wait, WakeUp, displayVars
<1>3. PICK state \in {"awake", "asleep"} : compressor' = [compressor EXCEPT ![c][k] = state]
  BY DEF Wait, WakeUp
<1>4. TypeOK /\ ClientIsFresh(c) /\ OnePlaceEach(c)
  BY DEF IInv, ClientIsFresh
<1>5. /\ Encoded(c)' = Encoded(c)
      /\ \A j, l \in Threads :
           compressor'[c][j] \in Tile /\ compressor'[c][j] = compressor'[c][l] => j = l
  <2>1. compressor[c][k] \notin Encoded(c) /\ state \notin Tile
    BY <1>2 DEF Encoded
  <2>2. /\ Encoded(c)' = Encoded(c) \ {compressor[c][k]}
        /\ \A j, l \in Threads :
             compressor'[c][j] \in Tile /\ compressor'[c][j] = compressor'[c][l] => j = l
    BY <1>3, <1>4, <2>1, EncodedFacts
  <2>3. QED
    BY <2>1, <2>2
<1>6. Inside(c)' = Inside(c)
  BY <1>2, <1>5 DEF Inside
<1>7. OnePlaceEach(c)'
  BY <1>2, <1>4, <1>5, <1>6 DEF OnePlaceEach
<1>8. \A u \in Tile, d \in Displays : Untouched(u, d)' <=> Untouched(u, d)
  BY <1>2, QuietStep
<1>9. InsideIsFresh(c)' /\ SendingIsFresh(c)'
  <2>1. Inside(c) \subseteq Tile
    BY DEF IInv, TypeOK, Inside, Encoded, Range
  <2>2. InsideIsFresh(c)'
    BY <1>2, <1>4, <1>6, <1>8, <2>1 DEF ClientIsFresh, InsideIsFresh
  <2>3. SendingIsFresh(c)'
    BY <1>2, <1>4, <1>8 DEF ClientIsFresh, SendingIsFresh, TypeOK, Sending
  <2>4. QED
    BY <2>2, <2>3
<1>10. \A b \in Clients \ {c} : compressor'[b] = compressor[b]
  BY <1>3, <1>4 DEF TypeOK
<1>11. QED
  BY <1>1, <1>2, <1>7, <1>9, <1>10, InsideOneClient DEF ClientIsFresh

LEMMA SendToStep ==
  ASSUME IInv, NEW c \in Clients, NEW k \in Threads, SendTo(c, k)
  PROVE  IInv'
<1> DEFINE t == compressor[c][k]
<1>1. TypeOK' /\ NoCoreIdles'
  BY ClientTypes, NobodyIdles DEF IInv, Compressor
<1>2. /\ c \notin left /\ t \in Tile
      /\ compressor' = [compressor EXCEPT ![c][k] = "awake"]
      /\ outbox' = [outbox EXCEPT ![c] = Append(@, t)]
      /\ UNCHANGED <<given, left, tilesToSend, sending, pipe, reading, inbox, stopped>>
  BY DEF SendTo, displayVars
<1>3. TypeOK /\ ClientIsFresh(c) /\ OnePlaceEach(c) /\ outbox[c] \in Seq(Tile)
  BY DEF IInv, TypeOK, ClientIsFresh
<1>4. /\ Encoded(c)' = Encoded(c) \ {t} /\ t \in Encoded(c)
      /\ \A j, l \in Threads :
           compressor'[c][j] \in Tile /\ compressor'[c][j] = compressor'[c][l] => j = l
  <2>1. t \in Encoded(c)
    BY <1>2 DEF Encoded
  <2>2. QED
    BY <1>2, <1>3, <2>1, EncodedFacts
<1> HIDE DEF t
<1>5. /\ Range(outbox'[c]) = Range(outbox[c]) \cup {t}
      /\ IsInjective(outbox'[c])
  <2>1. outbox'[c] = Append(outbox[c], t)
    BY <1>2, <1>3 DEF TypeOK
  <2>2. t \notin Range(outbox[c]) /\ IsInjective(outbox[c])
    BY <1>3, <1>4 DEF OnePlaceEach
  <2>3. QED
    BY <1>2, <1>3, <2>1, <2>2, AppendFacts
<1>6. Inside(c)' = Inside(c)
  BY <1>2, <1>4, <1>5 DEF Inside
<1>7. OnePlaceEach(c)'
  BY <1>2, <1>3, <1>4, <1>5, <1>6 DEF OnePlaceEach
<1>8. \A u \in Tile, d \in Displays : Untouched(u, d)' <=> Untouched(u, d)
  BY <1>2, QuietStep
<1>9. InsideIsFresh(c)' /\ SendingIsFresh(c)'
  <2>1. Inside(c) \subseteq Tile
    BY DEF IInv, TypeOK, Inside, Encoded, Range
  <2>2. InsideIsFresh(c)'
    BY <1>2, <1>3, <1>6, <1>8, <2>1 DEF ClientIsFresh, InsideIsFresh
  <2>3. SendingIsFresh(c)'
    BY <1>2, <1>3, <1>8 DEF ClientIsFresh, SendingIsFresh, TypeOK, Sending
  <2>4. QED
    BY <2>2, <2>3
<1>10. \A b \in Clients \ {c} : outbox'[b] = outbox[b] /\ compressor'[b] = compressor[b]
  BY <1>2, <1>3 DEF TypeOK
<1>11. QED
  BY <1>1, <1>2, <1>7, <1>9, <1>10, InsideOneClient DEF ClientIsFresh

LEMMA GetMessageStep ==
  ASSUME IInv, NEW c \in Clients, GetMessage(c)
  PROVE  IInv'
<1> DEFINE t == Head(outbox[c])
<1>1. TypeOK' /\ NoCoreIdles'
  BY ClientTypes, NobodyIdles DEF IInv
<1>2. /\ c \notin left /\ sending[c] = Nothing /\ outbox[c] # <<>>
      /\ sending' = [sending EXCEPT ![c] =
                       IF Reach[t] = {} THEN Nothing ELSE [tile |-> t, to |-> Reach[t], part |-> 0]]
      /\ outbox' = [outbox EXCEPT ![c] = Tail(@)]
      /\ UNCHANGED <<given, left, tilesToSend, compressor, pipe, reading, inbox, stopped>>
  BY DEF GetMessage, displayVars
<1>3. TypeOK /\ ClientIsFresh(c) /\ OnePlaceEach(c) /\ outbox[c] \in Seq(Tile)
  BY DEF IInv, TypeOK, ClientIsFresh
<1>4. /\ t \in Range(outbox[c]) /\ t \in Tile
      /\ Range(outbox[c]) = Range(Tail(outbox[c])) \cup {t}
      /\ IsInjective(Tail(outbox[c])) /\ t \notin Range(Tail(outbox[c]))
  BY <1>2, <1>3, TailFacts, HeadTailProperties DEF OnePlaceEach
<1> HIDE DEF t
<1>5. /\ outbox'[c] = Tail(outbox[c])
      /\ sending'[c] # Nothing => sending'[c] = [tile |-> t, to |-> Reach[t], part |-> 0]
  BY <1>2, <1>3 DEF TypeOK
<1>6. /\ Encoded(c)' = Encoded(c)
      /\ Inside(c)' = Inside(c) \ {t} /\ t \in Inside(c)
  <2>1. Encoded(c)' = Encoded(c)
    BY <1>2 DEF Encoded
  <2>2. t \notin Encoded(c) /\ t \notin Range(tilesToSend[c])
    BY <1>3, <1>4 DEF OnePlaceEach
  <2>3. QED
    BY <1>2, <1>4, <1>5, <2>1, <2>2 DEF Inside
<1>7. OnePlaceEach(c)'
  BY <1>2, <1>3, <1>4, <1>5, <1>6 DEF OnePlaceEach
<1>8. \A u \in Tile, d \in Displays : Untouched(u, d)' <=> Untouched(u, d)
  BY <1>2, QuietStep
<1>9. InsideIsFresh(c)' /\ SendingIsFresh(c)'
  <2>1. Inside(c) \subseteq Tile
    BY DEF IInv, TypeOK, Inside, Encoded, Range
  <2>2. InsideIsFresh(c)'
    BY <1>2, <1>3, <1>6, <1>8, <2>1 DEF ClientIsFresh, InsideIsFresh
  <2>3. From[t] = c /\ t \in given /\ \A d \in Displays : Untouched(t, d)
    BY <1>3, <1>6 DEF ClientIsFresh, InsideIsFresh
  <2>4. Reach[t] \subseteq Displays
    BY <1>4
  <2>5. SendingIsFresh(c)'
    BY <1>2, <1>4, <1>5, <1>8, <2>3, <2>4 DEF SendingIsFresh
  <2>6. QED
    BY <2>2, <2>5
<1>10. \A b \in Clients \ {c} : outbox'[b] = outbox[b] /\ sending'[b] = sending[b]
  BY <1>2, <1>3 DEF TypeOK
<1>11. sending'[c] = Nothing \/ sending'[c].part = 0
  BY <1>5
<1>12. QED
  BY <1>1, <1>2, <1>7, <1>9, <1>10, <1>11, InsideOneClient DEF ClientIsFresh

LEMMA ExitStep ==
  ASSUME IInv, NEW c \in Clients, Exit(c)
  PROVE  IInv'
<1>1. TypeOK' /\ NoCoreIdles'
  BY ClientTypes, NobodyIdles DEF IInv
<1>2. /\ c \notin left /\ left' = left \cup {c}
      /\ UNCHANGED <<given, pipe, reading, inbox, stopped>>
  BY DEF Exit, displayVars
<1>3. /\ tilesToSend'[c] = <<>> /\ outbox'[c] = <<>> /\ sending'[c] = Nothing
      /\ \A k \in Threads : compressor'[c][k] = "awake"
      /\ \A b \in Clients \ {c} : /\ tilesToSend'[b] = tilesToSend[b]
                                 /\ compressor'[b] = compressor[b]
                                 /\ outbox'[b] = outbox[b]
                                 /\ sending'[b] = sending[b]
  BY DEF Exit, IInv, TypeOK
<1>4. /\ Range(<<>>) = {} /\ IsInjective(<<>>)
  BY DEF Range, IsInjective
<1>5. Encoded(c)' = {} /\ Inside(c)' = {} /\ InState(c, "asleep")' = {}
  BY <1>3, <1>4 DEF Encoded, Inside, InState
<1>6. ClientIsFresh(c)'
  BY <1>3, <1>4, <1>5 DEF ClientIsFresh, OnePlaceEach, InsideIsFresh, SendingIsFresh
<1>7. QED
  BY <1>1, <1>2, <1>3, <1>5, <1>6, InsideOneClient

-----------------------------------------------------------------------------
(* The invariant: the connections.                                         *)

\* A connection of which nothing changes, at either end.
LEMMA ConnectionStays ==
  ASSUME IInv, NEW c \in Clients, NEW d \in Displays,
         given' = given, pipe'[c][d] = pipe[c][d],
         Reads(c, d)' <=> Reads(c, d),
         Reads(c, d) => reading'[d] = reading[d],
         \A t \in Tile : From[t] = c => (Unheard(t, d)' <=> Unheard(t, d)),
         sending'[c] = sending[c] \/ (~ Writes(c, d) /\ ~ Writes(c, d)')
  PROVE  /\ InOrder(c, d)'
         /\ AtDisplay(c, d)'
         /\ AtSender(c, d) => AtSender(c, d)'
<1>1. InOrder(c, d) /\ AtDisplay(c, d)
  BY DEF IInv, WholeMessages
<1>2. /\ pipe[c][d] \in Seq(Part)
      /\ \A i \in 1 .. Len(pipe[c][d]) : pipe[c][d][i].tile \in Tile
  <2>1. pipe[c][d] \in Seq(Part)
    BY DEF IInv, TypeOK
  <2>2. QED
    BY <2>1, PartFacts
<1>3. Reads(c, d) => reading[d].parts[1].tile \in Tile
  BY MessageOfFacts DEF IInv, TypeOK, Reads, Reading
<1>4. InOrder(c, d)'
  BY <1>1, <1>2 DEF InOrder, Follows
<1>5. AtDisplay(c, d)'
  BY <1>1, <1>3 DEF AtDisplay
<1>6. AtSender(c, d) => AtSender(c, d)'
  <2>1. CASE sending'[c] = sending[c]
    <3>1. Writes(c, d)' <=> Writes(c, d)
      BY <2>1 DEF Writes
    <3>2. QED
      BY <1>1, <1>2, <2>1, <3>1 DEF AtSender, AtDisplay
  <2>2. CASE ~ Writes(c, d) /\ ~ Writes(c, d)'
    BY <2>2 DEF AtSender
  <2>3. QED
    BY <2>1, <2>2
<1>7. QED
  BY <1>4, <1>5, <1>6

\* What makes a connection one of whole messages, after a step that changes it.
LEMMA OrderNext ==
  ASSUME NEW c \in Clients, NEW d \in Displays, NEW q, pipe'[c][d] = q, given' = given,
         \A i \in 1 .. Len(q) : /\ From[q[i].tile] = c
                               /\ q[i].tile \in given
                               /\ d \in Reach[q[i].tile]
                               /\ Unheard(q[i].tile, d)',
         \A i, j \in 1 .. Len(q) : q[i] = q[j] => i = j,
         \A i \in 1 .. Len(q) - 1 : Follows(q[i + 1], q[i])
  PROVE  InOrder(c, d)'
<1>1. \A i \in 1 .. Len(pipe'[c][d]) :
        /\ From[pipe'[c][d][i].tile] = c /\ pipe'[c][d][i].tile \in given'
        /\ d \in Reach[pipe'[c][d][i].tile] /\ Unheard(pipe[c][d][i].tile, d)'
  BY DEF Unheard
<1>2. /\ \A i, j \in 1 .. Len(pipe'[c][d]) : pipe'[c][d][i] = pipe'[c][d][j] => i = j
      /\ \A i \in 1 .. Len(pipe'[c][d]) - 1 : Follows(pipe'[c][d][i + 1], pipe'[c][d][i])
  OBVIOUS
<1>3. QED
  BY <1>1, <1>2 DEF InOrder

\* What makes a display one that has the beginning of a message.
LEMMA ReaderNext ==
  ASSUME NEW c \in Clients, NEW d \in Displays, NEW q, NEW r,
         pipe'[c][d] = q, Reads(c, d)', reading'[d].parts = r, given' = given,
         \A i \in 1 .. Len(r) : r[i] = [tile |-> r[1].tile, part |-> i - 1],
         From[r[1].tile] = c, r[1].tile \in given, d \in Reach[r[1].tile],
         Unheard(r[1].tile, d)',
         q # <<>> => q[1] = [tile |-> r[1].tile, part |-> Len(r)],
         \A i \in 1 .. Len(q) : q[i].tile = r[1].tile => q[i].part >= Len(r)
  PROVE  AtDisplay(c, d)'
<1>1. \A i \in 1 .. Len(reading'[d].parts) :
        reading'[d].parts[i] = [tile |-> reading'[d].parts[1].tile, part |-> i - 1]
  OBVIOUS
<1>2. /\ From[reading'[d].parts[1].tile] = c /\ reading'[d].parts[1].tile \in given'
      /\ d \in Reach[reading'[d].parts[1].tile] /\ Unheard(reading[d].parts[1].tile, d)'
  BY DEF Unheard
<1>3. pipe'[c][d] # <<>> =>
        pipe'[c][d][1] = [tile |-> reading'[d].parts[1].tile, part |-> Len(reading'[d].parts)]
  OBVIOUS
<1>4. \A i \in 1 .. Len(pipe'[c][d]) :
        pipe'[c][d][i].tile = reading'[d].parts[1].tile =>
          pipe'[c][d][i].part >= Len(reading'[d].parts)
  OBVIOUS
<1>5. QED
  BY <1>1, <1>2, <1>3, <1>4 DEF AtDisplay

\* A part is read from p, and q is left of the connection.
ReadOne(c, d, p, q) ==
  /\ p = pipe[c][d] /\ pipe'[c][d] = q
  /\ \A b \in Clients, e \in Displays : b # c \/ e # d => pipe'[b][e] = pipe[b][e]
  /\ Head(p) = p[1] /\ p[1] \in Part
  /\ Len(q) \in Nat /\ Len(p) = Len(q) + 1
  /\ q = <<>> <=> Len(q) = 0
  /\ \A i \in 1 .. Len(q) : q[i] = p[i + 1] /\ q[i] \in Part /\ q[i] # p[1]
  /\ q # <<>> => Follows(q[1], p[1]) /\ q[Len(q)] = p[Len(p)]
  /\ \A i \in 1 .. Len(q) : /\ From[q[i].tile] = c
                           /\ q[i].tile \in given
                           /\ d \in Reach[q[i].tile]
                           /\ Unheard(q[i].tile, d)
  /\ \A i, j \in 1 .. Len(q) : q[i] = q[j] => i = j
  /\ \A i \in 1 .. Len(q) - 1 : Follows(q[i + 1], q[i])

LEMMA RestFacts ==
  ASSUME IInv, NEW c \in Clients, NEW d \in Displays, pipe[c][d] # <<>>, ReadFrom(c, d)
  PROVE  \E p, q \in Seq(Part) : ReadOne(c, d, p, q)
<1>1. pipe[c][d] \in Seq(Part) /\ InOrder(c, d)
  BY DEF IInv, TypeOK, WholeMessages
<1> PICK p \in Seq(Part) : p = pipe[c][d]
  BY <1>1
<1> PICK q : q = Tail(p)
  OBVIOUS
<1>2. /\ q \in Seq(Part) /\ Len(q) = Len(p) - 1 /\ Head(p) = p[1]
      /\ \A i \in 1 .. Len(q) : q[i] = p[i + 1]
  BY HeadTailProperties
<1>3. /\ Len(p) \in Nat /\ Len(p) > 0 /\ Len(q) \in Nat
      /\ q = <<>> <=> Len(q) = 0
      /\ \A i \in 1 .. Len(p) : p[i] \in Part
  <2>1. p # <<>>
    OBVIOUS
  <2>2. /\ Len(p) \in Nat /\ Len(p) > 0
        /\ \A i \in 1 .. Len(p) : p[i] \in Part
    BY <2>1, PartFacts
  <2>3. Len(q) \in Nat /\ (q = <<>> <=> Len(q) = 0)
    BY <1>2, EmptySeq, LenProperties
  <2>4. QED
    BY <2>2, <2>3
<1>4. \A b \in Clients, e \in Displays : pipe'[b][e] = IF b = c /\ e = d THEN q ELSE pipe[b][e]
  BY <1>2, PipeFacts DEF IInv, TypeOK, ReadFrom
<1>5. \A i \in 1 .. Len(q) : i + 1 \in 1 .. Len(p) /\ i + 1 # 1
  BY <1>2, <1>3
<1>6. 1 \in 1 .. Len(p)
  BY <1>3
<1>7. \A i, j \in 1 .. Len(p) : p[i] = p[j] => i = j
  BY <1>1 DEF InOrder
<1>8. \A i \in 1 .. Len(q) : q[i] = p[i + 1] /\ q[i] \in Part /\ q[i] # p[1]
  BY <1>2, <1>3, <1>5, <1>6, <1>7
<1>9. \A i, j \in 1 .. Len(q) : q[i] = q[j] => i = j
  <2>1. \A i, j \in 1 .. Len(q) : i + 1 = j + 1 => i = j
    OBVIOUS
  <2>2. QED
    BY <1>5, <1>7, <1>8, <2>1
<1>10. \A i \in 1 .. Len(q) - 1 : Follows(q[i + 1], q[i])
  <2>1. \A i \in 1 .. Len(q) - 1 : /\ i + 1 \in 1 .. Len(p) - 1
                                  /\ q[i] = p[i + 1] /\ q[i + 1] = p[(i + 1) + 1]
    BY <1>2, <1>3
  <2>2. QED
    BY <1>1, <2>1 DEF InOrder
<1>11. q # <<>> => Follows(q[1], p[1]) /\ q[Len(q)] = p[Len(p)]
  <2>1. q # <<>> => 1 \in 1 .. Len(p) - 1 /\ q[1] = p[1 + 1] /\ q[Len(q)] = p[Len(p)]
    BY <1>2, <1>3
  <2>2. QED
    BY <1>1, <2>1 DEF InOrder
<1>12. \A i \in 1 .. Len(q) : /\ From[q[i].tile] = c
                              /\ q[i].tile \in given
                              /\ d \in Reach[q[i].tile]
                              /\ Unheard(q[i].tile, d)
  BY <1>1, <1>5, <1>8 DEF InOrder
<1>13. ReadOne(c, d, p, q)
  BY <1>2, <1>3, <1>4, <1>6, <1>8, <1>9, <1>10, <1>11, <1>12 DEF ReadOne
<1>14. QED
  BY <1>2, <1>13

\* What a step at the connections of one display leaves to be shown.
LEMMA InsideOneDisplay ==
  ASSUME IInv, TypeOK', NEW d \in Displays,
         UNCHANGED <<given, left, memory>>,
         stopped \subseteq stopped', stopped' \subseteq stopped \cup {d},
         \A e \in Displays \ {d} : /\ \A b \in Clients : pipe'[b][e] = pipe[b][e]
                                   /\ reading'[e] = reading[e]
                                   /\ inbox'[e] = inbox[e],
         \A t \in Tile : Untouched(t, d) => Untouched(t, d)',
         \A b \in Clients : /\ InOrder(b, d)'
                            /\ AtDisplay(b, d)'
                            /\ b \notin left /\ d \notin stopped' => AtSender(b, d)',
         \A t \in Tile : inbox'[d][Torn(t)] > 0 =>
           From[t] \in left /\ pipe'[From[t]][d] = <<>> /\ ~ Reads(From[t], d)',
         d \in stopped' => reading'[d] = Nothing /\ \A b \in Clients : pipe'[b][d] = <<>>
  PROVE  IInv'
<1>1. UNCHANGED <<tilesToSend, compressor, outbox, sending>>
  BY DEF memory
<1>2. \A b \in Clients, e \in Displays \ {d} : Reads(b, e)' <=> Reads(b, e)
  BY DEF Reads
<1>3. \A t \in Tile, e \in Displays \ {d} : Unheard(t, e)' <=> Unheard(t, e)
  BY DEF Unheard
<1>4. \A t \in Tile, e \in Displays : Untouched(t, e) => Untouched(t, e)'
  <2>1. ASSUME NEW t \in Tile, NEW e \in Displays \ {d}, Untouched(t, e) PROVE Untouched(t, e)'
    BY <1>2, <1>3, <2>1 DEF Untouched, TileRead
  <2>2. QED
    BY <2>1
<1>5. NoCoreIdles'
  BY <1>1 DEF IInv, NoCoreIdles, InState
<1>6. ASSUME NEW b \in Clients PROVE ClientIsFresh(b)'
  BY <1>1, <1>4, StaysFresh
<1>7. RestIsFresh'
  BY <1>4 DEF IInv, RestIsFresh
<1>8. ASSUME NEW b \in Clients, NEW e \in Displays
      PROVE  /\ InOrder(b, e)' /\ AtDisplay(b, e)'
             /\ b \notin left' /\ e \notin stopped' => AtSender(b, e)'
  <2>1. CASE e = d
    BY <2>1
  <2>2. CASE e # d
    <3>1. b \notin left' /\ e \notin stopped' => AtSender(b, e)
      BY DEF IInv, WholeMessages
    <3>2. QED
      BY <1>1, <1>2, <1>3, <2>2, <3>1, ConnectionStays
  <2>3. QED
    BY <2>1, <2>2
<1>9. TornIsLast'
  BY <1>2 DEF IInv, TornIsLast
<1>10. GoneIsGone'
  <2>1. \A b \in Clients : Inside(b)' = Inside(b) /\ InState(b, "asleep")' = InState(b, "asleep")
    BY <1>1 DEF Inside, Encoded, InState
  <2>2. ASSUME NEW e \in stopped'
        PROVE  reading'[e] = Nothing /\ \A b \in Clients : pipe'[b][e] = <<>>
    <3>1. CASE e = d
      BY <2>2, <3>1
    <3>2. CASE e # d
      <4>1. e \in stopped /\ e \in Displays
        BY <2>2, <3>2 DEF IInv, TypeOK
      <4>2. reading[e] = Nothing /\ \A b \in Clients : pipe[b][e] = <<>>
        BY <4>1 DEF IInv, GoneIsGone
      <4>3. QED
        BY <3>2, <4>1, <4>2
    <3>3. QED
      BY <3>1, <3>2
  <2>3. QED
    BY <1>1, <2>1, <2>2 DEF IInv, TypeOK, GoneIsGone
<1>11. QED
  BY <1>5, <1>6, <1>7, <1>8, <1>9, <1>10 DEF IInv, WholeMessages

LEMMA PollStep ==
  ASSUME IInv, NEW d \in Displays, Poll(d)
  PROVE  IInv'
<1>1. TypeOK'
  BY DisplayTypes DEF IInv, ReceiveThread
<1>2. UNCHANGED <<given, left, memory, pipe, reading, inbox, stopped>>
  BY DEF Poll
<1>3. \A t \in Tile : Untouched(t, d) => Untouched(t, d)'
  BY <1>2, QuietStep
<1>4. \A b \in Clients : /\ InOrder(b, d)' /\ AtDisplay(b, d)'
                         /\ b \notin left /\ d \notin stopped' => AtSender(b, d)'
  <2>1. UNCHANGED sending
    BY <1>2 DEF memory
  <2>2. \A b \in Clients : Reads(b, d)' <=> Reads(b, d)
    BY <1>2 DEF Reads
  <2>3. \A t \in Tile : Unheard(t, d)' <=> Unheard(t, d)
    BY <1>2 DEF Unheard
  <2>4. QED
    BY <1>2, <2>1, <2>2, <2>3, ConnectionStays DEF IInv, WholeMessages
<1>5. \A t \in Tile : inbox'[d][Torn(t)] > 0 =>
        From[t] \in left /\ pipe'[From[t]][d] = <<>> /\ ~ Reads(From[t], d)'
  BY <1>2 DEF IInv, TornIsLast, Reads
<1>6. d \in stopped' => reading'[d] = Nothing /\ \A b \in Clients : pipe'[b][d] = <<>>
  BY <1>2 DEF IInv, GoneIsGone
<1>7. QED
  BY <1>1, <1>2, <1>3, <1>4, <1>5, <1>6, InsideOneDisplay

LEMMA StopStep ==
  ASSUME IInv, NEW d \in Displays, Stop(d), TypeOK'
  PROVE  IInv'
<1>1. /\ UNCHANGED <<given, left, memory, inbox>>
      /\ stopped' = stopped \cup {d}
      /\ reading'[d] = Nothing
      /\ \A b \in Clients : pipe'[b][d] = <<>>
      /\ \A e \in Displays \ {d} : reading'[e] = reading[e]
      /\ \A b \in Clients, e \in Displays \ {d} : pipe'[b][e] = pipe[b][e]
  BY DEF Stop, IInv, TypeOK
<1>2. Len(<<>>) = 0
  OBVIOUS
<1>3. \A t \in Tile : Untouched(t, d) => Untouched(t, d)'
  BY <1>1, <1>2 DEF Untouched, Unheard, Reads
<1>4. \A b \in Clients : InOrder(b, d)' /\ AtDisplay(b, d)'
  BY <1>1, <1>2 DEF InOrder, AtDisplay, Reads
<1>5. \A t \in Tile : inbox'[d][Torn(t)] > 0 =>
        From[t] \in left /\ pipe'[From[t]][d] = <<>> /\ ~ Reads(From[t], d)'
  BY <1>1 DEF IInv, TornIsLast, Reads
<1>6. QED
  BY <1>1, <1>3, <1>4, <1>5, InsideOneDisplay

LEMMA TokenToNobodyStep ==
  ASSUME IInv, NEW c \in Clients, NEW kept \in 0 .. Len(pipe[c][0]), TokenToNobody(c, kept)
  PROVE  IInv'
<1>0. 0 \in Displays
  BY DEF Displays
<1> PICK d \in Displays : d = 0
  BY <1>0
<1>1. TypeOK'
  BY ConnectionTypes DEF IInv
<1>2. /\ d \in Displays /\ kept \in 0 .. Len(pipe[c][d])
      /\ c \in left /\ d \notin stopped
      /\ pipe' = [pipe EXCEPT ![c][d] = SubSeq(@, 1, kept)]
      /\ UNCHANGED <<given, left, memory, reading, inbox, stopped>>
  BY DEF TokenToNobody, Displays, displayVars
<1>3. pipe[c][d] \in Seq(Part)
  BY <1>2 DEF IInv, TypeOK
<1> PICK p \in Seq(Part) : p = pipe[c][d]
  BY <1>3
<1> PICK q : q = SubSeq(p, 1, kept)
  OBVIOUS
<1>4. /\ kept \in 0 .. Len(p) /\ Len(p) \in Nat
      /\ q \in Seq(Part) /\ Len(q) = kept /\ \A i \in 1 .. kept : q[i] = p[i]
  BY <1>2, PartFacts, SubSeqProperties
<1>5. \A b \in Clients, e \in Displays : pipe'[b][e] = IF b = c /\ e = d THEN q ELSE pipe[b][e]
  BY <1>2, <1>4, PipeFacts DEF IInv, TypeOK
<1>6. /\ \A b \in Clients : Reads(b, d)' <=> Reads(b, d)
      /\ \A t \in Tile : Unheard(t, d)' <=> Unheard(t, d)
      /\ TileRead(d)' = TileRead(d)
      /\ sending' = sending
  BY <1>2 DEF Reads, Unheard, TileRead, memory
<1>7. \A t \in Tile : Untouched(t, d) => Untouched(t, d)'
  BY <1>2, <1>3, <1>4, <1>5, <1>6 DEF Untouched
<1>8. q # <<>> => p # <<>> /\ q[1] = p[1]
  <2>1. q # <<>> => Len(q) # 0
    BY <1>4, PartFacts
  <2>2. QED
    BY <1>4, <2>1, PartFacts
<1>9. InOrder(c, d)'
  <2>1. InOrder(c, d)
    BY <1>2 DEF IInv, WholeMessages
  <2>2. \A i \in 1 .. kept : i \in 1 .. Len(p) /\ q[i] = p[i] /\ p[i].tile \in Tile
    BY <1>4, PartFacts
  <2>3. \A i \in 1 .. kept - 1 : i \in 1 .. Len(p) - 1 /\ q[i] = p[i] /\ q[i + 1] = p[i + 1]
    BY <1>4
  <2>4. pipe'[c][d] = q
    BY <1>2, <1>5
  <2>5. \A i \in 1 .. Len(q) : /\ From[q[i].tile] = c
                               /\ q[i].tile \in given
                               /\ d \in Reach[q[i].tile]
                               /\ Unheard(q[i].tile, d)
                               /\ q[i].tile \in Tile
    BY <1>4, <2>1, <2>2 DEF InOrder
  <2>6. \A i, j \in 1 .. Len(q) : q[i] = q[j] => i = j
    BY <1>4, <2>1, <2>2 DEF InOrder
  <2>7. \A i \in 1 .. Len(q) - 1 : Follows(q[i + 1], q[i])
    BY <1>4, <2>1, <2>3 DEF InOrder
  <2>8. QED
    <3>1. \A i \in 1 .. Len(q) : Unheard(q[i].tile, d)'
      BY <1>6, <2>5
    <3>2. QED
      BY <1>2, <2>4, <2>5, <2>6, <2>7, <3>1, OrderNext
<1>10. AtDisplay(c, d)'
  <2>1. AtDisplay(c, d)
    BY <1>2 DEF IInv, WholeMessages
  <2>2. Reads(c, d) => reading[d].parts[1].tile \in Tile
    BY <1>2, MessageOfFacts DEF IInv, TypeOK, Reads, Reading
  <2>3. \A i \in 1 .. Len(q) : i \in 1 .. Len(p)
    BY <1>4
  <2>4. pipe'[c][d] = q
    BY <1>2, <1>5
  <2>5. q # <<>> => p # <<>> /\ q[1] = p[1]
    BY <1>8
  <2>6. \A i \in 1 .. Len(q) : q[i] = p[i]
    BY <1>4
  <2>7. UNCHANGED <<given, reading>>
    BY <1>2
  <2>8. CASE Reads(c, d)
    <3>1. PICK r : r = reading[d].parts
      OBVIOUS
    <3>2. /\ \A i \in 1 .. Len(r) : r[i] = [tile |-> r[1].tile, part |-> i - 1]
          /\ From[r[1].tile] = c /\ r[1].tile \in given
          /\ d \in Reach[r[1].tile] /\ Unheard(r[1].tile, d)
          /\ p # <<>> => p[1] = [tile |-> r[1].tile, part |-> Len(r)]
          /\ \A i \in 1 .. Len(p) : p[i].tile = r[1].tile => p[i].part >= Len(r)
      BY <2>1, <2>8, <3>1 DEF AtDisplay
    <3>3. Unheard(r[1].tile, d)' /\ Reads(c, d)' /\ reading'[d].parts = r /\ given' = given
      BY <1>6, <2>2, <2>7, <2>8, <3>1, <3>2
    <3>4. /\ q # <<>> => q[1] = [tile |-> r[1].tile, part |-> Len(r)]
          /\ \A i \in 1 .. Len(q) : q[i].tile = r[1].tile => q[i].part >= Len(r)
      BY ONLY <2>3, <2>5, <2>6, <3>2
    <3>5. QED
      BY ONLY <2>4, <3>2, <3>3, <3>4, ReaderNext, c \in Clients, d \in Displays
  <2>9. CASE ~ Reads(c, d)
    BY <1>6, <2>1, <2>4, <2>5, <2>9 DEF AtDisplay
  <2>10. QED
    BY <2>8, <2>9
<1>11. \A b \in Clients : /\ InOrder(b, d)' /\ AtDisplay(b, d)'
                          /\ b \notin left /\ d \notin stopped' => AtSender(b, d)'
  <2>1. \A b \in Clients \ {c} : /\ InOrder(b, d)' /\ AtDisplay(b, d)'
                                 /\ b \notin left /\ d \notin stopped' => AtSender(b, d)'
    BY <1>2, <1>5, <1>6, ConnectionStays DEF IInv, WholeMessages
  <2>2. QED
    BY <1>2, <1>9, <1>10, <2>1
<1>12. \A t \in Tile : inbox'[d][Torn(t)] > 0 =>
         From[t] \in left /\ pipe'[From[t]][d] = <<>> /\ ~ Reads(From[t], d)'
  BY <1>2, <1>5, <1>6, <1>8 DEF IInv, TornIsLast
<1>13. \A e \in Displays \ {d} : /\ \A b \in Clients : pipe'[b][e] = pipe[b][e]
                                 /\ reading'[e] = reading[e]
                                 /\ inbox'[e] = inbox[e]
  BY <1>2, <1>5
<1>14. QED
  BY <1>1, <1>2, <1>7, <1>11, <1>12, <1>13, InsideOneDisplay

\* What keeps the sender's end of a connection, when a part is read from it.
LEMMA SenderNext ==
  ASSUME IInv, NEW c \in Clients, NEW d \in Displays, NEW p \in Seq(Part), NEW q \in Seq(Part),
         ReadOne(c, d, p, q), sending' = sending, AtSender(c, d),
         (/\ q = <<>>
          /\ Writes(c, d)
          /\ p[1] = [tile |-> sending[c].tile, part |-> sending[c].part - 1])
           => /\ Reads(c, d)'
              /\ reading'[d].parts[1].tile = sending[c].tile
              /\ Len(reading'[d].parts) = sending[c].part,
         q = <<>> /\ ~ Writes(c, d) /\ p[1].part = DataParts => ~ Reads(c, d)'
  PROVE  AtSender(c, d)'
<1>1. Writes(c, d)' <=> Writes(c, d)
  BY DEF Writes
<1>2. p # <<>> /\ p[Len(p)] \in Part
  BY PartFacts DEF ReadOne
<1>3. q = <<>> => p[Len(p)] = p[1]
  BY DEF ReadOne
<1>4. CASE Writes(c, d)
  <2>1. /\ p[Len(p)] = [tile |-> sending[c].tile, part |-> sending[c].part - 1]
        /\ \A i \in 1 .. Len(p) : p[i].tile = sending[c].tile => p[i].part < sending[c].part
    BY <1>2, <1>4 DEF AtSender, ReadOne
  <2>2. \A i \in 1 .. Len(q) : q[i].tile = sending[c].tile => q[i].part < sending[c].part
    <3>1. \A i \in 1 .. Len(q) : i + 1 \in 1 .. Len(p) /\ q[i] = p[i + 1]
      BY DEF ReadOne
    <3>2. QED
      BY <2>1, <3>1
  <2>3. q # <<>> => q[Len(q)] = [tile |-> sending[c].tile, part |-> sending[c].part - 1]
    BY <2>1 DEF ReadOne
  <2>4. QED
    BY <1>1, <1>3, <1>4, <2>1, <2>2, <2>3 DEF AtSender, ReadOne
<1>5. CASE ~ Writes(c, d)
  <2>1. p[Len(p)].part = DataParts
    BY <1>2, <1>5 DEF AtSender, ReadOne
  <2>2. q # <<>> => q[Len(q)].part = DataParts
    BY <2>1 DEF ReadOne
  <2>3. q = <<>> => ~ Reads(c, d)'
    BY <1>3, <1>5, <2>1
  <2>4. QED
    BY <1>1, <1>5, <2>2, <2>3 DEF AtSender, ReadOne
<1>6. QED
  BY <1>4, <1>5

LEMMA ReceiveSizeStep ==
  ASSUME IInv, NEW c \in Clients, NEW d \in Displays, ReceiveSize(c, d)
  PROVE  IInv'
<1>1. TypeOK'
  BY DisplayTypes DEF IInv, ReceiveThread
<1>2. /\ d \notin stopped /\ reading[d] = Nothing
      /\ pipe[c][d] # <<>> /\ ReadFrom(c, d)
      /\ reading' = [reading EXCEPT ![d] = [from |-> c, parts |-> <<Head(pipe[c][d])>>]]
      /\ UNCHANGED <<given, left, memory, inbox, stopped>>
  BY DEF ReceiveSize, AtPoll
<1>3. PICK p, q \in Seq(Part) : ReadOne(c, d, p, q)
  BY <1>2, RestFacts
<1> DEFINE t == p[1].tile
<1>4. /\ AtDisplay(c, d) /\ ~ Reads(c, d) /\ p[1].part = 0
      /\ p[1] = [tile |-> t, part |-> 0] /\ t \in Tile
  <2>1. AtDisplay(c, d) /\ ~ Reads(c, d)
    BY <1>2 DEF IInv, WholeMessages, Reads
  <2>2. QED
    BY <1>2, <1>3, <2>1 DEF AtDisplay, Part, ReadOne
<1>5. From[t] = c /\ t \in given /\ d \in Reach[t] /\ Unheard(t, d)
  <2>1. InOrder(c, d) /\ 1 \in 1 .. Len(p)
    BY <1>3 DEF ReadOne, IInv, WholeMessages
  <2>2. QED
    BY <1>3, <2>1 DEF InOrder, ReadOne
<1>5a. [from |-> c, parts |-> <<p[1]>>] \in Reading
  <2>1. <<p[1]>> \in Seq(Part)
    BY <1>3 DEF ReadOne
  <2>2. QED
    BY <2>1 DEF Reading
<1>6. /\ reading'[d] = [from |-> c, parts |-> <<p[1]>>]
      /\ reading'[d] # Nothing
      /\ \A e \in Displays \ {d} : reading'[e] = reading[e]
  <2>1. Head(pipe[c][d]) = p[1]
    BY <1>3 DEF ReadOne
  <2>2. reading \in [Displays -> {Nothing} \cup Reading]
    BY DEF IInv, TypeOK
  <2>3. [from |-> c, parts |-> <<p[1]>>] # Nothing
    BY <1>5a
  <2>4. QED
    BY <1>2, <2>1, <2>2, <2>3
<1>7. /\ Reads(c, d)' /\ \A b \in Clients \ {c} : ~ Reads(b, d) /\ ~ Reads(b, d)'
      /\ reading'[d].parts = <<p[1]>> /\ TileRead(d)' = t
      /\ \A u \in Tile : Unheard(u, d)' <=> Unheard(u, d)
      /\ UNCHANGED sending
  BY <1>2, <1>6 DEF Reads, TileRead, Unheard, memory
<1>8. InOrder(c, d)'
  <2>1. \A i \in 1 .. Len(q) : Unheard(q[i].tile, d)'
    BY <1>3, <1>7, PartFacts DEF ReadOne
  <2>2. QED
    BY <1>2, <1>3, <2>1, OrderNext DEF ReadOne
<1>9. AtDisplay(c, d)'
  <2>1. q # <<>> => q[1] = [tile |-> t, part |-> 1]
    BY <1>3, <1>4 DEF Follows, ReadOne
  <2>2. \A i \in 1 .. Len(q) : q[i].tile = t => q[i].part >= 1
    <3>1. \A i \in 1 .. Len(q) : q[i] = [tile |-> q[i].tile, part |-> q[i].part]
                                /\ q[i].part \in Nat
      BY <1>3 DEF ReadOne, Part
    <3>2. \A i \in 1 .. Len(q) : q[i] # [tile |-> t, part |-> 0]
      BY <1>3, <1>4 DEF ReadOne
    <3> HIDE DEF t
    <3>3. ASSUME NEW i \in 1 .. Len(q), q[i].tile = t PROVE q[i].part >= 1
      <4>1. q[i].part # 0
        BY <3>1, <3>2, <3>3
      <4>2. q[i].part \in Nat
        BY <3>1
      <4>3. QED
        BY <4>1, <4>2
    <3>4. QED
      BY <3>3
  <2>3. PICK r : r = <<p[1]>>
    OBVIOUS
  <2>4. Len(r) = 1 /\ r[1] = p[1]
    BY <2>3
  <2>5. \A i \in 1 .. Len(r) : r[i] = [tile |-> r[1].tile, part |-> i - 1]
    BY <1>4, <2>4
  <2>6. Unheard(r[1].tile, d)'
    BY <1>4, <1>5, <1>7, <2>4
  <2>7. pipe'[c][d] = q /\ Reads(c, d)' /\ reading'[d].parts = r /\ given' = given
    BY <1>2, <1>3, <1>7, <2>3 DEF ReadOne
  <2>8. From[r[1].tile] = c /\ r[1].tile \in given /\ d \in Reach[r[1].tile]
    BY <1>5, <2>4
  <2>9. /\ q # <<>> => q[1] = [tile |-> r[1].tile, part |-> Len(r)]
        /\ \A i \in 1 .. Len(q) : q[i].tile = r[1].tile => q[i].part >= Len(r)
    BY <2>1, <2>2, <2>4
  <2> HIDE DEF t
  <2>10. QED
    BY ONLY <2>5, <2>6, <2>7, <2>8, <2>9, ReaderNext, c \in Clients, d \in Displays
<1>10. AtSender(c, d) => AtSender(c, d)'
  <2>1. ASSUME q = <<>>, p[1] = [tile |-> sending[c].tile, part |-> sending[c].part - 1], Writes(c, d)
        PROVE  /\ Reads(c, d)'
               /\ reading'[d].parts[1].tile = sending[c].tile
               /\ Len(reading'[d].parts) = sending[c].part
    <3>1. sending[c].part \in Int
      BY <2>1 DEF Writes, IInv, TypeOK, Sending
    <3>2. t = sending[c].tile /\ sending[c].part = 1
      BY <1>4, <2>1, <3>1
    <3>3. QED
      BY <1>7, <3>2
  <2>2. p[1].part # DataParts
    BY <1>4
  <2>3. QED
    BY <1>3, <1>7, <2>1, <2>2, SenderNext
<1>11. \A b \in Clients : /\ InOrder(b, d)' /\ AtDisplay(b, d)'
                          /\ b \notin left /\ d \notin stopped' => AtSender(b, d)'
  <2>1. ASSUME NEW b \in Clients \ {c}
        PROVE  /\ InOrder(b, d)' /\ AtDisplay(b, d)'
               /\ b \notin left /\ d \notin stopped' => AtSender(b, d)'
    <3>1. pipe'[b][d] = pipe[b][d]
      BY <1>3 DEF ReadOne
    <3>2. QED
      BY <1>2, <1>7, <3>1, ConnectionStays DEF IInv, WholeMessages
  <2>2. c \notin left /\ d \notin stopped' => AtSender(c, d)'
    BY <1>2, <1>10 DEF IInv, WholeMessages
  <2>3. QED
    BY <1>8, <1>9, <2>1, <2>2
<1>12. \A u \in Tile : Untouched(u, d) => Untouched(u, d)'
  <2>1. ASSUME NEW u \in Tile, Untouched(u, d) PROVE Untouched(u, d)'
    <3>1. \A i \in 1 .. Len(p) : p[i].tile # u
      BY <1>3, <2>1 DEF Untouched, ReadOne
    <3>2. t # u /\ \A i \in 1 .. Len(q) : q[i].tile # u
      <4>1. 1 \in 1 .. Len(p) /\ \A i \in 1 .. Len(q) : i + 1 \in 1 .. Len(p) /\ q[i] = p[i + 1]
        BY <1>3 DEF ReadOne
      <4>2. \A i \in 1 .. Len(q) : q[i].tile # u
        BY ONLY <3>1, <4>1
      <4>3. QED
        BY <3>1, <4>1, <4>2
    <3>3. \A b \in Clients \ {c} : pipe'[b][d] = pipe[b][d]
      BY <1>3 DEF ReadOne
    <3> HIDE DEF t
    <3>4. QED
      BY <1>3, <1>7, <2>1, <3>2, <3>3 DEF Untouched, ReadOne
  <2>2. QED
    BY <2>1
<1>13. \A u \in Tile : inbox'[d][Torn(u)] > 0 =>
         From[u] \in left /\ pipe'[From[u]][d] = <<>> /\ ~ Reads(From[u], d)'
  <2>1. ASSUME NEW u \in Tile, inbox'[d][Torn(u)] > 0
        PROVE  From[u] \in left /\ pipe[From[u]][d] = <<>> /\ From[u] \in Clients \ {c}
    BY <1>2, <2>1 DEF IInv, TornIsLast
  <2>2. QED
    BY <1>3, <1>7, <2>1 DEF ReadOne
<1>14. \A e \in Displays \ {d} : /\ \A b \in Clients : pipe'[b][e] = pipe[b][e]
                                 /\ reading'[e] = reading[e]
                                 /\ inbox'[e] = inbox[e]
  BY <1>2, <1>3, <1>6 DEF ReadOne
<1>15. QED
  BY <1>1, <1>2, <1>11, <1>12, <1>13, <1>14, InsideOneDisplay

LEMMA ReceiveDataStep ==
  ASSUME IInv, NEW c \in Clients, NEW d \in Displays, ReceiveData(d), reading[d].from = c
  PROVE  /\ IInv'
         /\ UNCHANGED <<given, left, stopped>>
         /\ \/ UNCHANGED inbox
            \/ LET t == TileRead(d) IN t \in Tile /\ From[t] = c /\ Hand(d, Whole(t))
<1>1. TypeOK'
  BY DisplayTypes DEF IInv, ReceiveThread
<1>2. /\ d \notin stopped /\ reading[d] # Nothing
      /\ reading[d] \in Reading /\ Len(reading[d].parts) \in 1 .. DataParts
      /\ UNCHANGED <<given, left, memory, stopped>>
      /\ pipe[reading[d].from][d] # <<>> /\ ReadFrom(reading[d].from, d)
  BY DEF ReceiveData, IInv, TypeOK
<1>3. reading[d].parts \in Seq(Part)
  BY <1>2 DEF Reading
<1>3a. PICK r \in Seq(Part) : r = reading[d].parts
  BY <1>3
<1>4. PICK p, q \in Seq(Part) : ReadOne(c, d, p, q)
  BY <1>2, RestFacts
<1>4a. PICK t : t = r[1].tile
  OBVIOUS
<1>5. Reads(c, d) /\ \A b \in Clients \ {c} : ~ Reads(b, d)
  BY <1>2, <1>3a DEF Reads
<1>6. /\ t \in Tile /\ From[t] = c /\ t \in given /\ d \in Reach[t] /\ Unheard(t, d)
      /\ p[1] = [tile |-> t, part |-> Len(r)]
      /\ \A i \in 1 .. Len(r) : r[i] = [tile |-> t, part |-> i - 1]
      /\ \A i \in 1 .. Len(p) : p[i].tile = t => p[i].part >= Len(r)
      /\ Len(r) \in 1 .. DataParts
  <2>1. AtDisplay(c, d) /\ p = pipe[c][d] /\ p # <<>>
    BY <1>2, <1>4 DEF IInv, WholeMessages, ReadOne
  <2>2. t \in Tile
    BY <1>2, <1>3a, <1>4a, MessageOfFacts
  <2>3. QED
    BY <1>2, <1>3a, <1>4a, <1>5, <2>1, <2>2 DEF AtDisplay
<1>6a. PICK a : a = Append(r, p[1])
  OBVIOUS
<1>7. /\ a \in Seq(Part) /\ Len(a) = Len(r) + 1
      /\ \A i \in 1 .. Len(a) : a[i] = [tile |-> t, part |-> i - 1]
      /\ a[1].tile = t
  <2>1. p[1] \in Part
    BY <1>4 DEF ReadOne
  <2>2. /\ a \in Seq(Part) /\ Len(a) = Len(r) + 1
        /\ \A i \in 1 .. Len(r) : a[i] = r[i]
        /\ a[Len(r) + 1] = p[1]
    BY <1>6a, <2>1, AppendProperties
  <2>3. \A i \in 1 .. Len(a) : i \in 1 .. Len(r) \/ i = Len(r) + 1
    BY <1>6, <2>2
  <2>4. \A i \in 1 .. Len(a) : a[i] = [tile |-> t, part |-> i - 1]
    <3>1. ASSUME NEW i \in 1 .. Len(a) PROVE a[i] = [tile |-> t, part |-> i - 1]
      <4>1. CASE i \in 1 .. Len(r)
        BY <1>6, <2>2, <4>1
      <4>2. CASE i = Len(r) + 1
        <5>1. i - 1 = Len(r)
          BY <1>6, <4>2
        <5>2. QED
          BY <1>6, <2>2, <4>2, <5>1
      <4>3. QED
        BY <2>3, <4>1, <4>2
    <3>2. QED
      BY <3>1
  <2>5. 1 \in 1 .. Len(a)
    BY <1>6, <2>2
  <2>6. a[1] = [tile |-> t, part |-> 1 - 1]
    BY <2>4, <2>5
  <2>7. QED
    BY <2>2, <2>4, <2>6
<1>8. IF Len(a) <= DataParts
        THEN reading' = [reading EXCEPT ![d].parts = a] /\ UNCHANGED inbox
        ELSE reading' = [reading EXCEPT ![d] = Nothing] /\ Hand(d, MessageOf(a))
  <2>1. Head(pipe[reading[d].from][d]) = p[1]
    BY <1>4 DEF ReadOne
  <2>2. QED
    BY <1>3a, <1>6a, <2>1 DEF ReceiveData
<1>9. /\ sending' = sending
      /\ \A e \in Displays \ {d} : reading'[e] = reading[e] /\ inbox'[e] = inbox[e]
      /\ \A b \in Clients, e \in Displays : b # c \/ e # d => pipe'[b][e] = pipe[b][e]
  BY <1>2, <1>4, <1>8 DEF memory, IInv, TypeOK, ReadOne, Hand
<1>10. ASSUME NEW i \in 1 .. Len(q), q[i].tile = t PROVE q[i].part >= Len(r) + 1
  <2>1. i + 1 \in 1 .. Len(p) /\ q[i] = p[i + 1] /\ q[i] # p[1]
    BY <1>4 DEF ReadOne
  <2>2. q[i].part >= Len(r)
    BY <1>6, <1>10, <2>1
  <2>3. q[i] = [tile |-> q[i].tile, part |-> q[i].part] /\ q[i].part \in Nat
    BY <1>4 DEF ReadOne, Part
  <2>4. q[i].part # Len(r)
    BY <1>6, <1>10, <2>1, <2>3
  <2>5. q[i].part \in Nat
    BY <2>3
  <2>6. QED
    BY <1>6, <2>2, <2>4, <2>5
<1>11. ASSUME NEW u \in Tile, Untouched(u, d)
       PROVE  u # t /\ Unheard(u, d) /\ \A i \in 1 .. Len(q) : q[i].tile # u
  <2>1. \A i \in 1 .. Len(p) : p[i].tile # u
    BY <1>4, <1>11 DEF Untouched, ReadOne
  <2>2. 1 \in 1 .. Len(p) /\ \A i \in 1 .. Len(q) : i + 1 \in 1 .. Len(p) /\ q[i] = p[i + 1]
    BY <1>4 DEF ReadOne
  <2>3. QED
    BY <1>3a, <1>4a, <1>5, <1>11, <2>1, <2>2 DEF Untouched, TileRead
\* The message is not yet complete.
<1>12. CASE Len(a) <= DataParts
  <2>1. /\ UNCHANGED inbox
        /\ reading'[d].parts = a /\ reading'[d].from = c /\ reading'[d] # Nothing
    <3>1. reading' = [reading EXCEPT ![d].parts = a] /\ UNCHANGED inbox
      BY <1>8, <1>12
    <3>2. reading'[d] = [from |-> c, parts |-> a]
      BY <1>2, <3>1 DEF IInv, TypeOK, Reading
    <3>3. [from |-> c, parts |-> a] \in Reading
      BY <1>7 DEF Reading
    <3>4. QED
      BY <3>1, <3>2, <3>3
  <2>2. /\ Reads(c, d)' /\ TileRead(d)' = t
        /\ \A b \in Clients \ {c} : ~ Reads(b, d)'
        /\ \A u \in Tile : Unheard(u, d)' <=> Unheard(u, d)
    BY <1>7, <2>1 DEF Reads, TileRead, Unheard
  <2>3. InOrder(c, d)'
    <3>1. \A i \in 1 .. Len(q) : Unheard(q[i].tile, d)'
      BY <1>4, <2>2, PartFacts DEF ReadOne
    <3>2. /\ pipe'[c][d] = q /\ given' = given
          /\ \A i \in 1 .. Len(q) : /\ From[q[i].tile] = c
                                   /\ q[i].tile \in given
                                   /\ d \in Reach[q[i].tile]
          /\ \A i, j \in 1 .. Len(q) : q[i] = q[j] => i = j
          /\ \A i \in 1 .. Len(q) - 1 : Follows(q[i + 1], q[i])
      BY <1>2, <1>4 DEF ReadOne
    <3>3. QED
      BY <3>1, <3>2, OrderNext
  <2>4. AtDisplay(c, d)'
    <3>1. q # <<>> => q[1] = [tile |-> t, part |-> Len(a)]
      BY <1>4, <1>6, <1>7, <1>12 DEF Follows, ReadOne
    <3>2. \A i \in 1 .. Len(q) : q[i].tile = t => q[i].part >= Len(a)
      BY <1>7, <1>10
    <3>3. Unheard(a[1].tile, d)'
      BY <1>6, <1>7, <2>2
    <3>4. pipe'[c][d] = q /\ given' = given
      BY <1>2, <1>4 DEF ReadOne
    <3>5. From[a[1].tile] = c /\ a[1].tile \in given /\ d \in Reach[a[1].tile]
      BY <1>6, <1>7
    <3>6. \A i \in 1 .. Len(a) : a[i] = [tile |-> a[1].tile, part |-> i - 1]
      BY <1>7
    <3>7. /\ q # <<>> => q[1] = [tile |-> a[1].tile, part |-> Len(a)]
          /\ \A i \in 1 .. Len(q) : q[i].tile = a[1].tile => q[i].part >= Len(a)
          /\ Reads(c, d)' /\ reading'[d].parts = a
      BY <1>7, <2>1, <2>2, <3>1, <3>2
    <3>8. QED
      BY <3>3, <3>4, <3>5, <3>6, <3>7, ReaderNext
  <2>5. AtSender(c, d) => AtSender(c, d)'
    <3>1. ASSUME q = <<>>, Writes(c, d),
                 p[1] = [tile |-> sending[c].tile, part |-> sending[c].part - 1]
          PROVE  /\ Reads(c, d)'
                 /\ reading'[d].parts[1].tile = sending[c].tile
                 /\ Len(reading'[d].parts) = sending[c].part
      <4>1. sending[c].part \in Int
        BY <3>1 DEF Writes, IInv, TypeOK, Sending
      <4>2. t = sending[c].tile /\ sending[c].part = Len(r) + 1
        BY <1>6, <3>1, <4>1
      <4>3. QED
        BY <1>7, <2>1, <2>2, <4>2
    <3>2. p[1].part # DataParts
      BY <1>6, <1>7, <1>12
    <3>3. QED
      BY <1>4, <1>9, <3>1, <3>2, SenderNext
  <2>6. \A b \in Clients : /\ InOrder(b, d)' /\ AtDisplay(b, d)'
                           /\ b \notin left /\ d \notin stopped' => AtSender(b, d)'
    <3>1. ASSUME NEW b \in Clients \ {c}
          PROVE  /\ InOrder(b, d)' /\ AtDisplay(b, d)'
                 /\ b \notin left /\ d \notin stopped' => AtSender(b, d)'
      BY <1>2, <1>5, <1>9, <2>2, ConnectionStays DEF IInv, WholeMessages
    <3>2. c \notin left /\ d \notin stopped' => AtSender(c, d)'
      BY <1>2, <2>5 DEF IInv, WholeMessages
    <3>3. QED
      BY <2>3, <2>4, <3>1, <3>2
  <2>7. ASSUME NEW u \in Tile, Untouched(u, d) PROVE Untouched(u, d)'
    <3>1. u # t /\ Unheard(u, d)' /\ \A i \in 1 .. Len(q) : q[i].tile # u
      BY <1>11, <2>2, <2>7
    <3>2. pipe'[c][d] = q /\ \A b \in Clients \ {c} : pipe'[b][d] = pipe[b][d]
      BY <1>4 DEF ReadOne
    <3>3. QED
      BY <2>2, <2>7, <3>1, <3>2 DEF Untouched
  <2>8. ASSUME NEW u \in Tile, inbox'[d][Torn(u)] > 0
        PROVE  From[u] \in left /\ pipe'[From[u]][d] = <<>> /\ ~ Reads(From[u], d)'
    <3>1. From[u] \in left /\ pipe[From[u]][d] = <<>> /\ From[u] \in Clients \ {c}
      BY <1>2, <1>5, <2>1, <2>8 DEF IInv, TornIsLast
    <3>2. QED
      BY <1>9, <2>2, <3>1
  <2>9. IInv'
    BY <1>1, <1>2, <1>9, <2>6, <2>7, <2>8, InsideOneDisplay
  <2>10. QED
    BY <1>2, <2>1, <2>9
\* The message is complete.
<1>13. CASE ~ (Len(a) <= DataParts)
  <2>1. Len(r) = DataParts /\ Len(a) = DataParts + 1
    BY <1>6, <1>7, <1>13
  <2>2. MessageOf(a) = Whole(t)
    <3>1. a = AllParts(t)
      <4>1. a \in [1 .. DataParts + 1 -> Part]
        BY <1>7, <2>1, LenProperties
      <4>2. QED
        BY <1>7, <2>1, <4>1 DEF AllParts
    <3>2. QED
      BY <1>7, <3>1 DEF MessageOf
  <2>3. /\ reading'[d] = Nothing
        /\ \A n \in Message : inbox'[d][n] = IF n = Whole(t) THEN inbox[d][n] + 1 ELSE inbox[d][n]
    BY <1>6, <1>8, <1>13, <2>2, HandFacts, MessageFacts DEF IInv, TypeOK
  <2>4. /\ \A b \in Clients : ~ Reads(b, d)'
        /\ \A u \in Tile : u # t => (Unheard(u, d)' <=> Unheard(u, d))
        /\ \A u \in Tile : inbox'[d][Torn(u)] = inbox[d][Torn(u)]
    BY <1>6, <2>3, MessageFacts DEF Reads, Unheard
  <2>5. \A i \in 1 .. Len(q) : q[i].tile # t
    <3>1. \A i \in 1 .. Len(q) : q[i].part <= DataParts /\ q[i].part \in Nat
      BY PartFacts
    <3>2. ASSUME NEW i \in 1 .. Len(q), q[i].tile = t PROVE FALSE
      <4>1. q[i].part >= DataParts + 1 /\ q[i].part <= DataParts
        BY <1>10, <2>1, <3>1, <3>2
      <4>2. q[i].part \in Nat
        BY <3>1
      <4>3. QED
        BY <4>1, <4>2
    <3>3. QED
      BY <3>2
  <2>6. InOrder(c, d)'
    <3>1. \A i \in 1 .. Len(q) : Unheard(q[i].tile, d)'
      BY <1>4, <2>4, <2>5, PartFacts DEF ReadOne
    <3>2. /\ pipe'[c][d] = q /\ given' = given
          /\ \A i \in 1 .. Len(q) : /\ From[q[i].tile] = c
                                   /\ q[i].tile \in given
                                   /\ d \in Reach[q[i].tile]
          /\ \A i, j \in 1 .. Len(q) : q[i] = q[j] => i = j
          /\ \A i \in 1 .. Len(q) - 1 : Follows(q[i + 1], q[i])
      BY <1>2, <1>4 DEF ReadOne
    <3>3. QED
      BY <3>1, <3>2, OrderNext
  <2>7. AtDisplay(c, d)'
    <3>1. q # <<>> => q[1].part = 0
      BY <1>4, <1>6, <2>1 DEF Follows, ReadOne
    <3>2. QED
      BY <1>4, <2>4, <3>1 DEF AtDisplay, ReadOne
  <2>8. AtSender(c, d) => AtSender(c, d)'
    <3>1. ASSUME q = <<>>, Writes(c, d),
                 p[1] = [tile |-> sending[c].tile, part |-> sending[c].part - 1]
          PROVE  FALSE
      <4>1. sending[c].part \in 0 .. DataParts
        BY <3>1 DEF Writes, IInv, TypeOK, Sending
      <4>2. sending[c].part - 1 = DataParts
        BY <1>6, <2>1, <3>1
      <4>3. QED
        BY <4>1, <4>2
    <3>2. QED
      BY <1>4, <1>9, <2>4, <3>1, SenderNext
  <2>9. \A b \in Clients : /\ InOrder(b, d)' /\ AtDisplay(b, d)'
                           /\ b \notin left /\ d \notin stopped' => AtSender(b, d)'
    <3>1. ASSUME NEW b \in Clients \ {c}
          PROVE  /\ InOrder(b, d)' /\ AtDisplay(b, d)'
                 /\ b \notin left /\ d \notin stopped' => AtSender(b, d)'
      <4>1. \A u \in Tile : From[u] = b => (Unheard(u, d)' <=> Unheard(u, d))
        BY <1>6, <2>4
      <4>2. QED
        BY <1>2, <1>5, <1>9, <2>4, <4>1, ConnectionStays DEF IInv, WholeMessages
    <3>2. c \notin left /\ d \notin stopped' => AtSender(c, d)'
      BY <1>2, <2>8 DEF IInv, WholeMessages
    <3>3. QED
      BY <2>6, <2>7, <3>1, <3>2
  <2>10. ASSUME NEW u \in Tile, Untouched(u, d) PROVE Untouched(u, d)'
    <3>1. u # t /\ Unheard(u, d)' /\ \A i \in 1 .. Len(q) : q[i].tile # u
      BY <1>11, <2>4, <2>10
    <3>2. pipe'[c][d] = q /\ \A b \in Clients \ {c} : pipe'[b][d] = pipe[b][d]
      BY <1>4 DEF ReadOne
    <3>3. QED
      BY <2>4, <2>10, <3>1, <3>2 DEF Untouched
  <2>11. ASSUME NEW u \in Tile, inbox'[d][Torn(u)] > 0
         PROVE  From[u] \in left /\ pipe'[From[u]][d] = <<>> /\ ~ Reads(From[u], d)'
    <3>1. From[u] \in left /\ pipe[From[u]][d] = <<>> /\ From[u] \in Clients \ {c}
      BY <1>2, <1>5, <2>4, <2>11 DEF IInv, TornIsLast
    <3>2. QED
      BY <1>9, <2>4, <3>1
  <2>12. IInv'
    BY <1>1, <1>2, <1>9, <2>9, <2>10, <2>11, InsideOneDisplay
  <2>13. Hand(d, Whole(t)) /\ t = TileRead(d)
    BY <1>3a, <1>4a, <1>8, <1>13, <2>2 DEF TileRead
  <2>14. QED
    BY <1>2, <1>6, <2>12, <2>13
<1>14. QED
  BY <1>12, <1>13

LEMMA ReceiveTornStep ==
  ASSUME IInv, NEW c \in Clients, NEW d \in Displays, ReceiveTorn(d), reading[d].from = c
  PROVE  /\ IInv'
         /\ LET t == TileRead(d)
            IN  /\ t \in Tile /\ From[t] = c
                /\ Hand(d, Torn(t))
<1> DEFINE t == TileRead(d)
<1>1. TypeOK'
  BY DisplayTypes DEF IInv, ReceiveThread
<1>2. /\ d \notin stopped /\ reading[d] # Nothing
      /\ reading[d] \in Reading /\ Len(reading[d].parts) \in 1 .. DataParts
      /\ c \in left /\ pipe[c][d] = <<>>
      /\ reading' = [reading EXCEPT ![d] = Nothing]
      /\ Hand(d, MessageOf(reading[d].parts))
      /\ UNCHANGED <<given, left, memory, pipe, stopped>>
  BY DEF ReceiveTorn, IInv, TypeOK
<1>3. t \in Tile
  BY <1>2, MessageOfFacts DEF Reading, TileRead
<1>4. Reads(c, d) /\ \A b \in Clients \ {c} : ~ Reads(b, d)
  BY <1>2 DEF Reads
<1>5. From[t] = c
  BY <1>4 DEF IInv, WholeMessages, AtDisplay, TileRead
<1>6. MessageOf(reading[d].parts) = Torn(t)
  <2>1. Len(AllParts(t)) = DataParts + 1
    BY DEF AllParts
  <2>2. reading[d].parts # AllParts(t)
    BY <1>2, <2>1
  <2>3. QED
    BY <2>2 DEF MessageOf, TileRead
<1> HIDE DEF t
<1>7. /\ reading'[d] = Nothing
      /\ \A e \in Displays \ {d} : reading'[e] = reading[e] /\ inbox'[e] = inbox[e]
      /\ \A n \in Message : inbox'[d][n] = IF n = Torn(t) THEN inbox[d][n] + 1 ELSE inbox[d][n]
  BY <1>2, <1>3, <1>6, HandFacts, MessageFacts DEF IInv, TypeOK, Hand
<1>8. /\ \A b \in Clients : ~ Reads(b, d)'
      /\ \A u \in Tile : u # t => (Unheard(u, d)' <=> Unheard(u, d))
      /\ \A u \in Tile : u # t => inbox'[d][Torn(u)] = inbox[d][Torn(u)]
  BY <1>3, <1>7, MessageFacts DEF Reads, Unheard
<1>9. ASSUME NEW u \in Tile, Untouched(u, d) PROVE Untouched(u, d)'
  <2>1. u # t
    BY <1>4, <1>9 DEF Untouched, t
  <2>2. QED
    BY <1>2, <1>8, <1>9, <2>1 DEF Untouched
<1>10. InOrder(c, d)' /\ AtDisplay(c, d)'
  <2>1. Len(<<>>) = 0
    OBVIOUS
  <2>2. QED
    BY <1>2, <1>8, <2>1 DEF InOrder, AtDisplay
<1>11. ASSUME NEW b \in Clients \ {c}
       PROVE  /\ InOrder(b, d)' /\ AtDisplay(b, d)'
              /\ b \notin left /\ d \notin stopped' => AtSender(b, d)'
  <2>1. \A u \in Tile : From[u] = b => (Unheard(u, d)' <=> Unheard(u, d))
    BY <1>5, <1>8
  <2>2. sending' = sending
    BY <1>2 DEF memory
  <2>3. QED
    BY <1>2, <1>4, <1>8, <2>1, <2>2, ConnectionStays DEF IInv, WholeMessages
<1>12. \A b \in Clients : /\ InOrder(b, d)' /\ AtDisplay(b, d)'
                          /\ b \notin left /\ d \notin stopped' => AtSender(b, d)'
  BY <1>2, <1>10, <1>11
<1>13. \A u \in Tile : inbox'[d][Torn(u)] > 0 =>
         From[u] \in left /\ pipe'[From[u]][d] = <<>> /\ ~ Reads(From[u], d)'
  BY <1>2, <1>5, <1>8 DEF IInv, TornIsLast
<1>14. IInv'
  BY <1>1, <1>2, <1>7, <1>9, <1>12, <1>13, InsideOneDisplay
<1>15. QED
  BY <1>2, <1>3, <1>5, <1>6, <1>14 DEF t

LEMMA MadeUpStep ==
  ASSUME IInv, NEW c \in Clients, NEW d \in Displays, ReceiveNothing(c, d), ~ Stop(d)
  PROVE  IInv'
<1>1. TypeOK'
  BY DisplayTypes DEF IInv, ReceiveThread
<1>2. /\ d \notin stopped
      /\ UNCHANGED inbox \/ Hand(d, MadeUp)
      /\ UNCHANGED <<given, left, memory, pipe, reading, stopped>>
  BY DEF ReceiveNothing, FindsEnd, AtPoll
<1>3. /\ \A e \in Displays \ {d} : inbox'[e] = inbox[e]
      /\ \A n \in Message : n # MadeUp => inbox'[d][n] = inbox[d][n]
  BY <1>2, MessageFacts, HandFacts DEF IInv, TypeOK, Hand
<1>4. /\ \A u \in Tile : Unheard(u, d)' <=> Unheard(u, d)
      /\ \A u \in Tile : inbox'[d][Torn(u)] = inbox[d][Torn(u)]
      /\ \A b \in Clients : Reads(b, d)' <=> Reads(b, d)
      /\ TileRead(d)' = TileRead(d)
      /\ sending' = sending
  BY <1>2, <1>3, MessageFacts DEF Unheard, Reads, TileRead, memory
<1>5. \A u \in Tile : Untouched(u, d) => Untouched(u, d)'
  BY <1>2, <1>4 DEF Untouched
<1>6. ASSUME NEW b \in Clients
      PROVE  /\ InOrder(b, d)' /\ AtDisplay(b, d)'
             /\ b \notin left /\ d \notin stopped' => AtSender(b, d)'
  BY <1>2, <1>4, ConnectionStays DEF IInv, WholeMessages
<1>7. \A u \in Tile : inbox'[d][Torn(u)] > 0 =>
        From[u] \in left /\ pipe'[From[u]][d] = <<>> /\ ~ Reads(From[u], d)'
  BY <1>2, <1>4 DEF IInv, TornIsLast
<1>8. QED
  BY <1>1, <1>2, <1>3, <1>5, <1>6, <1>7, InsideOneDisplay

\* The display that the send thread is at.
IsNext(c, d) == d = FirstRank(sending[c].to)

\* Part n of tile t is written behind p, which makes it q.
Written(c, d, t, n, p, q) ==
  /\ p = pipe[c][d] /\ pipe'[c][d] = q
  /\ Len(q) = Len(p) + 1
  /\ \A i \in 1 .. Len(p) : q[i] = p[i]
  /\ q[Len(p) + 1] = [tile |-> t, part |-> n]
  /\ given' = given /\ inbox' = inbox /\ reading' = reading
  /\ sending[c] # Nothing /\ sending[c].tile = t /\ sending[c].part = n
  /\ IsNext(c, d) /\ d \in sending[c].to
  /\ c \notin left /\ d \notin stopped

\* What that does to the connection.
LEMMA WrittenFacts ==
  ASSUME IInv, NEW c \in Clients, NEW d \in Displays, NEW t \in Tile, NEW n \in 0 .. DataParts,
         NEW p \in Seq(Part), NEW q \in Seq(Part), Written(c, d, t, n, p, q)
  PROVE  /\ InOrder(c, d)'
         /\ AtDisplay(c, d)'
         /\ \A i \in 1 .. Len(q) : q[i].tile = t => q[i].part < n + 1
<1> USE DEF Written
<1>1. InOrder(c, d) /\ AtDisplay(c, d) /\ AtSender(c, d) /\ SendingIsFresh(c)
  BY DEF IInv, WholeMessages, ClientIsFresh
<1>2. /\ From[t] = c /\ t \in given /\ d \in Reach[t]
      /\ n = 0 => Untouched(t, d)
  BY <1>1 DEF SendingIsFresh, IsNext
<1>3. Writes(c, d) <=> n > 0
  BY DEF Writes, IsNext
<1>5. Len(p) \in Nat
  BY LenProperties
<1>6. /\ q # <<>> /\ (p = <<>> <=> Len(p) = 0)
      /\ \A i \in 1 .. Len(q) : i \in 1 .. Len(p) \/ i = Len(p) + 1
  <2>1. q = <<>> <=> Len(q) = 0
    BY EmptySeq
  <2>2. p = <<>> <=> Len(p) = 0
    BY EmptySeq
  <2>3. QED
    BY <1>5, <2>1, <2>2
<1>7. \A i \in 1 .. Len(p) : p[i] \in Part /\ p[i].tile \in Tile /\ p[i].part \in Nat
  BY PartFacts
<1>8. \A i \in 1 .. Len(p) : p[i].tile = t => p[i].part < n
  <2>1. CASE n = 0
    BY <1>2, <2>1 DEF Untouched
  <2>2. CASE n > 0
    BY <1>1, <1>3, <2>2 DEF AtSender
  <2>3. QED
    BY <2>1, <2>2
<1>9. Unheard(t, d)
  <2>1. CASE n = 0
    BY <1>2, <2>1 DEF Untouched
  <2>2. CASE n > 0 /\ p # <<>>
    <3>1. p[Len(p)].tile = t /\ Len(p) \in 1 .. Len(p)
      BY <1>1, <1>3, <1>5, <1>6, <2>2 DEF AtSender
    <3>2. QED
      BY <1>1, <3>1 DEF InOrder
  <2>3. CASE n > 0 /\ p = <<>>
    <3>1. Reads(c, d) /\ reading[d].parts[1].tile = t
      BY <1>1, <1>3, <2>3 DEF AtSender
    <3>2. QED
      BY <1>1, <3>1 DEF AtDisplay
  <2>4. QED
    BY <2>1, <2>2, <2>3
<1>10. /\ \A u \in Tile : Unheard(u, d)' <=> Unheard(u, d)
       /\ Reads(c, d)' <=> Reads(c, d)
  BY DEF Unheard, Reads
<1>11. InOrder(c, d)'
  <2>1. ASSUME NEW i \in 1 .. Len(q)
        PROVE  /\ From[q[i].tile] = c /\ q[i].tile \in given /\ d \in Reach[q[i].tile]
               /\ Unheard(q[i].tile, d)'
    <3>1. CASE i \in 1 .. Len(p)
      <4>1. /\ From[p[i].tile] = c /\ p[i].tile \in given /\ d \in Reach[p[i].tile]
            /\ Unheard(p[i].tile, d) /\ p[i].tile \in Tile /\ q[i] = p[i]
        BY <1>1, <1>5, <1>7, <3>1 DEF InOrder
      <4>2. QED
        BY <1>10, <4>1
    <3>2. CASE i = Len(p) + 1
      <4>1. q[i].tile = t
        BY <1>5, <3>2
      <4>2. QED
        BY <1>2, <1>9, <1>10, <4>1
    <3>3. QED
      BY <1>6, <3>1, <3>2
  <2>2. \A i \in 1 .. Len(p) : p[i] # [tile |-> t, part |-> n]
    <3>1. ASSUME NEW i \in 1 .. Len(p), p[i] = [tile |-> t, part |-> n] PROVE FALSE
      <4>1. p[i].tile = t /\ p[i].part = n
        BY <3>1
      <4>2. QED
        BY <1>8, <4>1
    <3>2. QED
      BY <3>1
  <2>3. \A i, j \in 1 .. Len(q) : q[i] = q[j] => i = j
    <3>1. ASSUME NEW i \in 1 .. Len(q), NEW j \in 1 .. Len(q), q[i] = q[j] PROVE i = j
      <4>1. CASE i \in 1 .. Len(p) /\ j \in 1 .. Len(p)
        BY <1>1, <1>5, <3>1, <4>1 DEF InOrder
      <4>2. ASSUME NEW k \in 1 .. Len(p) PROVE q[k] # q[Len(p) + 1]
        BY <2>2
      <4>3. CASE i = Len(p) + 1 /\ j \in 1 .. Len(p)
        BY <3>1, <4>2, <4>3
      <4>4. CASE j = Len(p) + 1 /\ i \in 1 .. Len(p)
        BY <3>1, <4>2, <4>4
      <4>5. QED
        BY <1>6, <4>1, <4>3, <4>4
    <3>2. QED
      BY <3>1
  <2>4. \A i \in 1 .. Len(q) - 1 : Follows(q[i + 1], q[i])
    <3>1. ASSUME NEW i \in 1 .. Len(q) - 1 PROVE Follows(q[i + 1], q[i])
      <4>1. CASE i \in 1 .. Len(p) - 1
        <5>1. q[i] = p[i] /\ q[i + 1] = p[i + 1]
          BY <1>5, <4>1
        <5>2. QED
          BY <1>1, <4>1, <5>1 DEF InOrder
      <4>2. CASE i = Len(p)
        <5>1. q[i] = p[Len(p)] /\ q[i + 1] = [tile |-> t, part |-> n] /\ p # <<>>
          BY <1>5, <1>6, <3>1, <4>2
        <5>2. CASE n > 0
          <6>1. p[Len(p)] = [tile |-> t, part |-> n - 1]
            BY <1>1, <1>3, <5>1, <5>2 DEF AtSender
          <6>2. QED
            BY <5>1, <5>2, <6>1 DEF Follows
        <5>3. CASE n = 0
          <6>1. p[Len(p)].part = DataParts
            BY <1>1, <1>3, <5>1, <5>3 DEF AtSender
          <6>2. QED
            BY <5>1, <5>3, <6>1 DEF Follows
        <5>4. QED
          BY <5>2, <5>3
      <4>3. QED
        BY <1>5, <3>1, <4>1, <4>2
    <3>2. QED
      BY <3>1
  <2>5. QED
    <3>1. \A i \in 1 .. Len(q) : /\ From[q[i].tile] = c
                               /\ q[i].tile \in given
                               /\ d \in Reach[q[i].tile]
                               /\ Unheard(q[i].tile, d)'
      BY <2>1
    <3>2. pipe'[c][d] = q /\ given' = given
      OBVIOUS
    <3>3. QED
      BY ONLY <2>3, <2>4, <3>1, <3>2, OrderNext, c \in Clients, d \in Displays
<1>12. AtDisplay(c, d)'
  <2>1. PICK r : r = reading[d].parts
    OBVIOUS
  <2>2. CASE Reads(c, d)
    <3>1. /\ \A i \in 1 .. Len(r) : r[i] = [tile |-> r[1].tile, part |-> i - 1]
          /\ From[r[1].tile] = c /\ r[1].tile \in given /\ d \in Reach[r[1].tile]
          /\ Unheard(r[1].tile, d)
          /\ p # <<>> => p[1] = [tile |-> r[1].tile, part |-> Len(r)]
          /\ \A i \in 1 .. Len(p) : p[i].tile = r[1].tile => p[i].part >= Len(r)
      BY <1>1, <2>1, <2>2 DEF AtDisplay
    <3>2. r[1].tile \in Tile
      BY <2>1, <2>2, MessageOfFacts DEF IInv, TypeOK, Reads, Reading
    <3>3. Unheard(r[1].tile, d)'
      BY <1>10, <3>1, <3>2
    <3>4. n = 0 => t # r[1].tile
      BY <1>2, <2>1, <2>2 DEF Untouched, TileRead
    <3>5. n > 0 /\ p = <<>> => r[1].tile = t /\ Len(r) = n
      BY <1>1, <1>3, <2>1 DEF AtSender
    <3>6. q[1] = [tile |-> r[1].tile, part |-> Len(r)]
      <4>1. CASE p # <<>>
        BY <1>5, <1>6, <3>1, <4>1
      <4>2. CASE p = <<>>
        <5>1. n > 0
          BY <1>1, <1>3, <2>2, <4>2 DEF AtSender
        <5>2. QED
          BY <1>5, <1>6, <3>5, <4>2, <5>1
      <4>3. QED
        BY <4>1, <4>2
    <3>7. t = r[1].tile => n >= Len(r)
      <4>1. CASE p = <<>>
        BY <3>4, <3>5, <4>1
      <4>2. CASE p # <<>> /\ n > 0
        <5>1. p[Len(p)] = [tile |-> t, part |-> n - 1] /\ Len(p) \in 1 .. Len(p)
          BY <1>1, <1>3, <1>5, <1>6, <4>2 DEF AtSender
        <5>2. t = r[1].tile => n - 1 >= Len(r)
          <6>1. p[Len(p)].tile = t /\ p[Len(p)].part = n - 1
            BY <5>1
          <6>2. \A i \in 1 .. Len(p) : p[i].tile = r[1].tile => p[i].part >= Len(r)
            BY <3>1
          <6>3. p[Len(p)].tile = r[1].tile => p[Len(p)].part >= Len(r)
            BY <5>1, <6>2
          <6>4. QED
            BY <6>1, <6>3
        <5>3. Len(r) \in Nat
          BY <2>1, <2>2, LenProperties DEF IInv, TypeOK, Reads, Reading
        <5>4. QED
          BY <5>2, <5>3
      <4>3. QED
        BY <3>4, <4>1, <4>2
    <3>8. \A i \in 1 .. Len(q) : q[i].tile = r[1].tile => q[i].part >= Len(r)
      <4>1. ASSUME NEW i \in 1 .. Len(q), q[i].tile = r[1].tile PROVE q[i].part >= Len(r)
        <5>1. CASE i \in 1 .. Len(p)
          <6>1. q[i] = p[i]
            BY <5>1
          <6>2. p[i].tile = r[1].tile => p[i].part >= Len(r)
            BY <3>1, <5>1
          <6>3. QED
            BY <4>1, <6>1, <6>2
        <5>2. CASE i = Len(p) + 1
          <6>1. q[i].tile = t /\ q[i].part = n
            BY <5>2
          <6>2. QED
            BY <3>7, <4>1, <6>1
        <5>3. QED
          BY <1>6, <5>1, <5>2
      <4>2. QED
        BY <4>1
    <3>9. reading'[d].parts = r /\ Reads(c, d)'
      BY <1>10, <2>1, <2>2
    <3>10. QED
      BY <3>1, <3>3, <3>6, <3>8, <3>9, ReaderNext, SMTT(60)
  <2>3. CASE ~ Reads(c, d)
    <3>1. q[1].part = 0
      <4>1. CASE p # <<>>
        BY <1>1, <1>5, <1>6, <2>3, <4>1 DEF AtDisplay
      <4>2. CASE p = <<>>
        <5>1. n = 0
          BY <1>1, <1>3, <2>3, <4>2 DEF AtSender
        <5>2. QED
          BY <1>5, <1>6, <4>2, <5>1
      <4>3. QED
        BY <4>1, <4>2
    <3>2. QED
      BY <1>10, <2>3, <3>1 DEF AtDisplay
  <2>4. QED
    BY <2>2, <2>3
<1>13. \A i \in 1 .. Len(q) : q[i].tile = t => q[i].part < n + 1
  <2>1. ASSUME NEW i \in 1 .. Len(q), q[i].tile = t PROVE q[i].part < n + 1
    <3>1. CASE i \in 1 .. Len(p)
      <4>1. q[i] = p[i] /\ p[i].part < n /\ p[i].part \in Nat
        BY <1>7, <1>8, <2>1, <3>1
      <4>2. QED
        BY <4>1
    <3>2. CASE i = Len(p) + 1
      BY <3>2
    <3>3. QED
      BY <1>6, <3>1, <3>2
  <2>2. QED
    BY <2>1
<1>14. QED
  BY <1>5, <1>6, <1>11, <1>12, <1>13

LEMMA WritePartStep ==
  ASSUME IInv, NEW c \in Clients, NEW d \in Displays, WritePart(c), IsNext(c, d)
  PROVE  IInv'
<1>1. TypeOK' /\ TypeOK
  BY ConnectionTypes DEF IInv
<1>2. PICK s : s = sending[c]
  OBVIOUS
<1>3. /\ c \notin left /\ s # Nothing /\ s \in Sending
      /\ sending' = [sending EXCEPT ![c] = AfterPart(s)]
      /\ UNCHANGED <<given, left, tilesToSend, compressor, outbox, reading, inbox, stopped>>
  BY <1>2 DEF WritePart, IInv, TypeOK, displayVars
<1>4. /\ s.tile \in Tile /\ s.part \in 0 .. DataParts /\ s.to \in SUBSET Displays
      /\ d \in s.to
  BY <1>2, <1>3, AfterPartFacts DEF Sending, IsNext
<1>5. /\ sending'[c] = AfterPart(s)
      /\ \A b \in Clients \ {c} : sending'[b] = sending[b]
  BY <1>1, <1>3 DEF TypeOK
<1>6. PICK q \in Seq(Part) :
        /\ d \notin stopped => /\ q = Append(pipe[c][d], [tile |-> s.tile, part |-> s.part])
        /\ d \in stopped => q = pipe[c][d]
        /\ \A b \in Clients, e \in Displays :
             pipe'[b][e] = IF b = c /\ e = d THEN q ELSE pipe[b][e]
  <2>1. pipe[c][d] \in Seq(Part) /\ pipe \in [Clients -> [Displays -> Seq(Part)]]
    BY <1>1 DEF TypeOK
  <2>2. CASE d \in stopped
    <3>1. pipe' = pipe
      BY <2>2 DEF WritePart, IsNext
    <3>2. QED
      BY <2>1, <2>2, <3>1
  <2>3. CASE d \notin stopped
    <3>1. PICK w : w = Append(pipe[c][d], [tile |-> s.tile, part |-> s.part])
      OBVIOUS
    <3>2. pipe' = [pipe EXCEPT ![c][d] = w]
      BY <1>2, <2>3, <3>1 DEF WritePart, IsNext
    <3>3. [tile |-> s.tile, part |-> s.part] \in Part
      BY <1>4 DEF Part
    <3>4. w \in Seq(Part)
      BY <2>1, <3>1, <3>3, AppendProperties
    <3>5. \A b \in Clients, e \in Displays : pipe'[b][e] = IF b = c /\ e = d THEN w ELSE pipe[b][e]
      BY <2>1, <3>2, <3>4, PipeFacts
    <3>6. QED
      BY <2>3, <3>1, <3>4, <3>5
  <2>4. QED
    BY <2>2, <2>3
<1>7. /\ \A b \in Clients, e \in Displays : Reads(b, e)' <=> Reads(b, e)
      /\ \A u \in Tile, e \in Displays : Unheard(u, e)' <=> Unheard(u, e)
      /\ \A e \in Displays : TileRead(e)' = TileRead(e)
  BY <1>3 DEF Reads, Unheard, TileRead
<1>8. /\ s.part < DataParts => sending'[c] = [tile |-> s.tile, to |-> s.to, part |-> s.part + 1]
      /\ s.part = DataParts /\ s.to \ {d} # {} =>
           sending'[c] = [tile |-> s.tile, to |-> s.to \ {d}, part |-> 0]
      /\ s.part = DataParts /\ s.to \ {d} = {} => sending'[c] = Nothing
      /\ s.part < DataParts => sending'[c] # Nothing
  <2>1. d = FirstRank(s.to)
    BY <1>2 DEF IsNext
  <2>2. s.part < DataParts => [tile |-> s.tile, to |-> s.to, part |-> s.part + 1] \in Sending
    BY <1>4 DEF Sending
  <2>3. QED
    BY <1>3, <1>5, <2>1, <2>2, AfterPartFacts
<1>9. From[s.tile] = c /\ s.tile \in given
  BY <1>2, <1>3 DEF IInv, ClientIsFresh, SendingIsFresh
<1>10. ASSUME NEW u \in Tile, NEW e \in Displays, u # s.tile \/ e # d, Untouched(u, e)
       PROVE  Untouched(u, e)'
  <2>1. ASSUME NEW b \in Clients, NEW i \in 1 .. Len(pipe'[b][e])
        PROVE  pipe'[b][e][i].tile # u
    <3>1. CASE pipe'[b][e] = pipe[b][e]
      BY <1>10, <2>1, <3>1 DEF Untouched
    <3>2. CASE b = c /\ e = d /\ d \notin stopped
      <4>1. q = Append(pipe[c][d], [tile |-> s.tile, part |-> s.part]) /\ pipe'[b][e] = q
        BY <1>6, <3>2
      <4>2. pipe[c][d] \in Seq(Part) /\ [tile |-> s.tile, part |-> s.part] \in Part
        <5>1. [tile |-> s.tile, part |-> s.part] \in Part
          BY <1>4 DEF Part
        <5>2. QED
          BY <1>1, <5>1 DEF TypeOK
      <4>3. /\ Len(q) = Len(pipe[c][d]) + 1 /\ Len(pipe[c][d]) \in Nat
            /\ \A j \in 1 .. Len(pipe[c][d]) : q[j] = pipe[c][d][j]
            /\ q[Len(pipe[c][d]) + 1].tile = s.tile
        BY <4>1, <4>2, AppendProperties, LenProperties
      <4>4. \A j \in 1 .. Len(pipe[c][d]) : pipe[c][d][j].tile # u
        BY <1>10, <3>2 DEF Untouched
      <4>5. i \in 1 .. Len(q)
        BY <2>1, <4>1
      <4>6. CASE i \in 1 .. Len(pipe[c][d])
        BY <4>1, <4>3, <4>4, <4>6
      <4>7. CASE i = Len(pipe[c][d]) + 1
        BY <1>10, <3>2, <4>1, <4>3, <4>7
      <4>8. QED
        BY <4>3, <4>5, <4>6, <4>7
    <3>3. QED
      BY <1>6, <3>1, <3>2
  <2>2. Unheard(u, e)' /\ \A b \in Clients : Reads(b, e)' => TileRead(e)' # u
    BY <1>7, <1>10 DEF Untouched
  <2>3. QED
    BY <2>1, <2>2 DEF Untouched
<1>11. NoCoreIdles'
  BY <1>3 DEF IInv, NoCoreIdles, InState
<1>12. \A b \in Clients : Inside(b)' = Inside(b) /\ Encoded(b)' = Encoded(b) /\ Inside(b) \subseteq Tile
  BY <1>1, <1>3 DEF Inside, Encoded, TypeOK, Range
<1>13. ASSUME NEW b \in Clients PROVE ClientIsFresh(b)'
  <2>1. CASE b # c
    <3>1. \A u \in Tile, e \in Displays : From[u] = b /\ Untouched(u, e) => Untouched(u, e)'
      BY <1>9, <1>10, <2>1
    <3>2. QED
      BY <1>3, <1>5, <2>1, <3>1, StaysFresh
  <2>2. CASE b = c
    <3>1. ClientIsFresh(c)
      BY DEF IInv
    <3>2. s.tile \notin Inside(c)
      BY <1>2, <1>3, <3>1 DEF ClientIsFresh, OnePlaceEach
    <3>3. sending'[c] # Nothing => sending'[c].tile = s.tile
      BY <1>4, <1>8
    <3>4. OnePlaceEach(c)'
      BY <1>3, <1>12, <3>1, <3>2, <3>3 DEF ClientIsFresh, OnePlaceEach
    <3>5. InsideIsFresh(c)'
      BY <1>3, <1>10, <1>12, <3>1, <3>2 DEF ClientIsFresh, InsideIsFresh
    <3>6. /\ s.to \subseteq Reach[s.tile]
          /\ \A e \in s.to : e # d \/ s.part = 0 => Untouched(s.tile, e)
      BY <1>2, <1>3, <3>1 DEF ClientIsFresh, SendingIsFresh, IsNext
    <3>7. \A e \in s.to : e # d => Untouched(s.tile, e)'
      BY <1>4, <1>10, <3>6
    <3>8. SendingIsFresh(c)'
      <4>1. CASE s.part < DataParts
        <5>1. /\ sending'[c].tile = s.tile /\ sending'[c].to = s.to
              /\ sending'[c].part # 0 /\ FirstRank(s.to) = d
          BY <1>2, <1>4, <1>8, <4>1 DEF IsNext
        <5>2. QED
          BY <1>3, <1>9, <3>6, <3>7, <5>1 DEF SendingIsFresh
      <4>2. CASE s.part = DataParts /\ s.to \ {d} # {}
        <5>1. sending'[c].tile = s.tile /\ sending'[c].to = s.to \ {d}
          BY <1>8, <4>2
        <5>2. QED
          BY <1>3, <1>9, <3>6, <3>7, <5>1 DEF SendingIsFresh
      <4>3. CASE s.part = DataParts /\ s.to \ {d} = {}
        BY <1>8, <4>3 DEF SendingIsFresh
      <4>4. QED
        BY <1>4, <4>1, <4>2, <4>3
    <3>9. QED
      BY <2>2, <3>4, <3>5, <3>8 DEF ClientIsFresh
  <2>3. QED
    BY <2>1, <2>2
<1>14. RestIsFresh'
  BY <1>3, <1>9, <1>10 DEF IInv, RestIsFresh
<1>15. ASSUME NEW e \in Displays, e # d PROVE ~ Writes(c, e) /\ ~ Writes(c, e)'
  <2>1. ~ Writes(c, e)
    BY <1>15 DEF Writes, IsNext
  <2>2. s.part < DataParts => FirstRank(sending'[c].to) = d
    BY <1>2, <1>8 DEF IsNext
  <2>3. s.part = DataParts => sending'[c] = Nothing \/ sending'[c].part = 0
    BY <1>8
  <2>4. QED
    BY <1>4, <1>15, <2>1, <2>2, <2>3 DEF Writes
<1>16. ASSUME NEW b \in Clients, NEW e \in Displays, b # c \/ e # d
       PROVE  /\ InOrder(b, e)' /\ AtDisplay(b, e)'
              /\ b \notin left' /\ e \notin stopped' => AtSender(b, e)'
  <2>1. sending'[b] = sending[b] \/ (~ Writes(b, e) /\ ~ Writes(b, e)')
    BY <1>5, <1>15, <1>16
  <2>2. pipe'[b][e] = pipe[b][e]
    BY <1>6, <1>16
  <2>3. given' = given /\ left' = left /\ stopped' = stopped /\ reading' = reading
    BY <1>3
  <2>4. InOrder(b, e)' /\ AtDisplay(b, e)' /\ (AtSender(b, e) => AtSender(b, e)')
    BY <1>7, <2>1, <2>2, <2>3, ConnectionStays
  <2>5. QED
    BY <2>3, <2>4 DEF IInv, WholeMessages
<1>17. ASSUME d \in stopped PROVE InOrder(c, d)' /\ AtDisplay(c, d)' /\ d \in stopped'
  <2>1. pipe'[c][d] = <<>> /\ ~ Reads(c, d)' /\ Len(<<>>) = 0
    BY <1>3, <1>6, <1>17 DEF IInv, GoneIsGone, Reads
  <2>2. InOrder(c, d)' /\ AtDisplay(c, d)'
    BY <2>1 DEF InOrder, AtDisplay
  <2>3. d \in stopped'
    BY <1>3, <1>17
  <2>4. QED
    BY <2>2, <2>3
<1>18. ASSUME d \notin stopped PROVE InOrder(c, d)' /\ AtDisplay(c, d)' /\ AtSender(c, d)'
  <2>1. PICK p \in Seq(Part) : p = pipe[c][d]
    BY <1>1 DEF TypeOK
  <2>2. [tile |-> s.tile, part |-> s.part] \in Part
    BY <1>4 DEF Part
  <2>3. /\ Len(q) = Len(p) + 1 /\ Len(p) \in Nat
        /\ \A i \in 1 .. Len(p) : q[i] = p[i]
        /\ q[Len(p) + 1] = [tile |-> s.tile, part |-> s.part]
    BY <1>6, <1>18, <2>1, <2>2, AppendProperties, LenProperties
  <2>4. /\ given' = given /\ inbox' = inbox /\ reading' = reading /\ pipe'[c][d] = q
        /\ sending[c] # Nothing /\ sending[c].tile = s.tile /\ sending[c].part = s.part
        /\ d \in sending[c].to
    BY <1>2, <1>3, <1>4, <1>6
  <2>5. /\ InOrder(c, d)' /\ AtDisplay(c, d)'
        /\ \A i \in 1 .. Len(q) : q[i].tile = s.tile => q[i].part < s.part + 1
    <3>1. p = pipe[c][d] /\ c \notin left /\ d \notin stopped /\ IsNext(c, d)
      BY <1>3, <1>18, <2>1
    <3>2. PICK t \in Tile : t = s.tile
      BY <1>4
    <3>3. PICK n \in 0 .. DataParts : n = s.part
      BY <1>4
    <3>4. Written(c, d, t, n, p, q)
      BY <2>3, <2>4, <3>1, <3>2, <3>3 DEF Written
    <3>5. /\ InOrder(c, d)' /\ AtDisplay(c, d)'
          /\ \A i \in 1 .. Len(q) : q[i].tile = t => q[i].part < n + 1
      BY <3>4, WrittenFacts
    <3>6. QED
      BY <3>2, <3>3, <3>5
  <2>6. AtSender(c, d)'
    <3>1. q # <<>> /\ q[Len(q)] = [tile |-> s.tile, part |-> s.part]
      BY <2>3, PartFacts
    <3>2. CASE s.part < DataParts
      <4>1. /\ Writes(c, d)' /\ sending'[c].tile = s.tile /\ sending'[c].part = s.part + 1
        BY <1>2, <1>4, <1>8, <3>2 DEF Writes, IsNext
      <4>2. (s.part + 1) - 1 = s.part
        BY <1>4
      <4>3. QED
        BY <2>4, <2>5, <3>1, <4>1, <4>2 DEF AtSender
    <3>3. CASE s.part = DataParts
      <4>1. ~ Writes(c, d)'
        BY <1>8, <3>3 DEF Writes
      <4>2. QED
        BY <2>4, <3>1, <3>3, <4>1 DEF AtSender
    <3>4. QED
      BY <1>4, <3>2, <3>3
  <2>7. QED
    BY <2>5, <2>6
<1>19. WholeMessages'
  <2>1. ASSUME NEW b \in Clients, NEW e \in Displays
        PROVE  /\ InOrder(b, e)' /\ AtDisplay(b, e)'
               /\ b \notin left' /\ e \notin stopped' => AtSender(b, e)'
    BY <1>16, <1>17, <1>18
  <2>2. QED
    BY <2>1 DEF WholeMessages
<1>20. TornIsLast'
  BY <1>3, <1>6, <1>7 DEF IInv, TornIsLast
<1>21. GoneIsGone'
  <2>1. \A b \in Clients : InState(b, "asleep")' = InState(b, "asleep")
    BY <1>3 DEF InState
  <2>2. \A b \in left' : Inside(b)' = {} /\ sending'[b] = Nothing /\ InState(b, "asleep")' = {}
    BY <1>1, <1>3, <1>5, <1>12, <2>1 DEF IInv, GoneIsGone, TypeOK
  <2>3. \A e \in stopped' : reading'[e] = Nothing /\ \A b \in Clients : pipe'[b][e] = <<>>
    <3>1. \A e \in stopped : reading[e] = Nothing /\ \A b \in Clients : pipe[b][e] = <<>>
      BY DEF IInv, GoneIsGone
    <3>2. stopped \subseteq Displays /\ stopped' = stopped /\ reading' = reading
      BY <1>1, <1>3 DEF TypeOK
    <3>3. \A b \in Clients, e \in stopped : pipe'[b][e] = <<>>
      BY <1>6, <3>1, <3>2
    <3>4. QED
      BY <3>1, <3>2, <3>3
  <2>4. QED
    BY <2>2, <2>3 DEF GoneIsGone
<1>22. QED
  BY <1>1, <1>11, <1>13, <1>14, <1>19, <1>20, <1>21 DEF IInv

-----------------------------------------------------------------------------
(* Every step; the theorems.                                               *)

\* Every step of a thread keeps the invariant.
LEMMA NextStep == IInv /\ [Next]_vars => IInv'
<1> SUFFICES ASSUME IInv, [Next]_vars PROVE IInv'
  OBVIOUS
<1>1. CASE \E t \in Tile : Put(t)
  BY <1>1, PutStep
<1>2. ASSUME NEW c \in Clients, NEW k \in Threads, Compressor(c, k) \/ WakeUp(c, k)
      PROVE  IInv'
  BY <1>2, TakeStep, SleepStep, SendToStep DEF Compressor
<1>3. ASSUME NEW c \in Clients, SendThread(c) \/ Disconnect(c) \/ LoseDisplay(c)
      PROVE  IInv'
  <2>1. CASE WritePart(c)
    <3>1. sending[c] \in Sending
      BY <2>1 DEF WritePart, IInv, TypeOK
    <3>2. PICK d \in Displays : d = FirstRank(sending[c].to)
      BY <3>1, AfterPartFacts
    <3>3. IsNext(c, d)
      BY <3>1, <3>2, AfterPartFacts DEF IsNext
    <3>4. QED
      BY <2>1, <3>3, WritePartStep
  <2>2. QED
    BY <1>3, <2>1, GetMessageStep, ExitStep
       DEF SendThread, Disconnect, LoseDisplay
<1>4. ASSUME NEW c \in Clients, NEW kept \in 0 .. Len(pipe[c][0]), TokenToNobody(c, kept)
      PROVE  IInv'
  BY <1>4, TokenToNobodyStep
<1>5. ASSUME NEW d \in Displays, ReceiveThread(d)
      PROVE  IInv'
  <2>1. TypeOK'
    BY <1>5, DisplayTypes DEF IInv
  <2>2. CASE Poll(d)
    BY <2>2, PollStep
  <2>3. CASE ReceiveData(d) \/ ReceiveTorn(d)
    <3>1. reading[d].from \in Clients
      BY <2>3 DEF ReceiveData, ReceiveTorn, IInv, TypeOK, Reading
    <3>2. QED
      BY <2>3, <3>1, ReceiveDataStep, ReceiveTornStep
  <2>4. ASSUME NEW c \in Clients,
               ReceiveSize(c, d) \/ ExitHungUp(c, d) \/ ReceiveNothing(c, d)
        PROVE  IInv'
    <3>1. CASE Stop(d)
      BY <2>1, <3>1, StopStep
    <3>2. CASE ~ Stop(d)
      BY <2>4, <3>2, ReceiveSizeStep, MadeUpStep DEF ExitHungUp
    <3>3. QED
      BY <3>1, <3>2
  <2>5. QED
    BY <1>5, <2>2, <2>3, <2>4 DEF ReceiveThread
<1>6. CASE UNCHANGED vars
  <2>1. UNCHANGED <<given, left, tilesToSend, compressor, outbox, sending, pipe, reset,
                    ready, hungUp, reading, inbox, stopped>>
    BY <1>6 DEF vars, memory, displayVars
  <2>2. TypeOK'
    BY <2>1 DEF IInv, TypeOK
  <2>3. /\ \A c \in Clients, d \in Displays : InOrder(c, d)' /\ AtDisplay(c, d)'
        /\ TornIsLast'
        /\ \A t \in Tile, d \in Displays : Untouched(t, d)' <=> Untouched(t, d)
    BY <2>1, QuietStep
  <2>4. \A c \in Clients : ClientIsFresh(c)'
    BY <2>1, <2>3, StaysFresh
  <2>5. RestIsFresh'
    BY <2>1, <2>3 DEF IInv, RestIsFresh
  <2>6. \A c \in Clients, d \in Displays : c \notin left' /\ d \notin stopped' => AtSender(c, d)'
    BY <2>1 DEF IInv, WholeMessages, AtSender, Reads, Writes
  <2>7. NoCoreIdles' /\ GoneIsGone'
    BY <2>1 DEF IInv, NoCoreIdles, GoneIsGone, InState, Inside, Encoded
  <2>8. QED
    BY <2>2, <2>3, <2>4, <2>5, <2>6, <2>7 DEF IInv, WholeMessages
<1>7. QED
  BY <1>1, <1>2, <1>3, <1>4, <1>5, <1>6 DEF Next

\* The invariant holds in every run of the threads.
THEOREM TransportInvariant == Spec => []IInv
<1>1. QED
  BY InitIInv, NextStep, PTL DEF Spec

\* The types of the variables, the bound of every connection, and that only a
\* client that has gone hangs up.
THEOREM TransportTypeOK == Spec => []TypeOK
<1>1. IInv => TypeOK
  BY DEF IInv
<1>2. QED
  BY <1>1, TransportInvariant, PTL

\* The notify_one() of Client::put() is enough: for any number of compressor
\* threads none sleeps for ever while a tile waits that nobody is awake for.
THEOREM NoIdleCore == Spec => []NoCoreIdles
<1>1. IInv => NoCoreIdles
  BY DEF IInv
<1>2. QED
  BY <1>1, TransportInvariant, PTL

-----------------------------------------------------------------------------
(* The transport implements the network.                                   *)

\* A display hears of a tile what the network allows, while it takes the parts
\* of a message: the tile was given, has not come before, and nothing of its
\* client was torn.
LEMMA MayComeFacts ==
  ASSUME IInv, NEW d \in Displays, NEW c \in Clients, Reads(c, d), d \notin stopped,
         TileRead(d) \in Tile, From[TileRead(d)] = c
  PROVE  Network!MayCome(TileRead(d), d)
<1>1. PICK t \in Tile : t = TileRead(d)
  OBVIOUS
<1>2. t \in given /\ d \in Reach[t] /\ Unheard(t, d)
  BY <1>1 DEF IInv, WholeMessages, AtDisplay, TileRead
<1>3. ASSUME NEW u \in Tile, From[u] = c PROVE inbox[d][Torn(u)] = 0
  <2>1. ~ (inbox[d][Torn(u)] > 0)
    BY <1>3 DEF IInv, TornIsLast
  <2>2. inbox[d][Torn(u)] \in Nat
    BY MessageFacts DEF IInv, TypeOK
  <2>3. QED
    BY <2>1, <2>2
<1>4. QED
  BY <1>1, <1>2, <1>3 DEF Network!MayCome, Network!Whole, Network!Torn, Unheard, Whole, Torn

\* A step that the network does not see.
LEMMA Unseen ==
  ASSUME UNCHANGED <<given, left, inbox, stopped>>
  PROVE  [Network!Next]_Network!vars
BY DEF Network!vars

\* Every step of a thread is one of the network, or nothing that it sees.
LEMMA NetworkStep == IInv /\ [Next]_vars => [Network!Next]_Network!vars
<1> SUFFICES ASSUME IInv, [Next]_vars PROVE [Network!Next]_Network!vars
  OBVIOUS
<1>1. ASSUME NEW t \in Tile, Put(t) PROVE [Network!Next]_Network!vars
  <2>1. Network!Give(t)
    BY <1>1 DEF Put, Network!Give, displayVars
  <2>2. QED
    BY <2>1 DEF Network!Next
<1>2. ASSUME NEW c \in Clients, NEW k \in Threads, Compressor(c, k) \/ WakeUp(c, k)
      PROVE  [Network!Next]_Network!vars
  BY <1>2, Unseen DEF Compressor, Take, Wait, SendTo, WakeUp, displayVars
<1>3. ASSUME NEW c \in Clients, SendThread(c) \/ Disconnect(c) \/ LoseDisplay(c)
      PROVE  [Network!Next]_Network!vars
  <2>1. CASE SendThread(c)
    BY <2>1, Unseen DEF SendThread, GetMessage, WritePart, displayVars
  <2>2. CASE Disconnect(c) \/ LoseDisplay(c)
    <3>1. Network!Leave(c)
      BY <2>2 DEF Disconnect, LoseDisplay, Exit, Network!Leave, displayVars
    <3>2. QED
      BY <3>1 DEF Network!Next
  <2>3. QED
    BY <1>3, <2>1, <2>2
<1>4. ASSUME NEW c \in Clients, NEW kept \in 0 .. Len(pipe[c][0]), TokenToNobody(c, kept)
      PROVE  [Network!Next]_Network!vars
  BY <1>4, Unseen DEF TokenToNobody, displayVars
<1>5. ASSUME NEW d \in Displays, ReceiveThread(d)
      PROVE  [Network!Next]_Network!vars
  <2>1. CASE Poll(d)
    BY <2>1, Unseen DEF Poll
  <2>2. CASE ReceiveData(d) \/ ReceiveTorn(d)
    <3>1. /\ reading[d].from \in Clients /\ d \notin stopped
          /\ Reads(reading[d].from, d)
      BY <2>2 DEF ReceiveData, ReceiveTorn, IInv, TypeOK, Reading, Reads
    <3>2. PICK c \in Clients : c = reading[d].from
      BY <3>1
    <3>3. PICK t : t = TileRead(d)
      OBVIOUS
    <3>4. CASE ReceiveData(d)
      <4>1. CASE UNCHANGED inbox
        BY <3>2, <3>4, <4>1, ReceiveDataStep, Unseen
      <4>2. CASE t \in Tile /\ From[t] = c /\ Hand(d, Whole(t))
        <5>1. Network!MayCome(t, d)
          BY <3>1, <3>2, <3>3, <4>2, MayComeFacts
        <5>2. Network!Deliver(t, d)
          BY <3>2, <3>4, <4>2, <5>1, ReceiveDataStep
            DEF Network!Deliver, Network!Hand, Network!Whole, Hand, Whole
        <5>3. QED
          BY <4>2, <5>2 DEF Network!Next
      <4>3. QED
        BY <3>2, <3>3, <3>4, <4>1, <4>2, ReceiveDataStep
    <3>5. CASE ReceiveTorn(d)
      <4>1. t \in Tile /\ From[t] = c /\ Hand(d, Torn(t))
        BY <3>2, <3>3, <3>5, ReceiveTornStep
      <4>2. Network!MayCome(t, d)
        BY <3>1, <3>2, <3>3, <4>1, MayComeFacts
      <4>3. c \in left /\ UNCHANGED <<given, left, stopped>>
        BY <3>2, <3>5 DEF ReceiveTorn
      <4>4. Network!Tear(t, d)
        BY <4>1, <4>2, <4>3 DEF Network!Tear, Network!Hand, Network!Torn, Hand, Torn
      <4>5. QED
        BY <4>1, <4>4 DEF Network!Next
    <3>6. QED
      BY <2>2, <3>4, <3>5
  <2>3. ASSUME NEW c \in Clients, ReceiveSize(c, d)
        PROVE  [Network!Next]_Network!vars
    BY <2>3, Unseen DEF ReceiveSize
  <2>4. ASSUME NEW c \in Clients, ExitHungUp(c, d) \/ ReceiveNothing(c, d)
        PROVE  [Network!Next]_Network!vars
    <3>1. left # {} /\ d \notin stopped
      BY <2>4 DEF ExitHungUp, ReceiveNothing, FindsEnd, AtPoll
    <3>2. CASE Stop(d)
      <4>1. Network!Stop(d)
        BY <3>1, <3>2 DEF Stop, Network!Stop
      <4>2. QED
        BY <4>1 DEF Network!Next
    <3>3. CASE Hand(d, MadeUp) /\ UNCHANGED <<given, left, stopped>>
      <4>1. Network!MakeUp(d)
        BY <3>1, <3>3 DEF Hand, Network!MakeUp, Network!Hand
      <4>2. QED
        BY <4>1 DEF Network!Next
    <3>4. CASE UNCHANGED <<given, left, inbox, stopped>>
      BY <3>4, Unseen
    <3>5. QED
      BY <2>4, <3>2, <3>3, <3>4 DEF ExitHungUp, ReceiveNothing
  <2>5. QED
    BY <1>5, <2>1, <2>2, <2>3, <2>4 DEF ReceiveThread
<1>6. CASE UNCHANGED vars
  BY <1>6, Unseen DEF vars, displayVars
<1>7. QED
  BY <1>1, <1>2, <1>3, <1>4, <1>5, <1>6 DEF Next

\* Whatever the threads of any number of clients and displays do, a tile comes
\* to each of its displays once and whole; a message that is torn or that
\* nobody sent, and a display that stops, there are only after a client left.
THEOREM TransportImplementsNetwork == Spec => ImplementsNetwork
<1>1. Init => Network!Init
  BY DEF Init, Network!Init, Message, Network!Message
<1>2. QED
  BY <1>1, NetworkStep, TransportInvariant, PTL DEF Spec, ImplementsNetwork, Network!Spec
=============================================================================
