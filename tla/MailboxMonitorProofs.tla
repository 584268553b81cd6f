------------------------ MODULE MailboxMonitorProofs ------------------------
(***************************************************************************)
(* The mailbox with its mutex and condition variable, for any number of    *)
(* threads, any messages and frames started in any order: no thread and no *)
(* message waits in vain, each message is handed out once, and every step  *)
(* is one that MailboxService allows.                                      *)
(***************************************************************************)
EXTENDS MailboxMonitor, MailboxFacts

USE MessageAssumption

\* There is a message to get exactly if the queue has an element.
LEMMA CanGetFacts ==
  ASSUME NEW S, NEW mb \in Mailbox(S)
  PROVE  CanGet(mb) <=> Range(mb.messages) # {}
<1>1. mb.messages \in Seq(S)
  BY DEF Mailbox
<1>2. Range(mb.messages) = {mb.messages[i] : i \in 1 .. Len(mb.messages)}
  BY <1>1, RangeEquality
<1>3. mb.messages = <<>> <=> Len(mb.messages) = 0
  BY <1>1, EmptySeq
<1>4. Len(mb.messages) \in Nat
  BY <1>1, LenProperties
<1>5. (Len(mb.messages) # 0 => 1 \in 1 .. Len(mb.messages)) /\ 1 .. 0 = {}
  BY <1>4
<1>6. QED
  BY <1>2, <1>3, <1>5 DEF CanGet

-----------------------------------------------------------------------------
(* The inductive invariant.                                                *)

LEMMA InitIInv == Init => IInv
<1> SUFFICES ASSUME Init PROVE IInv
  OBVIOUS
<1>1. /\ mailbox \in Mailbox(Message)
      /\ mailbox.messages = <<>> /\ mailbox.futureFrameMessages = <<>>
  BY DEF Init, EmptyMailbox, Mailbox
<1>2. Range(<<>>) = {} /\ IsInjective(<<>>)
  BY DEF Range, IsInjective
<1>3. TypeOK
  BY <1>1, <1>2 DEF Init, TypeOK, NoDuplicates
<1>4. NothingWaitsInVain /\ HandedOutOnce /\ OnlyWhatArrived
  BY <1>1, <1>2 DEF Init, NothingWaitsInVain, NobodySleepsOverMessages, DeferredAreAhead,
                    HandedOutOnce, OnlyWhatArrived
<1>5. QED
  BY <1>3, <1>4 DEF IInv

\* Steps that change nothing but where a thread is.
LEMMA ThreadStep ==
  ASSUME IInv, NEW c \in Consumers, Call(c) \/ Wait(c) \/ WakeUp(c)
  PROVE  IInv'
<1>1. UNCHANGED <<mailbox, got, arrived>>
  BY DEF Call, Wait, WakeUp
<1>2. consumer' \in [Consumers -> {"out", "awake", "asleep"}]
  BY DEF IInv, TypeOK, Call, Wait, WakeUp
<1>3. NobodySleepsOverMessages'
  BY <1>1 DEF IInv, TypeOK, NothingWaitsInVain, NobodySleepsOverMessages, Call, Wait, WakeUp
<1>4. QED
  BY <1>1, <1>2, <1>3 DEF IInv, TypeOK, NothingWaitsInVain, DeferredAreAhead,
                          HandedOutOnce, OnlyWhatArrived

\* get() returns: the message is in one pair of hands and nowhere else.
LEMMA TakeStep ==
  ASSUME IInv, NEW c \in Consumers, Take(c)
  PROVE  IInv'
<1> DEFINE m == Front(mailbox)
<1>1. mailbox \in Mailbox(Message) /\ NoDuplicates(mailbox) /\ CanGet(mailbox)
  BY DEF IInv, TypeOK, Take
<1>2. /\ mailbox' = PopFront(mailbox)
      /\ got' = [got EXCEPT ![c] = m]
      /\ consumer' = [consumer EXCEPT ![c] = "out"]
      /\ arrived' = arrived
  BY DEF Take
<1>3. /\ mailbox' \in Mailbox(Message)
      /\ mailbox'.currentFrameID = mailbox.currentFrameID
      /\ Range(mailbox.messages) = Range(mailbox'.messages) \cup {m}
      /\ mailbox'.futureFrameMessages = mailbox.futureFrameMessages
      /\ NoDuplicates(mailbox') /\ m \notin Range(mailbox'.messages)
  BY <1>1, <1>2, PopFrontFacts
<1>4. m \in Message /\ m \in arrived /\ m # NoMessage
  BY <1>3 DEF IInv, TypeOK, OnlyWhatArrived
<1>5. m \notin Range(mailbox.futureFrameMessages)
  BY <1>1, <1>3 DEF NoDuplicates
<1> HIDE DEF m
<1>6. TypeOK'
  BY <1>2, <1>3, <1>4 DEF IInv, TypeOK
<1>7. CanGet(mailbox') => CanGet(mailbox)
  BY <1>1
<1>8. NothingWaitsInVain'
  BY <1>2, <1>3, <1>7 DEF IInv, TypeOK, NothingWaitsInVain, NobodySleepsOverMessages, DeferredAreAhead
<1>9. \A d \in Consumers : got[d] # m
  BY <1>3, <1>4 DEF IInv, HandedOutOnce
<1>10. HandedOutOnce'
  <2> SUFFICES ASSUME NEW d \in Consumers, got'[d] # NoMessage
               PROVE  /\ got'[d] \notin Range(mailbox'.messages) \cup Range(mailbox'.futureFrameMessages)
                      /\ \A e \in Consumers : got'[e] = got'[d] => e = d
    BY DEF HandedOutOnce
  <2>1. got \in [Consumers -> Message \cup {NoMessage}]
    BY DEF IInv, TypeOK
  <2>2. CASE d = c
    BY <1>2, <1>3, <1>5, <1>9, <2>1, <2>2
  <2>3. CASE d # c
    BY <1>2, <1>3, <1>9, <2>1, <2>3 DEF IInv, HandedOutOnce
  <2>4. QED
    BY <2>2, <2>3
<1>11. OnlyWhatArrived'
  BY <1>2, <1>3, <1>4 DEF IInv, TypeOK, OnlyWhatArrived
<1>12. QED
  BY <1>6, <1>8, <1>10, <1>11 DEF IInv

\* put(): whoever sleeps is woken when the message is let through.
LEMMA PutStep ==
  ASSUME IInv, NEW m \in Message, Put(m)
  PROVE  IInv'
<1>1. mailbox \in Mailbox(Message) /\ NoDuplicates(mailbox) /\ m.frameID \in Int
  BY DEF IInv, TypeOK
<1>2. /\ mailbox' = LockedPut(mailbox, m)
      /\ arrived' = arrived \cup {m} /\ m \notin arrived
      /\ got' = got
  BY DEF Put
<1>3. /\ mailbox' \in Mailbox(Message)
      /\ mailbox'.currentFrameID = mailbox.currentFrameID
      /\ Range(mailbox'.messages) =
           IF m.frameID = mailbox.currentFrameID
             THEN Range(mailbox.messages) \cup {m} ELSE Range(mailbox.messages)
      /\ Range(mailbox'.futureFrameMessages) =
           IF m.frameID > mailbox.currentFrameID
             THEN Range(mailbox.futureFrameMessages) \cup {m}
             ELSE Range(mailbox.futureFrameMessages)
      /\ (m \notin Range(mailbox.messages) \cup Range(mailbox.futureFrameMessages))
           => NoDuplicates(mailbox')
  BY <1>1, <1>2, LockedPutFacts
<1>4. m \notin Range(mailbox.messages) \cup Range(mailbox.futureFrameMessages)
  BY <1>2 DEF IInv, OnlyWhatArrived
<1>5. \A c \in Consumers : got[c] # m
  BY <1>2 DEF IInv, OnlyWhatArrived
<1>6. consumer' \in [Consumers -> {"out", "awake", "asleep"}]
  BY DEF IInv, TypeOK, Put, NotifyAll
<1>7. TypeOK'
  BY <1>2, <1>3, <1>4, <1>6 DEF IInv, TypeOK
<1>8. NobodySleepsOverMessages'
  <2>1. CASE m.frameID = mailbox.currentFrameID
    BY <2>1 DEF IInv, TypeOK, Put, NotifyAll, NobodySleepsOverMessages
  <2>2. CASE m.frameID # mailbox.currentFrameID
    <3>1. CanGet(mailbox') <=> CanGet(mailbox)
      BY <1>1, <1>3, <2>2, CanGetFacts
    <3>2. consumer' = consumer
      BY <2>2 DEF Put
    <3>3. QED
      BY <3>1, <3>2 DEF IInv, NothingWaitsInVain, NobodySleepsOverMessages
  <2>3. QED
    BY <2>1, <2>2
<1>9. DeferredAreAhead'
  BY <1>3 DEF IInv, NothingWaitsInVain, DeferredAreAhead
<1>10. HandedOutOnce'
  BY <1>2, <1>3, <1>5 DEF IInv, HandedOutOnce
<1>11. OnlyWhatArrived'
  BY <1>2, <1>3 DEF IInv, OnlyWhatArrived
<1>12. QED
  BY <1>7, <1>8, <1>9, <1>10, <1>11 DEF IInv, NothingWaitsInVain

\* startNewFrame(): whoever sleeps is woken when a deferred message is let through.
LEMMA StartFrameStep ==
  ASSUME IInv, NEW f \in FrameIDs, StartFrame(f)
  PROVE  IInv'
<1>1. mailbox \in Mailbox(Message) /\ NoDuplicates(mailbox) /\ f \in Int
  BY DEF IInv, TypeOK
<1>2. mailbox' = StartNewFrame(mailbox, f) /\ arrived' = arrived /\ got' = got
  BY DEF StartFrame
<1>3. /\ mailbox' \in Mailbox(Message)
      /\ mailbox'.currentFrameID = f
      /\ Range(mailbox'.messages) = Range(mailbox.messages) \cup Due(f)
      /\ Range(mailbox'.futureFrameMessages) =
           {m \in Range(mailbox.futureFrameMessages) : m.frameID > f}
      /\ NoDuplicates(mailbox')
  BY <1>1, <1>2, StartNewFrameFacts DEF Due
<1>4. Due(f) \subseteq Range(mailbox.futureFrameMessages)
  BY DEF Due
<1>5. consumer' \in [Consumers -> {"out", "awake", "asleep"}]
  BY DEF IInv, TypeOK, StartFrame, NotifyAll
<1>6. TypeOK'
  BY <1>2, <1>3, <1>5 DEF IInv, TypeOK
<1>7. NobodySleepsOverMessages'
  <2>1. CASE Due(f) # {}
    BY <2>1 DEF IInv, TypeOK, StartFrame, NotifyAll, NobodySleepsOverMessages
  <2>2. CASE Due(f) = {}
    <3>1. CanGet(mailbox') <=> CanGet(mailbox)
      BY <1>1, <1>3, <2>2, CanGetFacts
    <3>2. consumer' = consumer
      BY <2>2 DEF StartFrame
    <3>3. QED
      BY <3>1, <3>2 DEF IInv, NothingWaitsInVain, NobodySleepsOverMessages
  <2>3. QED
    BY <2>1, <2>2
<1>8. DeferredAreAhead'
  BY <1>3 DEF DeferredAreAhead
<1>9. HandedOutOnce'
  BY <1>2, <1>3, <1>4 DEF IInv, HandedOutOnce
<1>10. OnlyWhatArrived'
  BY <1>2, <1>3, <1>4 DEF IInv, OnlyWhatArrived
<1>11. QED
  BY <1>6, <1>7, <1>8, <1>9, <1>10 DEF IInv, NothingWaitsInVain

LEMMA NextIInv == IInv /\ [Next]_vars => IInv'
<1> SUFFICES ASSUME IInv, [Next]_vars PROVE IInv'
  OBVIOUS
<1>1. CASE UNCHANGED vars
  BY <1>1 DEF vars, IInv, TypeOK, NothingWaitsInVain, NobodySleepsOverMessages,
              DeferredAreAhead, HandedOutOnce, OnlyWhatArrived
<1>2. ASSUME NEW c \in Consumers, Call(c) \/ Take(c) \/ Wait(c) \/ WakeUp(c) PROVE IInv'
  BY <1>2, ThreadStep, TakeStep
<1>3. ASSUME NEW m \in Message, Put(m) PROVE IInv'
  BY <1>3, PutStep
<1>4. ASSUME NEW f \in FrameIDs, StartFrame(f) PROVE IInv'
  BY <1>4, StartFrameStep
<1>5. QED
  BY <1>1, <1>2, <1>3, <1>4 DEF Next

\* The inductive invariant of the monitor.
THEOREM MonitorInvariant == Spec => []IInv
BY InitIInv, NextIInv, PTL DEF Spec

-----------------------------------------------------------------------------
(* What follows from it.                                                   *)

\* Type correctness, and no message is in the mailbox twice.
THEOREM MonitorTypeOK == Spec => []TypeOK
<1>1. IInv => TypeOK
  BY DEF IInv
<1>2. QED
  BY <1>1, MonitorInvariant, PTL

\* Neither put() nor startNewFrame() leaves a thread asleep over a message, or
\* a message waiting for a frame that is past.
THEOREM NoVainWaiting == Spec => []NothingWaitsInVain
<1>1. IInv => NothingWaitsInVain
  BY DEF IInv
<1>2. QED
  BY <1>1, MonitorInvariant, PTL

\* Two calls of get() never return the same message.
THEOREM HandingOut == Spec => []HandedOutOnce
<1>1. IInv => HandedOutOnce
  BY DEF IInv
<1>2. QED
  BY <1>1, MonitorInvariant, PTL

\* Putting the deferred messages again one by one, as startNewFrame() does,
\* comes to what StartNewFrame says of any mailbox that occurs.
THEOREM RePutting == Spec => []RePutKeepsOrder
<1>1. IInv => RePutKeepsOrder
  BY LoopFacts DEF IInv, TypeOK, RePutKeepsOrder
<1>2. QED
  BY <1>1, MonitorInvariant, PTL

\* Every step of the monitor is a step of the mailbox whose get() is atomic, or
\* none at all.  (That get() returns is liveness, which TLC checks.)
THEOREM MonitorSimulates == Spec => Service!Init /\ [][Service!Next]_Service!vars
<1>1. Init => Service!Init
  BY DEF Init, Service!Init, EmptyMailbox, Service!EmptyMailbox
<1>2. IInv /\ [Next]_vars => [Service!Next]_Service!vars
  <2> SUFFICES ASSUME IInv, [Next]_vars PROVE [Service!Next]_Service!vars
    OBVIOUS
  <2> DEFINE inGet == {c \in Consumers : consumer[c] # "out"}
  <2>0. consumer \in [Consumers -> {"out", "awake", "asleep"}]
    BY DEF IInv, TypeOK
  <2>1. CASE UNCHANGED vars
    BY <2>1 DEF vars, Service!vars
  <2>2. ASSUME NEW c \in Consumers, Call(c) PROVE Service!Call(c)
    <3>1. c \notin inGet /\ inGet' = inGet \cup {c}
      BY <2>0, <2>2 DEF Call
    <3>2. QED
      BY <2>2, <3>1 DEF Call, Service!Call
  <2>3. ASSUME NEW c \in Consumers, Take(c) PROVE Service!Return(c)
    <3>1. c \in inGet /\ inGet' = inGet \ {c}
      BY <2>0, <2>3 DEF Take
    <3>2. QED
      BY <2>3, <3>1 DEF Take, Service!Return, CanGet, Front, PopFront,
                        Service!CanGet, Service!Front, Service!PopFront
  <2>4. ASSUME NEW c \in Consumers, Wait(c) \/ WakeUp(c) PROVE UNCHANGED Service!vars
    <3>1. inGet' = inGet
      BY <2>0, <2>4 DEF Wait, WakeUp
    <3>2. QED
      BY <2>4, <3>1 DEF Wait, WakeUp, Service!vars
  <2>5. ASSUME NEW m \in Message, Put(m) PROVE Service!Put(m)
    <3>1. inGet' = inGet
      BY <2>0, <2>5 DEF Put, NotifyAll
    <3>2. QED
      BY <2>5, <3>1 DEF Put, Service!Put, LockedPut, Service!LockedPut
  <2>6. ASSUME NEW f \in FrameIDs, StartFrame(f) PROVE Service!StartFrame(f)
    <3>1. inGet' = inGet
      BY <2>0, <2>6 DEF StartFrame, NotifyAll
    <3>2. \A K : SubseqAt(mailbox.futureFrameMessages, K)
                   = Service!SubseqAt(mailbox.futureFrameMessages, K)
      BY Zenon DEF SubseqAt, Service!SubseqAt, Rank, Service!Rank,
                   Cardinality, Service!Cardinality
    <3>3. StartNewFrame(mailbox, f) = Service!StartNewFrame(mailbox, f)
      BY <3>2, Zenon DEF StartNewFrame, Service!StartNewFrame
    <3>4. QED
      BY <2>6, <3>1, <3>3, Zenon DEF StartFrame, Service!StartFrame
  <2>7. QED
    BY <2>1, <2>2, <2>3, <2>4, <2>5, <2>6 DEF Next, Service!Next
<1>3. QED
  BY <1>1, <1>2, MonitorInvariant, PTL DEF Spec
=============================================================================
