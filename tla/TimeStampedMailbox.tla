------------------------- MODULE TimeStampedMailbox -------------------------
(***************************************************************************)
(* The TimeStampedMailbox of src/common/Mailbox.h and Mailbox.cpp: the     *)
(* queue between the network and the threads that consume tiles.  It lets  *)
(* through the messages of the current frame, defers those of a later one  *)
(* and drops those of an earlier one.                                      *)
(*                                                                         *)
(* Every method runs under the mailbox's mutex from its first line to its  *)
(* last, so each is one operator from mailbox to mailbox; the machines     *)
(* that own a mailbox keep it in a variable and apply these operators.     *)
(* Only a message's frameID (the first field of its header) matters here.  *)
(***************************************************************************)
EXTENDS Integers, Sequences, FiniteSets, Functions

Mailbox(Message) ==
  [currentFrameID: Int, messages: Seq(Message), futureFrameMessages: Seq(Message)]

\* A mailbox no frame was started on yet.
EmptyMailbox ==
  [currentFrameID |-> -1, messages |-> <<>>, futureFrameMessages |-> <<>>]

\* No message is in a mailbox twice.
NoDuplicates(mb) ==
  /\ IsInjective(mb.messages)
  /\ IsInjective(mb.futureFrameMessages)
  /\ Range(mb.messages) \cap Range(mb.futureFrameMessages) = {}

-----------------------------------------------------------------------------
(* The part of a sequence that stands at the positions K, in order.        *)

Rank(K, i) == Cardinality({j \in K : j <= i})

SubseqAt(s, K) ==
  [n \in 1 .. Cardinality(K) |-> s[CHOOSE i \in K : Rank(K, i) = n]]

-----------------------------------------------------------------------------
(* Slips one could make in the methods below.  No specification uses them: *)
(* each is put in the place of the method to see a property fail.          *)

LockedPutNeverDefers(mb, m) ==
  IF m.frameID < mb.currentFrameID
    THEN mb ELSE [mb EXCEPT !.messages = Append(@, m)]

PopFrontForgotten(mb) == mb

StartNewFrameForgetsEarly(mb, f) ==
  [currentFrameID |-> f,
   messages |-> mb.messages \o
     SubseqAt(mb.futureFrameMessages,
              {i \in DOMAIN mb.futureFrameMessages : mb.futureFrameMessages[i].frameID = f}),
   futureFrameMessages |-> <<>>]

StartNewFrameKeepsDeferred(mb, f) ==
  [mb EXCEPT !.currentFrameID = f,
             !.messages = @ \o
               SubseqAt(mb.futureFrameMessages,
                        {i \in DOMAIN mb.futureFrameMessages : mb.futureFrameMessages[i].frameID = f})]

-----------------------------------------------------------------------------
(* The methods.                                                            *)

\* locked_put(), which is all that put() does once it has the mutex: a tile
\* of an earlier frame is dropped without a word.
LockedPut(mb, m) ==
  CASE m.frameID < mb.currentFrameID -> mb
    [] m.frameID = mb.currentFrameID -> [mb EXCEPT !.messages = Append(@, m)]
    [] m.frameID > mb.currentFrameID -> [mb EXCEPT !.futureFrameMessages = Append(@, m)]

\* get() when there is a message; it waits while there is none.
CanGet(mb) == mb.messages # <<>>
Front(mb) == Head(mb.messages)
PopFront(mb) == [mb EXCEPT !.messages = Tail(@)]

\* startNewFrame(frameID): the messages already let through stay, and every
\* deferred one is put again, in the order in which it was deferred.
StartNewFrame(mb, f) ==
  LET deferred == mb.futureFrameMessages
      due == {i \in DOMAIN deferred : deferred[i].frameID = f}
      early == {i \in DOMAIN deferred : deferred[i].frameID > f}
  IN  [currentFrameID |-> f,
       messages |-> mb.messages \o SubseqAt(deferred, due),
       futureFrameMessages |-> SubseqAt(deferred, early)]

\* The same by the code's loop, which puts the deferred messages again one by
\* one: k of them are put after k rounds.
StartNewFrameLoop(mb, f) ==
  LET deferred == mb.futureFrameMessages
      round[k \in 0 .. Len(deferred)] ==
        IF k = 0
        THEN [mb EXCEPT !.currentFrameID = f, !.futureFrameMessages = <<>>]
        ELSE LockedPut(round[k - 1], deferred[k])
  IN  round[Len(deferred)]
=============================================================================
