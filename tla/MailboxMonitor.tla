--------------------------- MODULE MailboxMonitor ---------------------------
(***************************************************************************)
(* The time-stamped mailbox of src/common/Mailbox.cpp as the monitor it    *)
(* is: get() waits on the condition variable newMessageAvailable while     *)
(* there is no message, and only locked_put() of the base class notifies   *)
(* it, once for every message that it lets through.                        *)
(*                                                                         *)
(* A step is one critical section of the mailbox's mutex.  A thread that   *)
(* waits leaves the mutex and falls asleep in one step; a thread that was  *)
(* woken, by a notification or by itself (the standard allows that), has   *)
(* to take the mutex again and looks at the queue again.                   *)
(***************************************************************************)
EXTENDS TimeStampedMailbox

CONSTANTS Consumers,    \* the threads that call get()
          Message,      \* what may be put, each message once
          FrameIDs,     \* the frames that may be started
          NoMessage     \* what a thread holds that never got a message

ASSUME MessageAssumption ==
  /\ \A m \in Message : m.frameID \in Int
  /\ FrameIDs \subseteq Int
  /\ NoMessage \notin Message

VARIABLES mailbox,    \* the TimeStampedMailbox
          consumer,   \* where each thread is: out of get(), awake or asleep in it
          got,        \* what each thread's last get() returned
          arrived     \* the messages that were put

vars == <<mailbox, consumer, got, arrived>>

Init ==
  /\ mailbox = EmptyMailbox
  /\ consumer = [c \in Consumers |-> "out"]
  /\ got = [c \in Consumers |-> NoMessage]
  /\ arrived = {}

\* newMessageAvailable.notify_all()
NotifyAll ==
  consumer' = [c \in Consumers |->
                 IF consumer[c] = "asleep" THEN "awake" ELSE consumer[c]]

\* The messages of the mailbox that startNewFrame(f) lets through.
Due(f) == {m \in Range(mailbox.futureFrameMessages) : m.frameID = f}

-----------------------------------------------------------------------------
(* Slips one could make in the methods below; no specification uses them.  *)

\* The deferred messages are moved to the queue without notifying anyone.
StartFrameInSilence(f) ==
  /\ mailbox' = StartNewFrame(mailbox, f)
  /\ UNCHANGED <<consumer, got, arrived>>

\* notify_one() where several messages may have been let through.
StartFrameNotifiesOne(f) ==
  /\ mailbox' = StartNewFrame(mailbox, f)
  /\ IF Due(f) = {}
       THEN UNCHANGED consumer
       ELSE \/ \E c \in Consumers : /\ consumer[c] = "asleep"
                                    /\ consumer' = [consumer EXCEPT ![c] = "awake"]
            \/ /\ \A c \in Consumers : consumer[c] # "asleep"
               /\ UNCHANGED consumer
  /\ UNCHANGED <<got, arrived>>

-----------------------------------------------------------------------------
(* The methods.                                                            *)

Call(c) ==
  /\ consumer[c] = "out"
  /\ consumer' = [consumer EXCEPT ![c] = "awake"]
  /\ UNCHANGED <<mailbox, got, arrived>>

\* get() with the mutex held and a message in the queue
Take(c) ==
  /\ consumer[c] = "awake"
  /\ CanGet(mailbox)
  /\ got' = [got EXCEPT ![c] = Front(mailbox)]
  /\ mailbox' = PopFront(mailbox)
  /\ consumer' = [consumer EXCEPT ![c] = "out"]
  /\ UNCHANGED arrived

\* newMessageAvailable.wait(lock)
Wait(c) ==
  /\ consumer[c] = "awake"
  /\ ~ CanGet(mailbox)
  /\ consumer' = [consumer EXCEPT ![c] = "asleep"]
  /\ UNCHANGED <<mailbox, got, arrived>>

\* A spurious wake-up.
WakeUp(c) ==
  /\ consumer[c] = "asleep"
  /\ consumer' = [consumer EXCEPT ![c] = "awake"]
  /\ UNCHANGED <<mailbox, got, arrived>>

\* put(): a message that is dropped or deferred notifies nobody.
Put(m) ==
  /\ m \notin arrived
  /\ arrived' = arrived \cup {m}
  /\ mailbox' = LockedPut(mailbox, m)
  /\ IF m.frameID = mailbox.currentFrameID THEN NotifyAll ELSE UNCHANGED consumer
  /\ UNCHANGED got

\* startNewFrame(f), called by whoever starts a frame: every deferred
\* message goes through locked_put() again, under one lock.
StartFrame(f) ==
  /\ mailbox' = StartNewFrame(mailbox, f)
  /\ IF Due(f) # {} THEN NotifyAll ELSE UNCHANGED consumer
  /\ UNCHANGED <<got, arrived>>

Next ==
  \/ \E c \in Consumers : Call(c) \/ Take(c) \/ Wait(c) \/ WakeUp(c)
  \/ \E m \in Message : Put(m)
  \/ \E f \in FrameIDs : StartFrame(f)

\* A thread that is awake in get() gets the mutex at last.  Nobody has to
\* wake by itself, to put anything or to start a frame.
Fairness == \A c \in Consumers : WF_vars(Take(c)) /\ WF_vars(Wait(c))

Spec == Init /\ [][Next]_vars /\ Fairness

-----------------------------------------------------------------------------
(* Correctness.                                                            *)

\* Every variable has its type, and no message is in the mailbox twice.
TypeOK ==
  /\ mailbox \in Mailbox(Message)
  /\ NoDuplicates(mailbox)
  /\ consumer \in [Consumers -> {"out", "awake", "asleep"}]
  /\ got \in [Consumers -> Message \cup {NoMessage}]
  /\ arrived \subseteq Message

\* No thread sleeps in get() while there is a message for it: neither a put
\* nor the re-putting of deferred messages forgets a sleeper.
NobodySleepsOverMessages ==
  CanGet(mailbox) => \A c \in Consumers : consumer[c] # "asleep"

\* No message is handed to two threads, or handed out and kept.
HandedOutOnce ==
  \A c \in Consumers : got[c] # NoMessage =>
    /\ got[c] \notin Range(mailbox.messages) \cup Range(mailbox.futureFrameMessages)
    /\ \A d \in Consumers : got[d] = got[c] => d = c

\* What is deferred is of a later frame than the mailbox's, whatever frames
\* were started, in whatever order: nothing waits for a frame that is past.
DeferredAreAhead ==
  \A m \in Range(mailbox.futureFrameMessages) : m.frameID > mailbox.currentFrameID

\* No thread waits for a message that is there, no message for a frame that
\* has been.
NothingWaitsInVain == NobodySleepsOverMessages /\ DeferredAreAhead

\* startNewFrame()'s loop, which puts the deferred messages again one by one,
\* comes to what StartNewFrame says: those of the frame join the queue behind
\* what it holds, later ones stay deferred, both in their old order.
RePutKeepsOrder ==
  \A f \in FrameIDs : StartNewFrameLoop(mailbox, f) = StartNewFrame(mailbox, f)

\* Why a message is handed out once: what is in the mailbox or in a thread's
\* hands had arrived, so that no put brings it again.
OnlyWhatArrived ==
  /\ Range(mailbox.messages) \cup Range(mailbox.futureFrameMessages) \subseteq arrived
  /\ \A c \in Consumers : got[c] \in arrived \cup {NoMessage}

\* The inductive invariant.
IInv == TypeOK /\ NothingWaitsInVain /\ HandedOutOnce /\ OnlyWhatArrived

\* The monitor is a mailbox whose get() is one step that does not block for
\* ever while there are messages.
Service == INSTANCE MailboxService WITH
  calling <- {c \in Consumers : consumer[c] # "out"}

ImplementsService == Service!Spec
=============================================================================
