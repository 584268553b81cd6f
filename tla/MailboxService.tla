--------------------------- MODULE MailboxService ---------------------------
(***************************************************************************)
(* What the threads that share a time-stamped mailbox may rely on: a call  *)
(* of get() returns the front message in one step, and does return when    *)
(* there is always one.  FrameAssembler takes tiles from its mailbox this  *)
(* way.  MailboxMonitor, with its mutex and condition variable, implements *)
(* this specification.                                                     *)
(***************************************************************************)
EXTENDS TimeStampedMailbox

CONSTANTS Consumers,    \* the threads that call get()
          Message,      \* what may be put, each message once
          FrameIDs,     \* the frames that may be started
          NoMessage     \* what a thread holds that never got a message

VARIABLES mailbox,   \* the TimeStampedMailbox
          calling,   \* the threads inside get()
          got,       \* what each thread's last get() returned
          arrived    \* the messages that were put

vars == <<mailbox, calling, got, arrived>>

Init ==
  /\ mailbox = EmptyMailbox
  /\ calling = {}
  /\ got = [c \in Consumers |-> NoMessage]
  /\ arrived = {}

Call(c) ==
  /\ c \notin calling
  /\ calling' = calling \cup {c}
  /\ UNCHANGED <<mailbox, got, arrived>>

Return(c) ==
  /\ c \in calling
  /\ CanGet(mailbox)
  /\ got' = [got EXCEPT ![c] = Front(mailbox)]
  /\ mailbox' = PopFront(mailbox)
  /\ calling' = calling \ {c}
  /\ UNCHANGED arrived

Put(m) ==
  /\ m \notin arrived
  /\ arrived' = arrived \cup {m}
  /\ mailbox' = LockedPut(mailbox, m)
  /\ UNCHANGED <<calling, got>>

StartFrame(f) ==
  /\ mailbox' = StartNewFrame(mailbox, f)
  /\ UNCHANGED <<calling, got, arrived>>

Next ==
  \/ \E c \in Consumers : Call(c) \/ Return(c)
  \/ \E m \in Message : Put(m)
  \/ \E f \in FrameIDs : StartFrame(f)

Spec == Init /\ [][Next]_vars /\ \A c \in Consumers : WF_vars(Return(c))
=============================================================================
