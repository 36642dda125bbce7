------------------------------ MODULE MsgQueue ------------------------------
(* What a message queue between two server processes promises.  Messages the *)
(* sender was told are queued are handled at most once, whole and in order,  *)
(* and all of them unless the receiver dies: then the one message it has     *)
(* taken off the queue and is not done with is lost, and no other.  A crash  *)
(* of the sender loses nothing that is queued.  A sender may be refused.     *)
(* ShmMQ implements this with a ring of bytes in shared memory.              *)
EXTENDS Sequences

CONSTANTS Message,     \* what can be sent
          None         \* no message

VARIABLES queue,       \* sent and not yet taken off the queue, oldest first
          inHand,      \* taken off the queue and not yet handled
          taken        \* the message handled last

queueVars == <<queue, inHand, taken>>

QueueInit == queue = <<>> /\ inHand = None /\ taken = None

Send(m) == /\ queue' = Append(queue, m)
           /\ UNCHANGED <<inHand, taken>>

(* The receiver takes no message while it has one in hand. *)
Take == /\ queue # <<>> /\ inHand = None
        /\ inHand' = Head(queue)
        /\ queue' = Tail(queue)
        /\ UNCHANGED taken

Deliver == /\ inHand # None
           /\ taken' = inHand /\ inHand' = None
           /\ UNCHANGED queue

(* The receiver dies with a message in hand; nobody has it any more. *)
Lose == /\ inHand # None
        /\ inHand' = None
        /\ UNCHANGED <<queue, taken>>

QueueNext == Take \/ Deliver \/ Lose \/ \E m \in Message : Send(m)

QueueSpec == QueueInit /\ [][QueueNext]_queueVars
=============================================================================
