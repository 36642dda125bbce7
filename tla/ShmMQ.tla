------------------------------- MODULE ShmMQ --------------------------------
(* One message queue between two processes of the server (tfc_net_ipc_mq,    *)
(* tfc_cache_proc): a ring in shared memory with a head that only the reader *)
(* moves and a tail that only the writer moves.  The semaphore around it is  *)
(* commented out, so the steps of the two interleave as they come.  A pipe   *)
(* carries wake-ups that may be missing; the reader's event loop polls too.  *)
(* The ring outlives a crash of either process; a message that the reader    *)
(* has taken off the ring and not yet handled does not outlive the reader.   *)
(*                                                                           *)
(* The unit of length is one field of the header: the two fields total_len   *)
(* and flow take C_HEAD_SIZE = 2 units where the code has 8 bytes.           *)
EXTENDS Integers, Sequences, FiniteSets

CONSTANTS BlockSize,       \* _block_size
          BufSize,         \* the reader's buffer
          MaxCount,        \* messages taken in one dispatch; 9999 in the code
          PipeSize,        \* wake-ups the pipe holds
          Message,         \* [flow, data] records that are sent
          None

C_HEAD_SIZE == 2

ASSUME SizesAssumption == /\ BlockSize \in Nat /\ BlockSize > C_HEAD_SIZE
                          /\ BufSize \in Nat /\ MaxCount \in Nat \ {0}
                          /\ PipeSize \in Nat
ASSUME MessageAssumption == /\ Message \subseteq [flow : Nat, data : Seq(Nat)]
                            /\ \A m \in Message : m.data # <<>>
                            /\ None \notin Message

VARIABLES head, tail,      \* *_head, *_tail
          block,           \* the ring
          writer,          \* where the writer is in enqueue
          msg,             \* the message it is sending
          reader,          \* where the reader is in its event loop
          rec,             \* the locals of dequeue: used_len, total_len,
                           \* flow and buf
          count,           \* messages taken in this dispatch
          active,          \* _active: dispatched because of a wake-up
          pipe,            \* wake-ups in the pipe
          taken            \* the message handled last

writerVars == <<tail, block, writer, msg>>
readerVars == <<head, reader, rec, count, active, taken>>
vars == <<writerVars, readerVars, pipe>>

Position == 0 .. BlockSize
Unit == Nat
NoRec == [used |-> 0, total |-> 0, flow |-> 0, data |-> <<>>]

TypeOK == /\ head \in Position /\ tail \in Position
          /\ block \in [0 .. BlockSize - 1 -> Unit]
          /\ writer \in {"idle", "header", "data", "publish", "notify"}
          /\ msg \in Message \cup {None}
          /\ reader \in {"wait", "poll", "dequeue", "header", "data", "consume", "handle"}
          /\ rec \in [used : Nat, total : Unit, flow : Unit, data : Seq(Unit)]
          /\ count \in 0 .. MaxCount
          /\ active \in BOOLEAN
          /\ pipe \in 0 .. PipeSize
          /\ taken \in Message \cup {None}
-----------------------------------------------------------------------------
(* The unit i places after position p; the ring closes after BlockSize.      *)
Cell(p, i) == (p + i) % BlockSize

(* The three copies of enqueue and the two of dequeue, whatever the place    *)
(* where the record wraps.                                                   *)
Written(p, s) ==
  [u \in 0 .. BlockSize - 1 |->
     IF \E i \in 1 .. Len(s) : u = Cell(p, i - 1)
     THEN s[CHOOSE i \in 1 .. Len(s) : u = Cell(p, i - 1)]
     ELSE block[u]]
Read(p, n) == [i \in 1 .. n |-> block[Cell(p, i - 1)]]

(* The tail as the third case of enqueue once published it: not yet folded   *)
(* back into the ring.                                                       *)
MovedNoFold(p, n) == p + n

(* A position moved on: past the end of the block it starts over, but it may *)
(* stand at the end itself, as BlockSize.                                    *)
Moved(p, n) == IF p + n > BlockSize THEN p + n - BlockSize ELSE p + n

free_len == IF head > tail THEN head - tail ELSE head + BlockSize - tail
used_len == IF tail > head THEN tail - head ELSE tail + BlockSize - head

total_len(m) == Len(m.data) + C_HEAD_SIZE
-----------------------------------------------------------------------------
Init == /\ head = 0 /\ tail = 0 /\ block = [u \in 0 .. BlockSize - 1 |-> 0]
        /\ writer = "idle" /\ msg = None
        /\ reader = "wait" /\ rec = NoRec /\ count = 0
        /\ active = FALSE /\ pipe = 0 /\ taken = None

(* A test for space that lets the tail catch up with the head. *)
EnqueueFullRing(m) ==
  /\ writer = "idle" /\ free_len >= total_len(m)
  /\ msg' = m /\ writer' = "header"
  /\ UNCHANGED <<tail, block, readerVars, pipe>>

(* A test for space that forgets the header. *)
EnqueueNoHeader(m) ==
  /\ writer = "idle" /\ free_len > Len(m.data)
  /\ msg' = m /\ writer' = "header"
  /\ UNCHANGED <<tail, block, readerVars, pipe>>

(* enqueue finds room for m; without room it returns -1 and m is not sent.   *)
Enqueue(m) == /\ writer = "idle" /\ free_len > total_len(m)
              /\ msg' = m /\ writer' = "header"
              /\ UNCHANGED <<tail, block, readerVars, pipe>>

WriteHeader == /\ writer = "header"
               /\ block' = Written(tail, <<total_len(msg), msg.flow>>)
               /\ writer' = "data"
               /\ UNCHANGED <<tail, msg, readerVars, pipe>>

WriteData == /\ writer = "data"
             /\ block' = Written(Moved(tail, C_HEAD_SIZE), msg.data)
             /\ writer' = "publish"
             /\ UNCHANGED <<tail, msg, readerVars, pipe>>

(* The tail moved before the data is in the ring. *)
PublishEarly == /\ writer = "data"
                /\ tail' = Moved(tail, total_len(msg))
                /\ writer' = "notify"
                /\ UNCHANGED <<block, msg, readerVars, pipe>>

Publish == /\ writer = "publish"
           /\ tail' = Moved(tail, total_len(msg))
           /\ writer' = "notify"
           /\ UNCHANGED <<block, msg, readerVars, pipe>>

(* CFifoSyncMQ::enqueue writes to the pipe for one message in so many, by a  *)
(* factor that follows the load, and the write fails when the pipe is full.  *)
Notify == /\ writer = "notify"
          /\ pipe' \in {pipe} \cup ({pipe + 1} \cap 0 .. PipeSize)
          /\ writer' = "idle" /\ msg' = None
          /\ UNCHANGED <<tail, block, readerVars>>

(* The writing process dies and is started again; init finds the ring. *)
WriterCrash == /\ writer # "idle"
               /\ writer' = "idle" /\ msg' = None
               /\ UNCHANGED <<tail, block, readerVars, pipe>>
-----------------------------------------------------------------------------
(* run_epoll_4_mq: epoll_wait reports the pipe, one wake-up is read and the  *)
(* queue is dispatched.                                                      *)
Wake == /\ reader = "wait" /\ pipe > 0
        /\ pipe' = pipe - 1
        /\ active' = TRUE /\ reader' = "dequeue" /\ count' = 0
        /\ UNCHANGED <<head, rec, taken, writerVars>>

(* epoll_wait times out, or a signal interrupts it whatever the pipe holds.  *)
NoEvent == /\ reader = "wait"
           /\ reader' = "poll"
           /\ UNCHANGED <<head, rec, count, active, taken, writerVars, pipe>>

(* A loop that relies on the wake-ups alone. *)
NoPoll == /\ reader = "poll"
          /\ active' = FALSE /\ reader' = "wait"
          /\ UNCHANGED <<head, rec, count, taken, writerVars, pipe>>

(* The second half of the loop: a queue that was not active is tried too.    *)
Poll == /\ reader = "poll"
        /\ IF active
           THEN active' = FALSE /\ reader' = "wait" /\ UNCHANGED count
           ELSE reader' = "dequeue" /\ count' = 0 /\ UNCHANGED active
        /\ UNCHANGED <<head, rec, taken, writerVars, pipe>>

(* A dispatch returns to the half of the loop that called it. *)
AfterDispatch == IF active THEN "poll" ELSE "wait"

(* The dispatch has taken its share, or the queue is empty. *)
Return == /\ reader = "dequeue"
          /\ count = MaxCount \/ head = tail
          /\ reader' = AfterDispatch
          /\ UNCHANGED <<head, rec, count, active, taken, writerVars, pipe>>

(* dequeue reads head and tail and finds that the queue is not empty. *)
Dequeue == /\ reader = "dequeue" /\ count < MaxCount /\ head # tail
           /\ rec' = [NoRec EXCEPT !.used = used_len]
           /\ reader' = "header"
           /\ UNCHANGED <<head, count, active, taken, writerVars, pipe>>

(* It reads a header.  A record longer than the buffer stays where it is and *)
(* ends the dispatch.                                                        *)
ReadHeader ==
  LET h == Read(head, C_HEAD_SIZE)
  IN  /\ reader = "header"
      /\ IF h[1] - C_HEAD_SIZE > BufSize
         THEN reader' = AfterDispatch /\ rec' = NoRec
         ELSE reader' = "data" /\ rec' = [rec EXCEPT !.total = h[1], !.flow = h[2]]
      /\ UNCHANGED <<head, count, active, taken, writerVars, pipe>>

ReadData == /\ reader = "data"
            /\ rec' = [rec EXCEPT !.data = Read(Moved(head, C_HEAD_SIZE),
                                                rec.total - C_HEAD_SIZE)]
            /\ reader' = "consume"
            /\ UNCHANGED <<head, count, active, taken, writerVars, pipe>>

(* The head moves past the record and dequeue returns: the message is in the *)
(* reader's buffer only.                                                     *)
Consume == /\ reader = "consume"
           /\ head' = Moved(Moved(head, C_HEAD_SIZE), rec.total - C_HEAD_SIZE)
           /\ rec' = [NoRec EXCEPT !.flow = rec.flow, !.data = rec.data]
           /\ reader' = "handle"
           /\ UNCHANGED <<count, active, taken, writerVars, pipe>>

(* The dispatch has the message in the buffer handled and tries for another. *)
Handle == /\ reader = "handle"
          /\ taken' = [flow |-> rec.flow, data |-> rec.data]
          /\ count' = count + 1 /\ reader' = "dequeue" /\ rec' = NoRec
          /\ UNCHANGED <<head, active, writerVars, pipe>>

(* The reading process dies anywhere in its loop and is started again.  The  *)
(* head is where it left it: a record whose head store was still to come is  *)
(* read again, one behind it that was not handled is gone.                   *)
ReaderCrash == /\ reader # "wait"
               /\ reader' = "wait" /\ active' = FALSE /\ rec' = NoRec
               /\ UNCHANGED <<head, count, taken, writerVars, pipe>>
-----------------------------------------------------------------------------
Writing == \/ \E m \in Message : Enqueue(m)
           \/ WriteHeader \/ WriteData \/ Publish \/ Notify
EventLoop == \/ Wake \/ NoEvent \/ Poll \/ Return
             \/ Dequeue \/ ReadHeader \/ ReadData \/ Consume \/ Handle

Next == Writing \/ EventLoop \/ WriterCrash \/ ReaderCrash

Spec == Init /\ [][Next]_vars

(* run() calls run_epoll_4_mq for ever, which waits a millisecond at most.   *)
(* Nothing is assumed of the writer.                                         *)
FairSpec == Spec /\ WF_vars(EventLoop)
-----------------------------------------------------------------------------
(* The cells that hold messages, and those a started enqueue writes to. *)
UsedCells == IF head = tail THEN {} ELSE {Cell(head, i) : i \in 0 .. used_len - 1}
WrittenCells == IF writer \in {"header", "data"}
                THEN {Cell(tail, i) : i \in 0 .. total_len(msg) - 1}
                ELSE {}

(* Without a lock, the writer never touches a cell that holds a message the  *)
(* reader has yet to take or is just copying: its test for space, made with  *)
(* a head that moves on meanwhile, stays on the safe side.                   *)
WritesOnlyFreeCells == WrittenCells \cap UsedCells = {}

(* The assertion  total_len <= used_len  of dequeue: the header found at the *)
(* head is the whole header of a record that lies within what the tail read  *)
(* earlier covers.                                                           *)
AssertTotalLen == reader = "header" => /\ Read(head, C_HEAD_SIZE)[1] >= C_HEAD_SIZE
                                       /\ Read(head, C_HEAD_SIZE)[1] <= rec.used

(* The records between head and tail: where they start, and what they say.   *)
Start == LET start[i \in 0 .. BlockSize] ==
               IF i = 0 THEN head
               ELSE LET p == start[i - 1]
                    IN  IF p = tail THEN tail ELSE Moved(p, Read(p, C_HEAD_SIZE)[1])
         IN  start

RecordAt(p) ==
  LET h == Read(p, C_HEAD_SIZE)
  IN  [flow |-> h[2], data |-> Read(Moved(p, C_HEAD_SIZE), h[1] - C_HEAD_SIZE)]

Contents == LET start == Start
            IN  [i \in 1 .. Cardinality({j \in 0 .. BlockSize : start[j] # tail})
                   |-> RecordAt(start[i - 1])]

(* What dequeue has copied out is, until the head moves, still the oldest    *)
(* message of the ring: the writer has not reached it meanwhile.             *)
CopiedIsOldest == reader = "consume" =>
                    /\ head # tail
                    /\ [flow |-> rec.flow, data |-> rec.data] = RecordAt(head)

(* The message that dequeue has returned and no handler is done with yet.    *)
InHand == IF reader = "handle" THEN [flow |-> rec.flow, data |-> rec.data] ELSE None

(* The ring is a first-in first-out queue of messages: what enqueue accepted *)
(* is taken off it once, whole and in order, and handled at most once,       *)
(* whatever the interleaving and the crashes.  Nothing between head and tail *)
(* is lost by a crash of either process; one of the reader between the head  *)
(* store and the end of the handler loses the one message in its buffer.     *)
Queue == INSTANCE MsgQueue WITH queue <- Contents, inHand <- InHand
ImplementsQueue == Queue!QueueSpec

(* A message in the ring does not wait for ever, though wake-ups are missing *)
(* and a dispatch is limited: the reader moves on, unless it goes on         *)
(* crashing (it loops even with an empty pipe, see the comment in            *)
(* run_epoll_4_mq).  A crash that only does what the loop would have done    *)
(* next, as one between two dispatches, is no excuse.                        *)
EveryMessageTaken == <>[][ReaderCrash => EventLoop]_vars =>
                       \A h \in Position : (head = h /\ tail # h) ~> head # h
=============================================================================
