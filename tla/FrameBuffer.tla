----------------------------- MODULE FrameBuffer -----------------------------
(* The buffers of a channel that put its frames in order: CFrameBuffer for   *)
(* the video and CAudioBuffer for the sound.  They are two copies of one     *)
(* algorithm with other limits and one difference: a reset of the audio      *)
(* buffer empties its slots, that of the video buffer leaves the old frames  *)
(* in them.  A buffer here is of one of the Kinds.                           *)
(*                                                                           *)
(* 0 is a number like the others and also means "none yet" in write and      *)
(* read.  The numbers of a kind are those below its top; arithmetic on them  *)
(* wraps there if they are as wide as the code's integers (video), and not   *)
(* if they are narrower (audio, 16 bits).  The bytes of the frames, the      *)
(* statistics and the flag that asks for a new header are left out.          *)
EXTENDS Integers

CONSTANTS Kinds,       \* the buffers there are
          Timeout      \* 800 ms for video, 1 s for audio

IsKind(k) == /\ k.slots \in Nat \ {0} /\ k.top \in Nat \ {0}
             /\ k.jump \in Nat /\ k.distance \in Nat
             /\ k.wraps \in BOOLEAN /\ k.clears \in BOOLEAN
ASSUME KindsAssumption == (\A k \in Kinds : IsKind(k)) /\ Timeout \in Nat

VARIABLES buffer,      \* its kind
          slots,       \* by number % slots: number, age of the touch, and, as
                       \* history, whether it was filled since the last reset
          write, read  \* m_uiWriteSeq, m_uiReadSeq

vars == <<buffer, slots, write, read>>

Seq == 0 .. buffer.top - 1
Slot == 0 .. buffer.slots - 1
slotOf(n) == n % buffer.slots

UNTOUCHED == -1
Empty == [seq |-> 0, touch |-> UNTOUCHED, fresh |-> FALSE]

TypeOK == /\ buffer \in Kinds
          /\ slots \in [Slot -> [seq : Seq, touch : UNTOUCHED .. Timeout + 1, fresh : BOOLEAN]]
          /\ write \in Seq /\ read \in Seq

Init == /\ buffer \in Kinds
        /\ slots = [i \in Slot |-> Empty]
        /\ write = 0 /\ read = 0
-----------------------------------------------------------------------------
(* abs((int)(m - n)) of two unsigned numbers. *)
Distance(m, n) ==
  LET d == IF m >= n THEN m - n ELSE n - m
  IN  IF buffer.wraps /\ buffer.top - d < d THEN buffer.top - d ELSE d

(* A jump test alone: a reader left behind by lost numbers is not noticed. *)
ResetsOnJump(n) == write # 0 /\ Distance(n, write) > buffer.jump

(* The number jumps, or the reader has been left too far behind, or ahead. *)
Resets(n) == /\ write # 0
             /\ \/ Distance(n, write) > buffer.jump
                \/ Distance(write, read) > buffer.distance

(* A reset that leaves the slots to both kinds. *)
ClearsNothing == [i \in Slot |-> [slots[i] EXCEPT !.fresh = FALSE]]

(* clearData; a slot that keeps its frame keeps one of an earlier round. *)
Cleared == [i \in Slot |-> IF buffer.clears THEN Empty
                                            ELSE [slots[i] EXCEPT !.fresh = FALSE]]

(* push_back of a frame with valid size; one without changes nothing. *)
Push(n) == /\ slots' = [(IF Resets(n) THEN Cleared ELSE slots) EXCEPT
                          ![slotOf(n)] = [seq |-> n, touch |-> 0, fresh |-> TRUE]]
           /\ read' = IF Resets(n) THEN 0 ELSE read
           /\ write' = n
           /\ UNCHANGED buffer
-----------------------------------------------------------------------------
(* get_frame_buffer_in_order and get_voice_in_order: there is nothing to     *)
(* read, or the frame is there, or it is missing.                            *)
Started == IF read = 0 THEN write ELSE read
Head == slots[slotOf(read)]

(* The frame last written counts as one to read. *)
NoneAfterWrite == Started > write

(* The reader stays one behind: the last frame waits for another. *)
NoneToRead == Started >= write

GetNothing == /\ NoneToRead
              /\ read' = Started
              /\ UNCHANGED <<buffer, slots, write>>

Missing == ~NoneToRead /\ Head.seq # read

GetFrame == /\ ~NoneToRead /\ Head.seq = read
            /\ slots' = [slots EXCEPT ![slotOf(read)].touch = UNTOUCHED]
            /\ read' = read + 1
            /\ UNCHANGED <<buffer, write>>

(* The wait begins again whenever it is found over. *)
RestartsWait ==
  /\ Missing
  /\ slots' = [slots EXCEPT ![slotOf(read)].touch = IF @ > Timeout THEN 0 ELSE @]
  /\ UNCHANGED <<buffer, write, read>>

(* The wait for a missing number begins, goes on, or ends in skipping it. *)
GetMissing ==
  /\ Missing
  /\ slots' = [slots EXCEPT ![slotOf(read)].touch = IF @ = UNTOUCHED THEN 0 ELSE @]
  /\ read' = IF Head.touch > Timeout THEN read + 1 ELSE read
  /\ UNCHANGED <<buffer, write>>

Get == GetNothing \/ GetFrame \/ GetMissing

Older(touch) == IF touch = UNTOUCHED \/ touch > Timeout THEN touch ELSE touch + 1
Tick == /\ slots' = [i \in Slot |-> [slots[i] EXCEPT !.touch = Older(@)]]
        /\ UNCHANGED <<buffer, write, read>>

Next == (\E n \in Seq : Push(n)) \/ Get \/ Tick
Spec == Init /\ [][Next]_vars

(* Time passes, and the frames of the stream, which read after they have     *)
(* pushed, keep coming.                                                      *)
FairSpec == Spec /\ WF_vars(Get) /\ WF_vars(Tick)
-----------------------------------------------------------------------------
(* The sound of an earlier round is never played: a buffer whose reset       *)
(* empties the slots delivers only what was pushed since.  (The video buffer *)
(* does deliver old frames, in place of lost ones with the same number.)     *)
OnlyOfRound == buffer.clears /\ ~NoneToRead /\ Head.seq = read => Head.fresh

(* Where the table is large enough for both limits on either side of the     *)
(* reader, as that of the sound is, a frame not yet read is never overwritten *)
(* by another number; only a reset drops it, or the frame after number 0,    *)
(* which is taken without the tests because 0 also means that there was none. *)
NothingOverwritten ==
  [][~buffer.wraps /\ 2 * (buffer.distance + buffer.jump) < buffer.slots =>
       \A i \in Slot :
          slots[i].fresh /\ slots[i].seq >= read /\ slots'[i].seq # slots[i].seq =>
            write = 0 \/ (read' = 0 /\ Resets(write'))]_vars

(* Reader and writer do not lose each other: a pushed frame leaves them no   *)
(* further apart than both limits together, on either side and across the    *)
(* wrap of the numbers, unless the reader has yet to start or the last       *)
(* number was 0.  This bounds how long a reader ahead of a stream that       *)
(* started again stays silent.                                               *)
LagBounded ==
  [][write' # write /\ write # 0 =>
       read' = 0 \/ Distance(write', read') <= buffer.distance + buffer.jump]_vars

(* A lost frame does not hold up those behind it for ever: the reader moves  *)
(* on, unless frames come again and again that use the slot of the missing   *)
(* one.                                                                      *)
ReaderNotStuck ==
  \A r \in UNION {0 .. k.top - 1 : k \in Kinds} :
     []<>~(read = r /\ Missing) \/ []<>(slots[slotOf(r)].touch = 0)
=============================================================================
