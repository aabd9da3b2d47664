------------------------------ MODULE LibpdQueue ------------------------------
(***************************************************************************)
(* A queue of libpd (src/src/z_queued.c on src/src/z_ringbuffer.c): Pd's   *)
(* thread writes messages to a ring without locks, whole or not at all,    *)
(* and a thread of the program that embeds Pd takes what is there into a   *)
(* buffer and hands it over message by message.  Pd's messages and MIDI    *)
(* have a ring each; the one for MIDI has messages without arguments.      *)
(*                                                                         *)
(* The unit of the ring is a word: the header of a message, which says how *)
(* many arguments follow, or an argument.  A word is known by its message, *)
(* its place in it and how many arguments the message has.  Memory is as   *)
(* the synchronising fetches and swaps of the indices make it: a word is   *)
(* there before the index that shows it.                                   *)
(***************************************************************************)
EXTENDS Integers, Sequences

CONSTANTS
  Size,         \* size: words in the ring (BUFFER_SIZE)
  ArgCounts,    \* how many arguments messages have
  MaxMessages   \* bound: messages Pd sends in all

ASSUME QueueAssumption ==
  Size \in Nat \ {0} /\ ArgCounts \subseteq Nat /\ MaxMessages \in Nat

VARIABLES
  buf, write_idx, read_idx,   \* the ring
  made,       \* messages Pd has sent, the last may be under way
  wpc,        \* Pd's thread: "idle", "begin", "copy" or "publish"
  args,       \* the arguments of the message it writes
  at, put,    \* its own write_idx, and how many words it has copied
  rpc,        \* the receiver: "idle", "check", "copy", "free" or "dispatch"
  available,  \* how many words it takes
  temp, pos,  \* temp_buffer, and how many words of it were handed over
  delivered   \* what the hooks were given

ring == <<buf, write_idx, read_idx>>
writer == <<made, wpc, args, at, put>>
reader == <<rpc, available, temp, pos, delivered>>
vars == <<ring, writer, reader>>

Word(n, part, k) == [n |-> n, part |-> part, args |-> k]
Blank == Word(0, 0, 0)
WordsOf(n, k) == [i \in 1..(k + 1) |-> Word(n, i - 1, k)]

(* rb_available_to_write and rb_available_to_read.  One word is kept free: *)
(* equal indices are an empty ring.                                        *)
AvailableToWrite == (Size + read_idx - write_idx - 1) % Size
AvailableToRead == (Size + write_idx - read_idx) % Size

-----------------------------------------------------------------------------
(* The hooks of Pd's thread: a message that does not fit is dropped.       *)
Hook(k) ==
  /\ wpc = "idle" /\ made < MaxMessages
  /\ made' = made + 1
  /\ IF AvailableToWrite >= 1 + k
     THEN wpc' = "begin" /\ args' = k
     ELSE UNCHANGED <<wpc, args>>
  /\ UNCHANGED <<ring, at, put, reader>>

(* rb_write_to_buffer: its own look at the room, where it gives up without *)
(* a trace, the copies and the swap of the index.                          *)
Begin ==
  /\ wpc = "begin"
  /\ wpc' = IF AvailableToWrite < 1 + args THEN "idle" ELSE "copy"
  /\ at' = write_idx
  /\ put' = 0
  /\ UNCHANGED <<ring, made, args, reader>>

CopyInShown ==                                                   \* mutant
  /\ wpc = "copy"
  /\ buf' = [buf EXCEPT ![at] = Word(made, put, args)]
  /\ at' = (at + 1) % Size /\ write_idx' = at'
  /\ put' = put + 1
  /\ wpc' = IF put = args THEN "publish" ELSE "copy"
  /\ UNCHANGED <<read_idx, made, args, reader>>
CopyIn ==
  /\ wpc = "copy"
  /\ buf' = [buf EXCEPT ![at] = Word(made, put, args)]
  /\ at' = (at + 1) % Size
  /\ put' = put + 1
  /\ wpc' = IF put = args THEN "publish" ELSE "copy"
  /\ UNCHANGED <<write_idx, read_idx, made, args, reader>>

Publish ==
  /\ wpc = "publish"
  /\ write_idx' = at
  /\ wpc' = "idle"
  /\ UNCHANGED <<buf, read_idx, made, args, at, put, reader>>

-----------------------------------------------------------------------------
(* libpd_queued_receive_pd_messages: what is there is counted, ...         *)
Count ==
  /\ rpc = "idle" /\ AvailableToRead > 0
  /\ available' = AvailableToRead
  /\ rpc' = "check"
  /\ UNCHANGED <<ring, writer, temp, pos, delivered>>

(* ... read with rb_read_from_buffer, whose refusal nobody looks at, ...   *)
Check ==
  /\ rpc = "check"
  /\ pos' = 0
  /\ IF available > AvailableToRead
     THEN rpc' = "dispatch" /\ UNCHANGED temp
     ELSE rpc' = "copy" /\ temp' = <<>>
  /\ UNCHANGED <<ring, writer, available, delivered>>

CopyOut ==
  /\ rpc = "copy"
  /\ temp' = Append(temp, buf[(read_idx + Len(temp)) % Size])
  /\ rpc' = IF Len(temp') = available THEN "free" ELSE "copy"
  /\ UNCHANGED <<ring, writer, available, pos, delivered>>

FreeToWriter ==                                                  \* mutant
  /\ rpc = "free"
  /\ read_idx' = write_idx
  /\ rpc' = "dispatch"
  /\ UNCHANGED <<buf, write_idx, writer, available, temp, pos, delivered>>
FreeFromStart ==                                                 \* mutant
  /\ rpc = "free"
  /\ read_idx' = available
  /\ rpc' = "dispatch"
  /\ UNCHANGED <<buf, write_idx, writer, available, temp, pos, delivered>>
Free ==
  /\ rpc = "free"
  /\ read_idx' = (read_idx + available) % Size
  /\ rpc' = "dispatch"
  /\ UNCHANGED <<buf, write_idx, writer, available, temp, pos, delivered>>

(* ... and handed to the hooks, each message with the words its header     *)
(* counts.  Behind the end of temp_buffer there is whatever was there.     *)
TempAt(i) == IF i <= Len(temp) THEN temp[i] ELSE Blank

Dispatch ==
  /\ rpc = "dispatch"
  /\ LET k == TempAt(pos + 1).args
     IN /\ delivered' = Append(delivered, [i \in 1..(k + 1) |-> TempAt(pos + i)])
        /\ pos' = pos + 1 + k
  /\ rpc' = IF pos' < available THEN "dispatch" ELSE "idle"
  /\ UNCHANGED <<ring, writer, available, temp>>

-----------------------------------------------------------------------------
Init ==
  /\ buf = [i \in 0..(Size - 1) |-> Blank]
  /\ write_idx = 0 /\ read_idx = 0
  /\ made = 0 /\ wpc = "idle" /\ args = 0 /\ at = 0 /\ put = 0
  /\ rpc = "idle" /\ available = 0 /\ temp = <<>> /\ pos = 0
  /\ delivered = <<>>

Writing == Begin \/ CopyIn \/ Publish
Receiving == Count \/ Check \/ CopyOut \/ Free \/ Dispatch

Next ==
  \/ \E k \in ArgCounts : Hook(k)
  \/ Writing
  \/ Receiving

(* A message that was begun is finished, and the program keeps calling     *)
(* libpd_queued_receive_pd_messages, whose loop ends.                      *)
Spec == Init /\ [][Next]_vars /\ WF_vars(Writing) /\ WF_vars(Receiving)

-----------------------------------------------------------------------------
Words == [n : 0..MaxMessages, part : Nat, args : Nat]

(* Every variable has its type, every index is in the ring.                *)
TypeOK ==
  /\ buf \in [0..(Size - 1) -> Words]
  /\ {write_idx, read_idx, at} \subseteq 0..(Size - 1)
  /\ made \in 0..MaxMessages
  /\ wpc \in {"idle", "begin", "copy", "publish"}
  /\ rpc \in {"idle", "check", "copy", "free", "dispatch"}
  /\ {args, put, available, pos} \subseteq Nat
  /\ temp \in Seq(Words) /\ delivered \in Seq(Seq(Words))

(* A hook is given whole messages only: a header and the arguments that    *)
(* were sent with it, none of another message, however the two threads     *)
(* interleave and wherever the ring goes round (receive_list and           *)
(* receive_message trust the count in the header).                         *)
DeliveredWhole ==
  \A i \in 1..Len(delivered) :
    delivered[i] = WordsOf(delivered[i][1].n, delivered[i][1].args)

(* The hooks are given messages in the order Pd sent them, each once at    *)
(* most, whichever were dropped between them.                              *)
DeliveredInOrder ==
  \A i, j \in 1..Len(delivered) :
    i < j => delivered[i][1].n < delivered[j][1].n

(* The ring and temp_buffer implement the queue that is promised: what     *)
(* waits is what stands between the indices, a batch is what of            *)
(* temp_buffer is still to be handed over; a message is offered when it is *)
(* published or dropped.                                                   *)
MessagesIn(words) ==
  {[n |-> w.n, args |-> w.args] : w \in {u \in words : u.part = 0}}
RingWords == {buf[(read_idx + i) % Size] : i \in 0..(AvailableToRead - 1)}
TempWords == {temp[i] : i \in (pos + 1)..Len(temp)}

Offered == IF wpc = "idle" THEN made ELSE made - 1
Waiting == MessagesIn(RingWords)
Batch == IF rpc = "dispatch" THEN MessagesIn(TempWords) ELSE {}
Handed == [i \in 1..Len(delivered) |->
             [n |-> delivered[i][1].n, args |-> Len(delivered[i]) - 1]]

Promised == INSTANCE LossyQueue WITH
  Capacity <- Size - 1,
  offered <- Offered, waiting <- Waiting, batch <- Batch, handed <- Handed
KeepsPromise == Promised!QSpec
===============================================================================
