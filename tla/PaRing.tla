-------------------------------- MODULE PaRing --------------------------------
(***************************************************************************)
(* The ring buffer between one reading and one writing thread              *)
(* (src/src/s_audio_paring.c), as operators.  Its indices run to twice the *)
(* size of the buffer, which is how a full ring is told from an empty one. *)
(* Sizes are counted in blocks of DEFDACBLKSIZE frames, the unit in which  *)
(* both threads transfer.                                                  *)
(***************************************************************************)
EXTENDS Integers

Ring(size) == [size : {size}, w : 0..(2 * size - 1), r : 0..(2 * size - 1)]

RingInit(size, nfill) == [size |-> size, w |-> nfill, r |-> 0]

ReadAvailable(q) == LET d == q.w - q.r IN IF d < 0 THEN d + 2 * q.size ELSE d
WriteAvailableWith(q) == q.size - ReadAvailable(q) + 1           \* mutant
WriteAvailable(q) == q.size - ReadAvailable(q)

Fewer(n, m) == IF n > m THEN m ELSE n

(* An index n further on.                                                  *)
Advanced(q, i, n) ==
  IF i + n >= 2 * q.size THEN i + n - 2 * q.size ELSE i + n

(* The place in the buffer of an index.                                    *)
Place(q, i) == IF i >= q.size THEN i - q.size ELSE i

(* The indices of a transfer of n blocks from i on, and their places: one  *)
(* region, or two when it goes round the end.                              *)
Indices(q, i, n) == {Advanced(q, i, k) : k \in 0..(n - 1)}
Region(q, i, n) == {Place(q, j) : j \in Indices(q, i, n)}
===============================================================================
