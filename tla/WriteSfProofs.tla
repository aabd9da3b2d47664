--------------------------- MODULE WriteSfProofs ---------------------------
(* Proofs about writesf~ for every buffer and vector size, with disk       *)
(* errors and impatient users: types and bounds, the descriptors, and that *)
(* the fifo and the file hold the signal, whole and in order, but for the  *)
(* recordings that the histories spoilt and overtaken name.                *)
EXTENDS WriteSf, TLAPS

Looping == {"loop", "loopwait", "loopwake"}
Writing == {"writing", "writedone"}
Openers == {"opencheck", "openwait", "openwake"}

(* What the parent may do while the child has a file.  At "bailclose" the  *)
(* mailbox is empty and the mutex free, but the open method cannot get in: *)
(* it is only reached from IDLE, and the state is not IDLE before EOF.     *)
ParentInv ==
  /\ ppc \in Openers => state = "IDLE" /\ gen < MaxOpens
  /\ request \in {"OPEN", "BUSY"} => ~eof /\ state # "IDLE"
  /\ cpc = "bailclose" /\ request = "NOTHING" => ~eof /\ state # "IDLE"
  /\ cpc = "bailclose" => request \in {"NOTHING", "CLOSE", "QUIT"}
  /\ cpc \in Writing \cup {"loopwait", "loopwake"}
       => request \in {"BUSY", "CLOSE", "QUIT"}
  /\ cpc = "finishing" => request \in {"CLOSE", "QUIT"}
  /\ cpc = "creating" => request \in {"BUSY", "CLOSE", "QUIT"}
  /\ cpc \in {"top", "topwait", "topwake"} => request # "BUSY"

(* x_sf has a descriptor only while the child is inside its loop or on its *)
(* way to close the file.                                                  *)
FdInv ==
  /\ cpc # "stray"
  /\ csf.fd = NoFd => xsf.fd = NoFd
  /\ cpc = "creating" => csf.fd = NoFd /\ cgen # NoFd
  /\ request = "OPEN" => gen # NoFd
  /\ cpc \in {"creating", "topwait", "topwake", "exited"} => xsf.fd = NoFd
  /\ cpc \in Looping \cup {"top"} /\ request \in {"OPEN", "NOTHING"}
       => xsf.fd = NoFd

(* The fifo indices and the write under way.                               *)
FifoInv ==
  /\ tail = 0 \/ tail < fifosize
  /\ head = 0 \/ head < fifosize
  /\ cpc \in Writing => tail + wlen <= fifosize
  /\ cpc = "writedone" => wgot <= wlen

IInv == TypeOK /\ ParentInv /\ FdInv /\ FifoInv

-----------------------------------------------------------------------------
(* Arithmetic facts about the sizes the code computes.                     *)

(* A product of two positive numbers is positive: bytes per tick are.      *)
LEMMA ProductPositive ==
  ASSUME NEW a \in Nat \ {0}, NEW b \in Nat \ {0}
  PROVE  a * b \in Nat \ {0}
  BY SMT

(* Integer division of naturals gives a natural.                           *)
LEMMA QuotientNat ==
  ASSUME NEW a \in Nat, NEW b \in Nat \ {0}
  PROVE  a \div b \in Nat
  BY SMT

(* A remainder is no larger than what is divided.                          *)
LEMMA RemainderSmall ==
  ASSUME NEW a \in Nat, NEW b \in Nat \ {0}
  PROVE  a % b \in 0..a
  BY SMT

(* The fifo is no larger than the buffer (lines 2665-2666).                *)
LEMMA FifoSizeBound ==
  ASSUME NEW bpf \in Nat \ {0}
  PROVE  FifoSizeFor(bpf) \in 0..BufSize
  <1>1. BufSize \in Nat /\ MaxVecSize \in Nat \ {0}
    BY WriteSizesAssumption
  <1>2. bpf * MaxVecSize \in Nat \ {0}
    BY <1>1, ProductPositive
  <1>3. BufSize % (bpf * MaxVecSize) \in 0..BufSize
    BY <1>1, <1>2, RemainderSmall
  <1> QED BY <1>1, <1>3 DEF FifoSizeFor

(* Changing one field of a sound file description keeps it one.            *)
LEMMA SfFields ==
  ASSUME NEW sf \in Sf, NEW g \in Gens, NEW bpf \in Nat \ {0}
  PROVE  /\ [sf EXCEPT !.fd = g] \in Sf /\ [sf EXCEPT !.fd = NoFd] \in Sf
         /\ [sf EXCEPT !.bpf = bpf] \in Sf
  <1>1. NoFd \in Gens
    BY WriteSizesAssumption DEF NoFd, Gens
  <1> QED BY <1>1 DEF Sf

(* The bytes handed to write() are bytes of the buffer.                    *)
LEMMA WrittenBytes ==
  ASSUME TypeOK, NEW n \in Nat, tail + n <= fifosize
  PROVE  [i \in 1..n |-> buf[tail + i - 1]] \in Seq(Byte)
  <1>1. \A i \in 1..n : tail + i - 1 \in 0..BufSize - 1
    BY WriteSizesAssumption DEF TypeOK
  <1>2. \A i \in 1..n : buf[tail + i - 1] \in Byte
    BY <1>1 DEF TypeOK
  <1> QED BY <1>2

(* What the parent may do and what the child may find in the mailbox.      *)
LEMMA ParentStep == IInv /\ [Next]_vars => ParentInv'
  <1> SUFFICES ASSUME IInv, [Next]_vars PROVE ParentInv'
    OBVIOUS
  <1> USE DEF IInv, ParentInv, NoFd, Openers, Looping, Writing, fifoVars,
      writeVars, fileVars, history
  <1>1. CASE ChildIdles
    BY <1>1 DEF ChildIdles, AnswerSignalled
  <1>2. CASE ChildTakesOpen
    BY <1>2 DEF ChildTakesOpen
  <1>3. CASE ChildFailsToCreate
    BY <1>3 DEF ChildFailsToCreate, Bail, AnswerSignalled, FdInv
  <1>4. CASE ChildCreates
    BY <1>4 DEF ChildCreates
  <1>5. CASE LoopEnds
    BY <1>5 DEF LoopEnds, LoopGoesOn
  <1>6. CASE LoopWaits
    BY <1>6 DEF LoopWaits, AnswerSignalled, LoopGoesOn
  <1>7. CASE LoopWrites
    BY <1>7 DEF LoopWrites, LoopGoesOn, WorthWriting
  <1>8. CASE WriteReturns
    BY <1>8 DEF WriteReturns
  <1>9. CASE WriteOvertaken
    BY <1>9 DEF WriteOvertaken
  <1>10. CASE WriteFails
    BY <1>10 DEF WriteFails, Bail, AnswerSignalled
  <1>11. CASE WriteArrives
    BY <1>11 DEF WriteArrives, AnswerSignalled
  <1>12. CASE ChildBailsOut
    BY <1>12 DEF ChildBailsOut, BailCloses, AnswerSignalled
  <1>13. CASE ChildTakesClose
    BY <1>13 DEF ChildTakesClose, Acknowledge, AnswerSignalled
  <1>14. CASE ChildFinishes
    BY <1>14 DEF ChildFinishes, Acknowledge, AnswerSignalled, CloseFile
  <1>15. CASE ChildWakes
    BY <1>15 DEF ChildWakes
  <1>16. CASE PerformWaits
    BY <1>16 DEF PerformWaits, Performing, RequestSignalled
  <1>17. CASE PerformGivesUp
    BY <1>17 DEF PerformGivesUp, Performing, RequestSignalled
  <1>18. CASE PerformPuts
    BY <1>18 DEF PerformPuts, Performing, RequestSignalled
  <1>19. CASE OpenWaits
    BY <1>19 DEF OpenWaits, RequestSignalled
  <1>20. CASE WritesfOpen
    BY <1>20 DEF WritesfOpen, Stops, RequestSignalled
  <1>21. CASE WritesfStart
    BY <1>21 DEF WritesfStart
  <1>22. CASE WritesfStop
    BY <1>22 DEF WritesfStop, Stops, RequestSignalled
  <1>23. CASE WritesfFree
    BY <1>23 DEF WritesfFree, RequestSignalled
  <1>24. CASE FreeResumes
    BY <1>24 DEF FreeResumes, RequestSignalled
  <1>25. CASE FreeJoins
    BY <1>25 DEF FreeJoins
  <1>26. ASSUME NEW bpf \in Bpfs, OpenGoesOn(bpf) PROVE ParentInv'
    BY <1>26 DEF OpenGoesOn, RequestSignalled, OpenMayProceed
  <1>27. ASSUME NEW v \in VecSizes, WritesfDsp(v) PROVE ParentInv'
    BY <1>27 DEF WritesfDsp
  <1>28. CASE UNCHANGED vars
    BY <1>28 DEF vars
  <1> QED
    BY <1>1, <1>2, <1>3, <1>4, <1>5, <1>6, <1>7, <1>8, <1>9, <1>10,
       <1>11, <1>12, <1>13, <1>14, <1>15, <1>16, <1>17, <1>18, <1>19, <1>20,
       <1>21, <1>22, <1>23, <1>24, <1>25, <1>26, <1>27, <1>28
       DEF Next, Child, WritesfPerform, Opening

(* Where a descriptor may be.                                              *)
LEMMA FdStep == IInv /\ [Next]_vars => FdInv'
  <1> SUFFICES ASSUME IInv, [Next]_vars PROVE FdInv'
    OBVIOUS
  <1> USE DEF IInv, FdInv, NoFd, Openers, Looping, Writing, fifoVars,
      writeVars, fileVars, history
  <1>1. CASE ChildIdles
    BY <1>1 DEF ChildIdles, AnswerSignalled
  <1>2. CASE ChildTakesOpen
    BY <1>2 DEF ChildTakesOpen
  <1>3. CASE ChildFailsToCreate
    BY <1>3 DEF ChildFailsToCreate, Bail, AnswerSignalled
  <1>4. CASE ChildCreates
    BY <1>4 DEF ChildCreates, ParentInv
  <1>5. CASE LoopEnds
    BY <1>5 DEF LoopEnds, LoopGoesOn, ParentInv
  <1>6. CASE LoopWaits
    BY <1>6 DEF LoopWaits, AnswerSignalled, LoopGoesOn, ParentInv
  <1>7. CASE LoopWrites
    BY <1>7 DEF LoopWrites, LoopGoesOn, WorthWriting
  <1>8. CASE WriteReturns
    BY <1>8 DEF WriteReturns
  <1>9. CASE WriteOvertaken
    BY <1>9 DEF WriteOvertaken, ParentInv
  <1>10. CASE WriteFails
    BY <1>10 DEF WriteFails, Bail, AnswerSignalled, ParentInv
  <1>11. CASE WriteArrives
    BY <1>11 DEF WriteArrives, AnswerSignalled, ParentInv
  <1>12. CASE ChildBailsOut
    BY <1>12 DEF ChildBailsOut, BailCloses, AnswerSignalled
  <1>13. CASE ChildTakesClose
    BY <1>13 DEF ChildTakesClose, Acknowledge, AnswerSignalled
  <1>14. CASE ChildFinishes
    BY <1>14 DEF ChildFinishes, Acknowledge, AnswerSignalled, CloseFile
  <1>15. CASE ChildWakes
    BY <1>15 DEF ChildWakes, ParentInv
  <1>16. CASE PerformWaits
    BY <1>16 DEF PerformWaits, Performing, RequestSignalled
  <1>17. CASE PerformGivesUp
    BY <1>17 DEF PerformGivesUp, Performing, RequestSignalled
  <1>18. CASE PerformPuts
    BY <1>18 DEF PerformPuts, Performing, RequestSignalled
  <1>19. CASE OpenWaits
    BY <1>19 DEF OpenWaits, RequestSignalled
  <1>20. CASE WritesfOpen
    BY <1>20 DEF WritesfOpen, Stops, RequestSignalled
  <1>21. CASE WritesfStart
    BY <1>21 DEF WritesfStart
  <1>22. CASE WritesfStop
    BY <1>22 DEF WritesfStop, Stops, RequestSignalled, ParentInv
  <1>23. CASE WritesfFree
    BY <1>23 DEF WritesfFree, RequestSignalled
  <1>24. CASE FreeResumes
    BY <1>24 DEF FreeResumes, RequestSignalled
  <1>25. CASE FreeJoins
    BY <1>25 DEF FreeJoins
  <1>26. ASSUME NEW bpf \in Bpfs, OpenGoesOn(bpf) PROVE FdInv'
    BY <1>26 DEF OpenGoesOn, RequestSignalled, OpenMayProceed, ParentInv,
       TypeOK, Gens
  <1>27. ASSUME NEW v \in VecSizes, WritesfDsp(v) PROVE FdInv'
    BY <1>27 DEF WritesfDsp
  <1>28. CASE UNCHANGED vars
    BY <1>28 DEF vars
  <1> QED
    BY <1>1, <1>2, <1>3, <1>4, <1>5, <1>6, <1>7, <1>8, <1>9, <1>10,
       <1>11, <1>12, <1>13, <1>14, <1>15, <1>16, <1>17, <1>18, <1>19, <1>20,
       <1>21, <1>22, <1>23, <1>24, <1>25, <1>26, <1>27, <1>28
       DEF Next, Child, WritesfPerform, Opening

(* The fifo indices and the write under way stay in bounds.                *)
LEMMA FifoStep == IInv /\ [Next]_vars => FifoInv'
  <1> SUFFICES ASSUME IInv, [Next]_vars PROVE FifoInv'
    OBVIOUS
  <1> USE DEF IInv, FifoInv, NoFd, Openers, Looping, Writing, fifoVars,
      writeVars, fileVars, history
  <1>1. CASE ChildIdles
    BY <1>1 DEF ChildIdles, AnswerSignalled
  <1>2. CASE ChildTakesOpen
    BY <1>2 DEF ChildTakesOpen, ParentInv
  <1>3. CASE ChildFailsToCreate
    BY <1>3 DEF ChildFailsToCreate, Bail, AnswerSignalled
  <1>4. CASE ChildCreates
    BY <1>4 DEF ChildCreates
  <1>5. CASE LoopEnds
    BY <1>5 DEF LoopEnds, LoopGoesOn
  <1>6. CASE LoopWaits
    BY <1>6 DEF LoopWaits, AnswerSignalled, LoopGoesOn
  <1>7. CASE LoopWrites
    <2>1. /\ head \in Nat /\ tail \in Nat /\ fifosize \in Nat
          /\ WriteSize \in Nat
          /\ head <= fifosize
      BY WriteSizesAssumption DEF TypeOK
    <2>2. tail + WriteBytes <= fifosize
      BY <2>1 DEF WriteBytes, MinOf
    <2> QED BY <1>7, <2>2 DEF LoopWrites
  <1>8. CASE WriteReturns
    <2>1. wgot' <= wlen
      BY <1>8 DEF WriteReturns, TypeOK
    <2> QED BY <1>8, <2>1 DEF WriteReturns
  <1>9. CASE WriteOvertaken
    BY <1>9 DEF WriteOvertaken
  <1>10. CASE WriteFails
    BY <1>10 DEF WriteFails, Bail, AnswerSignalled
  <1>11. CASE WriteArrives
    <2>1. /\ tail \in Nat /\ wgot \in Nat /\ fifosize \in Nat
          /\ wgot = wlen /\ tail + wlen <= fifosize
      BY <1>11, WriteSizesAssumption DEF WriteArrives, TypeOK
    <2>2. TailAfterWrite = 0 \/ TailAfterWrite < fifosize
      BY <2>1 DEF TailAfterWrite
    <2> QED BY <1>11, <2>2 DEF WriteArrives
  <1>12. CASE ChildBailsOut
    BY <1>12 DEF ChildBailsOut, BailCloses, AnswerSignalled
  <1>13. CASE ChildTakesClose
    BY <1>13 DEF ChildTakesClose, Acknowledge, AnswerSignalled
  <1>14. CASE ChildFinishes
    BY <1>14 DEF ChildFinishes, Acknowledge, AnswerSignalled, CloseFile
  <1>15. CASE ChildWakes
    BY <1>15 DEF ChildWakes
  <1>16. CASE PerformWaits
    BY <1>16 DEF PerformWaits, Performing, RequestSignalled
  <1>17. CASE PerformGivesUp
    BY <1>17 DEF PerformGivesUp, Performing, RequestSignalled
  <1>18. CASE PerformPuts
    <2>1. cpc' = cpc \/ (cpc' = "loopwake" /\ cpc = "loopwait")
            \/ (cpc' = "topwake" /\ cpc = "topwait")
      BY <1>18 DEF PerformPuts, RequestSignalled
    <2>2. TickBytes \in Nat /\ head \in Nat /\ fifosize \in Nat
      BY WriteSizesAssumption, ProductPositive DEF TickBytes, TypeOK, Sf
    <2>3. head' = 0 \/ head' < fifosize
      BY <1>18, <2>2 DEF PerformPuts
    <2> QED BY <1>18, <2>1, <2>3 DEF PerformPuts
  <1>19. CASE OpenWaits
    BY <1>19 DEF OpenWaits, RequestSignalled
  <1>20. CASE WritesfOpen
    BY <1>20 DEF WritesfOpen, Stops, RequestSignalled
  <1>21. CASE WritesfStart
    BY <1>21 DEF WritesfStart
  <1>22. CASE WritesfStop
    BY <1>22 DEF WritesfStop, Stops, RequestSignalled
  <1>23. CASE WritesfFree
    BY <1>23 DEF WritesfFree, RequestSignalled
  <1>24. CASE FreeResumes
    BY <1>24 DEF FreeResumes, RequestSignalled
  <1>25. CASE FreeJoins
    BY <1>25 DEF FreeJoins
  <1>26. ASSUME NEW bpf \in Bpfs, OpenGoesOn(bpf) PROVE FifoInv'
    <2>1. cpc \notin Writing /\ cpc' \notin Writing
      BY <1>26 DEF OpenGoesOn, RequestSignalled, OpenMayProceed, ParentInv
    <2> QED BY <1>26, <2>1 DEF OpenGoesOn, RequestSignalled
  <1>27. ASSUME NEW v \in VecSizes, WritesfDsp(v) PROVE FifoInv'
    BY <1>27 DEF WritesfDsp
  <1>28. CASE UNCHANGED vars
    BY <1>28 DEF vars
  <1> QED
    BY <1>1, <1>2, <1>3, <1>4, <1>5, <1>6, <1>7, <1>8, <1>9, <1>10,
       <1>11, <1>12, <1>13, <1>14, <1>15, <1>16, <1>17, <1>18, <1>19, <1>20,
       <1>21, <1>22, <1>23, <1>24, <1>25, <1>26, <1>27, <1>28
       DEF Next, Child, WritesfPerform, Opening

(* Every step keeps the types.                                             *)
LEMMA TypeStep == IInv /\ [Next]_vars => TypeOK'
  <1> SUFFICES ASSUME IInv, [Next]_vars PROVE TypeOK'
    OBVIOUS
  <1> USE DEF IInv, TypeOK, fifoVars, writeVars, fileVars, history, NoFd,
          ParentPCs, ChildPCs, Holding
  <1>1. CASE ChildIdles
    BY <1>1 DEF ChildIdles, AnswerSignalled
  <1>2. CASE ChildTakesOpen
    BY <1>2, WriteSizesAssumption DEF ChildTakesOpen
  <1>3. CASE ChildFailsToCreate
    <2>1. [xsf EXCEPT !.fd = NoFd] \in Sf
      BY SfFields, WriteSizesAssumption
    <2>2. request' \in {"NOTHING", "OPEN", "CLOSE", "QUIT", "BUSY"}
      BY <1>3 DEF ChildFailsToCreate, Bail
    <2>3. cpc' \in ChildPCs /\ ppc' \in ParentPCs
      BY <1>3 DEF ChildFailsToCreate, Bail, AnswerSignalled
    <2> QED BY <1>3, <2>1, <2>2, <2>3 DEF ChildFailsToCreate
  <1>4. CASE ChildCreates
    <2>1. [csf EXCEPT !.fd = cgen] \in Sf
      BY SfFields
    <2>2. openfds \cup {cgen} \in SUBSET Gens
      OBVIOUS
    <2>3. [disk EXCEPT ![cgen] = <<>>] \in [Gens -> Seq(Byte)]
      OBVIOUS
    <2>4. tail' = 0 \/ tail' = tail
      BY <1>4 DEF ChildCreates
    <2>6. frames' = 0 \/ frames' = frames
      BY <1>4 DEF ChildCreates
    <2>7. cpc' \in {"loop", "top"}
      BY <1>4 DEF ChildCreates
    <2>8. tail' \in 0..BufSize - 1 /\ frames' \in Nat /\ cpc' \in ChildPCs
      BY <2>4, <2>6, <2>7, WriteSizesAssumption
    <2>5. xsf' \in Sf /\ csf' \in Sf
      BY <1>4, <2>1 DEF ChildCreates
    <2> QED BY <1>4, <2>2, <2>3, <2>5, <2>8 DEF ChildCreates
  <1>5. CASE LoopEnds
    BY <1>5 DEF LoopEnds, LoopGoesOn
  <1>6. CASE LoopWaits
    BY <1>6 DEF LoopWaits, AnswerSignalled, LoopGoesOn
  <1>7. CASE LoopWrites
    <2>1. /\ head \in Nat /\ tail \in Nat /\ fifosize \in Nat
          /\ WriteSize \in Nat
      BY WriteSizesAssumption
    <2>2. tail = 0 \/ tail < fifosize
      BY DEF FifoInv
    <2>3. WriteBytes \in Nat
      BY <1>7, <2>1, <2>2 DEF LoopWrites, LoopGoesOn, WorthWriting,
         WriteBytes, MinOf
    <2> QED BY <1>7, <2>3 DEF LoopWrites
  <1>8. CASE WriteReturns
    <2>1. ASSUME NEW n \in 0..wlen, wgot' = n,
                 disk' = [disk EXCEPT ![csf.fd] =
                            disk[csf.fd] \o [i \in 1..n |-> buf[tail + i - 1]]]
          PROVE  wgot' \in Nat /\ disk' \in [Gens -> Seq(Byte)]
      <3>1. n \in Nat /\ tail + n <= fifosize
        BY <1>8, WriteSizesAssumption DEF WriteReturns, FifoInv, Writing
      <3>2. [i \in 1..n |-> buf[tail + i - 1]] \in Seq(Byte)
        BY <3>1, WrittenBytes
      <3>3. csf.fd \in Gens
        BY DEF Sf
      <3> DEFINE grown == disk[csf.fd] \o [i \in 1..n |-> buf[tail + i - 1]]
      <3>4. disk[csf.fd] \in Seq(Byte)
        BY <3>3
      <3>5. grown \in Seq(Byte)
        BY <3>2, <3>4
      <3>6. disk' = [disk EXCEPT ![csf.fd] = grown]
        BY <2>1
      <3> HIDE DEF grown
      <3>7. disk' \in [Gens -> Seq(Byte)]
        BY <3>5, <3>6
      <3> QED BY <2>1, <3>1, <3>7
    <2>2. CASE wgot' = -1 /\ UNCHANGED disk
      BY <1>8, <2>2 DEF WriteReturns
    <2>3. ASSUME NEW n \in 0..wlen, wgot' = n,
                 disk' = [disk EXCEPT ![csf.fd] =
                            disk[csf.fd] \o [i \in 1..n |-> buf[tail + i - 1]]]
          PROVE  TypeOK'
      <3>1. wgot' \in Nat /\ disk' \in [Gens -> Seq(Byte)]
        BY <2>1, <2>3
      <3> QED BY <1>8, <3>1 DEF WriteReturns
    <2> QED BY <1>8, <2>2, <2>3 DEF WriteReturns
  <1>9. CASE WriteOvertaken
    BY <1>9 DEF WriteOvertaken
  <1>10. CASE WriteFails
    <2>1. request' \in {"NOTHING", "OPEN", "CLOSE", "QUIT", "BUSY"}
      BY <1>10 DEF WriteFails, Bail
    <2>2. cpc' \in ChildPCs /\ ppc' \in ParentPCs
      BY <1>10 DEF WriteFails, Bail, AnswerSignalled
    <2> QED BY <1>10, <2>1, <2>2 DEF WriteFails
  <1>11. CASE WriteArrives
    <2>1. /\ tail \in Nat /\ wgot \in Nat /\ fifosize \in 0..BufSize
          /\ wgot = wlen /\ tail + wlen <= fifosize
      BY <1>11, WriteSizesAssumption DEF WriteArrives, FifoInv, Writing
    <2>2. TailAfterWrite \in 0..BufSize - 1
      BY <2>1, WriteSizesAssumption DEF TailAfterWrite
    <2>3. FramesAfterWrite \in Nat
      <3>1. csf.bpf \in Nat \ {0}
        BY DEF Sf
      <3>2. wgot \div csf.bpf \in Nat
        BY <2>1, <3>1, QuotientNat
      <3> QED BY <3>2 DEF FramesAfterWrite
    <2>4. ppc' \in ParentPCs /\ cpc' \in ChildPCs
      BY <1>11 DEF WriteArrives, AnswerSignalled
    <2> QED BY <1>11, <2>2, <2>3, <2>4 DEF WriteArrives
  <1>12. CASE ChildBailsOut
    <2>1. [xsf EXCEPT !.fd = NoFd] \in Sf /\ [csf EXCEPT !.fd = NoFd] \in Sf
      BY SfFields, WriteSizesAssumption
    <2>2. ppc' \in ParentPCs /\ cpc' \in ChildPCs /\ eof' \in BOOLEAN
      BY <1>12 DEF ChildBailsOut, AnswerSignalled
    <2>3. openfds' \subseteq Gens
      BY <1>12 DEF ChildBailsOut, BailCloses
    <2> QED BY <1>12, <2>1, <2>2, <2>3 DEF ChildBailsOut
  <1>13. CASE ChildTakesClose
    <2>1. quitting' \in BOOLEAN
      BY <1>13 DEF ChildTakesClose
    <2>2. ppc' \in ParentPCs /\ cpc' \in ChildPCs
      BY <1>13 DEF ChildTakesClose, Acknowledge, AnswerSignalled
    <2>3. csf' \in Sf
          /\ request' \in {"NOTHING", "OPEN", "CLOSE", "QUIT", "BUSY"}
      BY <1>13 DEF ChildTakesClose, Acknowledge
    <2> QED BY <1>13, <2>1, <2>2, <2>3 DEF ChildTakesClose
  <1>14. CASE ChildFinishes
    <2>1. [xsf EXCEPT !.fd = NoFd] \in Sf /\ [csf EXCEPT !.fd = NoFd] \in Sf
      BY SfFields, WriteSizesAssumption
    <2>2. ppc' \in ParentPCs /\ cpc' \in ChildPCs /\ request' = "NOTHING"
      BY <1>14 DEF ChildFinishes, Acknowledge, AnswerSignalled
    <2>3. openfds' \subseteq Gens /\ xsf' = [xsf EXCEPT !.fd = NoFd]
      BY <1>14 DEF ChildFinishes, CloseFile
    <2>4. header' \in [Gens -> Nat \cup {-1}]
      BY <1>14 DEF ChildFinishes, Sf
    <2> QED BY <1>14, <2>1, <2>2, <2>3, <2>4 DEF ChildFinishes
  <1>15. CASE ChildWakes
    BY <1>15 DEF ChildWakes
  <1>16. CASE PerformWaits
    BY <1>16 DEF PerformWaits, Performing, RequestSignalled
  <1>17. CASE PerformGivesUp
    BY <1>17 DEF PerformGivesUp, Performing, RequestSignalled
  <1>18. CASE PerformPuts
    <2>1. TickBytes \in Nat /\ head \in Nat /\ fifosize \in 0..BufSize
      BY WriteSizesAssumption, ProductPositive DEF TickBytes, Sf
    <2>2. head' \in 0..BufSize - 1
      BY <1>18, <2>1, WriteSizesAssumption DEF PerformPuts
    <2>3. put' \in 0..MaxPut
      BY <1>18, <2>1, WriteSizesAssumption DEF PerformPuts
    <2>4. \A i \in head..head + TickBytes - 1 :
            [gen |-> gen, pos |-> put + (i - head)] \in Byte
      BY <2>1, WriteSizesAssumption DEF Byte
    <2>5. buf' \in [0..BufSize - 1 -> Byte]
      BY <1>18, <2>4 DEF PerformPuts
    <2>6. sigcount' \in Nat /\ cpc' \in ChildPCs
      BY <1>18 DEF PerformPuts, RequestSignalled
    <2> QED BY <1>18, <2>2, <2>3, <2>5, <2>6 DEF PerformPuts
  <1>19. CASE OpenWaits
    BY <1>19 DEF OpenWaits, RequestSignalled
  <1>20. CASE WritesfOpen
    BY <1>20 DEF WritesfOpen, Stops, RequestSignalled
  <1>21. CASE WritesfStart
    BY <1>21 DEF WritesfStart
  <1>22. CASE WritesfStop
    BY <1>22 DEF WritesfStop, Stops, RequestSignalled
  <1>23. CASE WritesfFree
    BY <1>23 DEF WritesfFree, RequestSignalled
  <1>24. CASE FreeResumes
    BY <1>24 DEF FreeResumes, RequestSignalled
  <1>25. CASE FreeJoins
    BY <1>25 DEF FreeJoins
  <1>26. ASSUME NEW bpf \in Bpfs, OpenGoesOn(bpf) PROVE TypeOK'
    <2>1. bpf \in Nat \ {0}
      BY <1>26, WriteSizesAssumption
    <2>2. xsf' \in Sf
      BY <1>26, <2>1, SfFields, WriteSizesAssumption DEF OpenGoesOn, Gens
    <2>3. fifosize' \in 0..BufSize /\ fifosize' \in Nat
      BY <1>26, <2>1, FifoSizeBound, WriteSizesAssumption DEF OpenGoesOn
    <2>4. SigFraction * bpf * vec \in Nat \ {0}
      <3>1. SigFraction * bpf \in Nat \ {0}
        BY <2>1, WriteSizesAssumption, ProductPositive
      <3> QED BY <3>1, ProductPositive
    <2>5. sigperiod' \in Nat /\ sigcount' \in Nat
      BY <1>26, <2>3, <2>4, QuotientNat DEF OpenGoesOn
    <2>6. gen' \in Gens
      <3>1. ppc \in Openers /\ gen' = gen + 1
        BY <1>26 DEF OpenGoesOn, Openers
      <3>2. gen < MaxOpens
        BY <3>1 DEF ParentInv
      <3> QED BY <3>1, <3>2, WriteSizesAssumption DEF Gens
    <2>7. cpc' \in ChildPCs
      BY <1>26 DEF OpenGoesOn, RequestSignalled
    <2>8. head' = 0 /\ tail' = 0 /\ put' = 0
      BY <1>26 DEF OpenGoesOn
    <2>9. head' \in 0..BufSize - 1 /\ tail' \in 0..BufSize - 1
          /\ put' \in 0..MaxPut
      BY <2>8, WriteSizesAssumption
    <2> QED BY <1>26, <2>2, <2>3, <2>5, <2>6, <2>7, <2>9 DEF OpenGoesOn
  <1>27. ASSUME NEW v \in VecSizes, WritesfDsp(v) PROVE TypeOK'
    <2>1. v \in Nat \ {0} /\ xsf.bpf \in Nat \ {0} /\ fifosize \in Nat
      BY <1>27, WriteSizesAssumption DEF Sf
    <2>2. SigFraction * xsf.bpf * v \in Nat \ {0}
      <3>1. SigFraction * xsf.bpf \in Nat \ {0}
        BY <2>1, WriteSizesAssumption, ProductPositive
      <3> QED BY <2>1, <3>1, ProductPositive
    <2>3. sigperiod' \in Nat
      BY <1>27, <2>1, <2>2, QuotientNat DEF WritesfDsp
    <2> QED BY <1>27, <2>1, <2>3 DEF WritesfDsp
  <1>28. CASE UNCHANGED vars
    BY <1>28 DEF vars
  <1> QED
    BY <1>1, <1>2, <1>3, <1>4, <1>5, <1>6, <1>7, <1>8, <1>9, <1>10,
       <1>11, <1>12, <1>13, <1>14, <1>15, <1>16, <1>17, <1>18, <1>19, <1>20,
       <1>21, <1>22, <1>23, <1>24, <1>25, <1>26, <1>27, <1>28
       DEF Next, Child, WritesfPerform, Opening

-----------------------------------------------------------------------------
(* The initial states.                                                     *)
LEMMA InitIInv == Init => IInv
  <1> SUFFICES ASSUME Init PROVE IInv
    OBVIOUS
  <1>1. 0 \in Gens /\ BufSize \in Nat \ {0} /\ MaxVecSize \in Nat \ {0}
        /\ MaxPut \in Nat
    BY WriteSizesAssumption DEF Gens
  <1>2. xsf \in Sf /\ csf = xsf /\ xsf.fd = NoFd
    BY <1>1, WriteSizesAssumption DEF Init, Sf, NoFd
  <1>3. /\ buf \in [0..BufSize - 1 -> Byte] /\ disk \in [Gens -> Seq(Byte)]
        /\ header \in [Gens -> Nat \cup {-1}]
    BY <1>1 DEF Init, Byte
  <1>4. /\ ppc \in ParentPCs /\ cpc \in ChildPCs
        /\ state \in {"IDLE", "STARTUP", "STREAM"}
        /\ request \in {"NOTHING", "OPEN", "CLOSE", "QUIT", "BUSY"}
        /\ fileerror \in BOOLEAN /\ eof \in BOOLEAN /\ quitting \in BOOLEAN
    BY DEF Init, ParentPCs, ChildPCs, Holding
  <1>5. TypeOK
    BY <1>1, <1>2, <1>3, <1>4 DEF Init, TypeOK
  <1>6. ParentInv /\ FifoInv
    BY DEF Init, ParentInv, FifoInv, Openers, Writing
  <1>7. FdInv
    BY <1>2 DEF Init, FdInv
  <1> QED BY <1>5, <1>6, <1>7 DEF IInv

(* The inductive invariant holds in every reachable state, for every       *)
(* buffer size, every error of the disk and every sequence of messages.    *)
THEOREM Invariance == Spec => []IInv
  <1>1. IInv /\ [Next]_vars => IInv'
    BY TypeStep, ParentStep, FdStep, FifoStep DEF IInv
  <1> QED BY InitIInv, <1>1, PTL DEF Spec

(* Every variable of writesf~ keeps its type: the head and the tail stay   *)
(* inside x_buf.                                                           *)
THEOREM TypeCorrect == Spec => []TypeOK
  <1>1. IInv => TypeOK
    BY DEF IInv
  <1> QED BY Invariance, <1>1, PTL

(* The branch of lines 2310-2326 is dead code, as its comment says, for    *)
(* impatient users and failing disks too.                                  *)
THEOREM NeverDitches == Spec => []DitchNeverHappens
  <1>1. IInv => DitchNeverHappens
    BY DEF IInv, FdInv, DitchNeverHappens
  <1> QED BY Invariance, <1>1, PTL

-----------------------------------------------------------------------------
(* Multiples, under a name of their own.                                   *)
Divides(d, n) == n % d = 0

(* A multiple is a product, which is how the provers reason about them.    *)
LEMMA MultipleIs ==
  ASSUME NEW d \in Nat \ {0}, NEW n \in Int
  PROVE  Divides(d, n) <=> \E q \in Int : n = d * q
  <1>1. ASSUME Divides(d, n) PROVE n = d * (n \div d) /\ n \div d \in Int
    BY <1>1 DEF Divides
  <1>2. ASSUME NEW q \in Int, n = d * q PROVE Divides(d, n)
    BY <1>2 DEF Divides
  <1> QED BY <1>1, <1>2

(* Everything divides 0 and itself.                                        *)
LEMMA DividesSelf ==
  ASSUME NEW d \in Nat \ {0}
  PROVE  Divides(d, 0) /\ Divides(d, d)
  BY DEF Divides

(* Sums and differences of multiples are multiples.                        *)
LEMMA MultipleSum ==
  ASSUME NEW d \in Nat \ {0}, NEW m \in Int, NEW n \in Int,
         Divides(d, m), Divides(d, n)
  PROVE  Divides(d, m + n) /\ Divides(d, m - n)
  <1>1. PICK p \in Int : m = d * p
    BY MultipleIs
  <1>2. PICK q \in Int : n = d * q
    BY MultipleIs
  <1>3. p + q \in Int /\ p - q \in Int /\ m + n \in Int /\ m - n \in Int
    OBVIOUS
  <1>4. m + n = d * (p + q) /\ m - n = d * (p - q)
    BY <1>1, <1>2
  <1> QED BY <1>3, <1>4, MultipleIs

(* A multiple of a multiple is a multiple.                                 *)
LEMMA MultipleOfMultiple ==
  ASSUME NEW d \in Nat \ {0}, NEW e \in Nat \ {0}, NEW n \in Int,
         Divides(d, e), Divides(e, n)
  PROVE  Divides(d, n)
  <1>1. PICK p \in Int : e = d * p
    BY MultipleIs
  <1>2. PICK q \in Int : n = e * q
    BY MultipleIs
  <1>3. n = d * (p * q) /\ p * q \in Int
    BY <1>1, <1>2
  <1> QED BY <1>3, MultipleIs

-----------------------------------------------------------------------------
(* What the fifo holds and what has been written.                          *)
Idling == {"top", "topwait", "topwake", "exited"}
Freeing == {"freewait", "freewake", "joining", "freed"}

(* The child serves the file opened last, whose data is in the fifo.       *)
OpenInv ==
  /\ gen # 0 => Divides(MaxVecSize * xsf.bpf, fifosize)
  /\ cpc \notin Idling => request # "OPEN"
  /\ cpc \notin Idling \cup {"finishing"} => cgen = gen
  /\ cpc \in Writing => csf = xsf
  /\ cpc = "creating" => csf.bpf = xsf.bpf
  /\ request = "CLOSE" => state = "IDLE"
  /\ request = "QUIT" => ppc \in Freeing
  /\ gen = 0 => state = "IDLE"

(* Only the file opened last has a descriptor the child writes to, and no  *)
(* write follows an error.                                                 *)
FileInv ==
  /\ xsf.fd # NoFd => xsf.fd = gen
  /\ \A g \in Gens : g > gen => disk[g] = <<>>
  /\ request = "OPEN" \/ cpc = "creating" =>
       disk[gen] = <<>> /\ tail = 0 /\ frames = 0 /\ ~fileerror
  /\ request = "BUSY" => ~fileerror
  /\ fileerror => xsf.fd = NoFd \/ cpc = "bailclose"
  /\ cpc = "bailclose" => fileerror

(* The n cells of b from cell t on, going around after cell size - 1, hold *)
(* bytes p, p + 1, ... of generation gn.                                   *)
Cell(t, k, size) == IF t + k < size THEN t + k ELSE t + k - size
Holds(b, t, n, size, gn, p) ==
  \A k \in 0..n - 1 : b[Cell(t, k, size)] = [gen |-> gn, pos |-> p + k]

(* As long as the data may still reach the file, a QUIT and a CLOSE        *)
(* included ...                                                            *)
Live == \/ request \in {"OPEN", "BUSY"}
        \/ /\ xsf.fd # NoFd
           /\ \/ request = "CLOSE"
              \/ cpc \in Writing
              \/ cpc = "finishing" /\ ~quitting

(* ... all that is not yet written is in the fifo, FifoHoldsInput without  *)
(* "%", and a write under way takes it from there.                         *)
PlaceInv ==
  Live /\ ~fileerror /\ gen \notin spoilt =>
    /\ put = Written + Unwritten
    /\ Holds(buf, tail, Unwritten, fifosize, gen, Written)
    /\ cpc \in Writing => wlen <= Unwritten

(* What the child may write is of the file opened last, spoilt or not: on  *)
(* the first lap there is nothing else before the head, and after it there *)
(* is nothing else in the fifo.                                            *)
LapInv ==
  /\ put < fifosize =>
       /\ head = put /\ tail <= put
       /\ cpc \in Writing => tail + wlen <= put
  /\ \A i \in 0..fifosize - 1 : i < put => buf[i].gen = gen

InputInv == OpenInv /\ FileInv /\ PlaceInv /\ LapInv

(* Every descriptor is the child's, which is also in x_sf, or it is lost,  *)
(* at the latest when the child has taken the request that overtook its    *)
(* creation.                                                               *)
Overtaking == /\ cpc = "top" /\ request \in {"CLOSE", "QUIT"}
              /\ csf.fd = gen /\ gen \in overtaken /\ xsf.fd = NoFd
LeakInv ==
  /\ openfds \subseteq ({csf.fd} \ {NoFd}) \cup overtaken
  /\ csf.fd = xsf.fd \/ Overtaking
  /\ cpc \in {"topwait", "topwake", "exited"} => csf.fd = NoFd

(* When the child has left its loop for a CLOSE the fifo is empty, and the *)
(* file it closes is the one that was stopped.                             *)
EndInv ==
  /\ cpc = "top" /\ request = "CLOSE" /\ xsf.fd # NoFd /\ ~fileerror
       => head = tail
  /\ cpc = "finishing" /\ ~quitting /\ xsf.fd # NoFd /\ ~fileerror
       => head = tail
  /\ cpc = "finishing" => xsf.fd # NoFd \/ gen \in overtaken

(* A child without a file has written all of the last one, and nothing     *)
(* more is put in.                                                         *)
Unfiled == /\ cpc \in {"top", "topwait", "topwake"} /\ csf.fd = NoFd
           /\ request \in {"NOTHING", "CLOSE"}
DoneInv ==
  /\ request = "NOTHING" /\ ~fileerror => state = "IDLE" \/ ppc \in Freeing
  /\ cpc \in Looping \cup Writing /\ xsf.fd = NoFd => fileerror
  /\ Unfiled /\ ~fileerror /\ AllOf(gen) => Len(disk[gen]) = put

(* x_frameswritten counts no more than is written ...                      *)
FloorInv ==
  /\ Divides(xsf.bpf, head) /\ Divides(xsf.bpf, fifosize)
  /\ Live /\ ~fileerror => frames * xsf.bpf <= Written

(* ... and all of it when a full write is a whole number of frames.        *)
WholeInv ==
  Divides(xsf.bpf, WriteSize) =>
    /\ Divides(xsf.bpf, tail)
    /\ cpc \in Writing => Divides(xsf.bpf, wlen)
    /\ Live /\ ~fileerror => frames * xsf.bpf = Written
-----------------------------------------------------------------------------
(* A tick is a positive number of bytes.                                   *)
LEMMA TickType ==
  ASSUME TypeOK
  PROVE  TickBytes \in Nat \ {0}
  BY ProductPositive DEF TypeOK, Sf, TickBytes

(* The size of the fifo is a multiple of a frame times MAXVECSIZE (lines   *)
(* 2665-2666).                                                             *)
LEMMA FifoSizeMultiple ==
  ASSUME NEW bpf \in Nat \ {0}
  PROVE  Divides(MaxVecSize * bpf, FifoSizeFor(bpf))
  <1> DEFINE m == MaxVecSize * bpf
  <1>1. BufSize \in Nat /\ m \in Nat \ {0} /\ bpf * MaxVecSize = m
    BY WriteSizesAssumption, ProductPositive
  <1> HIDE DEF m
  <1>2. BufSize - (BufSize % m) = m * (BufSize \div m)
        /\ BufSize \div m \in Int
    BY <1>1
  <1>3. BufSize - (BufSize % m) \in Int
    BY <1>1
  <1>4. Divides(m, FifoSizeFor(bpf))
    BY <1>1, <1>2, <1>3, MultipleIs DEF FifoSizeFor
  <1> QED BY <1>4 DEF m

(* A factor that divides makes the product divide.                         *)
LEMMA ProductDivides ==
  ASSUME NEW a \in Nat \ {0}, NEW v \in Nat \ {0}, NEW b \in Nat \ {0},
         Divides(v, a)
  PROVE  Divides(v * b, a * b)
  <1>1. PICK q \in Int : a = v * q
    BY MultipleIs
  <1>2. a * b = (v * b) * q /\ a * b \in Int /\ v * b \in Nat \ {0}
    BY <1>1, ProductPositive
  <1> QED BY <1>2, MultipleIs

(* The fifo is a whole number of ticks if their size divides MAXVECSIZE.   *)
LEMMA TickDivides ==
  ASSUME TypeOK, OpenInv, gen # 0, MaxVecSize % vec = 0
  PROVE  Divides(TickBytes, fifosize)
  <1> DEFINE b == xsf.bpf
             m == MaxVecSize * b
             n == vec * b
  <1>1. /\ vec \in Nat \ {0} /\ MaxVecSize \in Nat \ {0} /\ b \in Nat \ {0}
        /\ fifosize \in Int
    BY WriteSizesAssumption DEF TypeOK, Sf
  <1>2. m \in Nat \ {0} /\ n \in Nat \ {0} /\ Divides(m, fifosize)
    BY <1>1, ProductPositive DEF OpenInv
  <1>3. Divides(vec, MaxVecSize)
    BY DEF Divides
  <1>4. Divides(n, m)
    BY <1>1, <1>3, ProductDivides
  <1> HIDE DEF m, n
  <1>5. Divides(n, fifosize)
    BY <1>1, <1>2, <1>4, MultipleOfMultiple
  <1> QED BY <1>5 DEF n, TickBytes

(* The child serves the file opened last.                                  *)
LEMMA OpenStep == IInv /\ OpenInv /\ [Next]_vars => OpenInv'
  <1> SUFFICES ASSUME IInv, OpenInv, [Next]_vars PROVE OpenInv'
    OBVIOUS
  <1> USE DEF OpenInv, NoFd, Idling, Freeing, Writing, Looping,
      Openers, fifoVars, writeVars, fileVars, history
  <1>1. CASE ChildIdles
    BY <1>1 DEF ChildIdles, AnswerSignalled
  <1>2. CASE ChildTakesOpen
    BY <1>2 DEF ChildTakesOpen
  <1>3. CASE ChildFailsToCreate
    <2>1. xsf'.bpf = xsf.bpf
      BY <1>3 DEF ChildFailsToCreate, IInv, TypeOK, Sf
    <2> QED BY <1>3, <2>1 DEF ChildFailsToCreate, Bail, AnswerSignalled,
            IInv, FdInv
  <1>4. CASE ChildCreates
    <2>1. xsf'.bpf = xsf.bpf
      BY <1>4 DEF ChildCreates, IInv, TypeOK, Sf
    <2>2. request # "OPEN"
      BY <1>4 DEF ChildCreates
    <2>3. /\ UNCHANGED <<vec, gen, cgen, fifosize, head, state, request, ppc>>
          /\ cpc' \in {"top", "loop"} /\ cgen = gen
      BY <1>4 DEF ChildCreates
    <2> QED BY <2>1, <2>2, <2>3
  <1>5. CASE LoopEnds
    BY <1>5 DEF LoopEnds, LoopGoesOn, IInv, ParentInv
  <1>6. CASE LoopWaits
    BY <1>6 DEF LoopWaits, AnswerSignalled, LoopGoesOn
  <1>7. CASE LoopWrites
    BY <1>7 DEF LoopWrites, LoopGoesOn, WorthWriting
  <1>8. CASE WriteReturns
    BY <1>8 DEF WriteReturns
  <1>9. CASE WriteOvertaken
    BY <1>9 DEF WriteOvertaken
  <1>10. CASE WriteFails
    BY <1>10 DEF WriteFails, Bail, AnswerSignalled
  <1>11. CASE WriteArrives
    BY <1>11 DEF WriteArrives, AnswerSignalled
  <1>12. CASE ChildBailsOut
    <2>1. xsf'.bpf = xsf.bpf
      BY <1>12 DEF ChildBailsOut, IInv, TypeOK, Sf
    <2> QED BY <1>12, <2>1 DEF ChildBailsOut, BailCloses, AnswerSignalled
  <1>13. CASE ChildTakesClose
    BY <1>13 DEF ChildTakesClose, Acknowledge, AnswerSignalled, IInv, ParentInv
  <1>14. CASE ChildFinishes
    <2>1. xsf'.bpf = xsf.bpf
      BY <1>14 DEF ChildFinishes, CloseFile, IInv, TypeOK, Sf
    <2> QED BY <1>14, <2>1 DEF ChildFinishes, Acknowledge, AnswerSignalled
  <1>15. CASE ChildWakes
    BY <1>15 DEF ChildWakes
  <1>16. CASE PerformWaits
    BY <1>16 DEF PerformWaits, Performing, RequestSignalled
  <1>17. CASE PerformGivesUp
    BY <1>17 DEF PerformGivesUp, Performing, RequestSignalled
  <1>18. CASE PerformPuts
    BY <1>18 DEF PerformPuts, Performing, RequestSignalled
  <1>19. CASE OpenWaits
    BY <1>19 DEF OpenWaits, RequestSignalled
  <1>20. CASE WritesfOpen
    BY <1>20 DEF WritesfOpen, Stops, RequestSignalled
  <1>21. CASE WritesfStart
    BY <1>21 DEF WritesfStart
  <1>22. CASE WritesfStop
    BY <1>22 DEF WritesfStop, Stops, RequestSignalled
  <1>23. CASE WritesfFree
    BY <1>23 DEF WritesfFree, RequestSignalled
  <1>24. CASE FreeResumes
    BY <1>24 DEF FreeResumes, RequestSignalled
  <1>25. CASE FreeJoins
    BY <1>25 DEF FreeJoins
  <1>26. ASSUME NEW bpf \in Bpfs, OpenGoesOn(bpf) PROVE OpenInv'
    <2>1. bpf \in Nat \ {0}
      BY WriteSizesAssumption
    <2>2. fifosize' = FifoSizeFor(bpf) /\ head' = 0 /\ xsf'.bpf = bpf
          /\ vec' = vec
      BY <1>26 DEF OpenGoesOn, IInv, TypeOK, Sf
    <2>4. Divides(MaxVecSize * bpf, fifosize')
      BY <2>1, <2>2, FifoSizeMultiple
    <2>6. /\ cpc \notin Writing \cup {"creating"} /\ cpc \in ChildPCs
          /\ ppc' = "run" /\ request' = "OPEN" /\ request = "NOTHING"
          /\ cpc \notin {"top", "loop", "loopwait", "loopwake", "bailclose",
                          "finishing", "stray"}
      BY <1>26 DEF OpenGoesOn, OpenMayProceed, IInv, ParentInv, FdInv,
         MutexFree, Holding, TypeOK
    <2>7. cpc \in Idling /\ cpc' \in Idling
      BY <1>26, <2>6 DEF OpenGoesOn, RequestSignalled, ChildPCs, Holding
    <2>8. gen' = gen + 1 /\ gen \in Nat /\ vec' = vec
      BY <1>26, WriteSizesAssumption DEF OpenGoesOn, IInv, TypeOK, Gens
    <2>9. Divides(MaxVecSize * xsf'.bpf, fifosize')
      BY <2>2, <2>4
    <2> QED BY <2>6, <2>7, <2>8, <2>9
  <1>27. ASSUME NEW v \in VecSizes, WritesfDsp(v) PROVE OpenInv'
    BY <1>27 DEF WritesfDsp
  <1>28. CASE UNCHANGED vars
    BY <1>28 DEF vars
  <1> QED
    BY <1>1, <1>2, <1>3, <1>4, <1>5, <1>6, <1>7, <1>8, <1>9, <1>10,
       <1>11, <1>12, <1>13, <1>14, <1>15, <1>16, <1>17, <1>18, <1>19, <1>20,
       <1>21, <1>22, <1>23, <1>24, <1>25, <1>26, <1>27, <1>28
       DEF Next, Child, WritesfPerform, Opening

(* Descriptors belong to the file opened last.                             *)
LEMMA FileStep == IInv /\ OpenInv /\ FileInv /\ [Next]_vars => FileInv'
  <1> SUFFICES ASSUME IInv, OpenInv, FileInv, [Next]_vars PROVE FileInv'
    OBVIOUS
  <1> USE DEF FileInv, NoFd, Idling, Freeing, Writing, Looping, Openers,
      fifoVars, writeVars, fileVars, history
  <1>1. CASE ChildIdles
    BY <1>1 DEF ChildIdles, AnswerSignalled
  <1>2. CASE ChildTakesOpen
    BY <1>2 DEF ChildTakesOpen, IInv, TypeOK, FdInv, ParentInv, OpenInv, Sf,
       Gens
  <1>3. CASE ChildFailsToCreate
    BY <1>3 DEF ChildFailsToCreate, Bail, AnswerSignalled, IInv, TypeOK,
       FdInv, ParentInv, OpenInv, Sf, Gens
  <1>4. CASE ChildCreates
    BY <1>4 DEF ChildCreates, IInv, TypeOK, FdInv, ParentInv, OpenInv, Sf, Gens
  <1>5. CASE LoopEnds
    BY <1>5 DEF LoopEnds, LoopGoesOn
  <1>6. CASE LoopWaits
    BY <1>6 DEF LoopWaits, AnswerSignalled, LoopGoesOn
  <1>7. CASE LoopWrites
    BY <1>7 DEF LoopWrites, LoopGoesOn, WorthWriting
  <1>8. CASE WriteReturns
    <2>1. csf = xsf /\ request # "OPEN"
      BY <1>8 DEF WriteReturns, OpenInv
    <2>2. \A g \in Gens : g # csf.fd => disk'[g] = disk[g]
      BY <1>8 DEF WriteReturns, IInv, TypeOK
    <2>3. disk' = disk \/ csf.fd # NoFd
      BY <1>8 DEF WriteReturns
    <2>4. \A g \in Gens : g > gen => g # gen
      BY WriteSizesAssumption DEF IInv, TypeOK, Gens
    <2>5. /\ UNCHANGED <<xsf, gen, request, tail, frames, fileerror>>
          /\ cpc' = "writedone" /\ cpc = "writing"
      BY <1>8 DEF WriteReturns
    <2>6. \A g \in Gens : g > gen => disk'[g] = <<>>
      BY <2>1, <2>2, <2>3, <2>4
    <2> QED BY <2>1, <2>5, <2>6
  <1>9. CASE WriteOvertaken
    BY <1>9 DEF WriteOvertaken
  <1>10. CASE WriteFails
    BY <1>10 DEF WriteFails, Bail, AnswerSignalled, IInv, TypeOK, FdInv,
       ParentInv, OpenInv, Sf, Gens
  <1>11. CASE WriteArrives
    BY <1>11 DEF WriteArrives, AnswerSignalled, IInv, TypeOK, FdInv,
       ParentInv, OpenInv, Sf, Gens
  <1>12. CASE ChildBailsOut
    BY <1>12 DEF ChildBailsOut, BailCloses, AnswerSignalled, IInv, TypeOK,
       FdInv, ParentInv, OpenInv, Sf, Gens
  <1>13. CASE ChildTakesClose
    BY <1>13 DEF ChildTakesClose, Acknowledge, AnswerSignalled, IInv, TypeOK,
       FdInv, ParentInv, OpenInv, Sf, Gens
  <1>14. CASE ChildFinishes
    BY <1>14 DEF ChildFinishes, Acknowledge, AnswerSignalled, CloseFile,
       IInv, TypeOK, FdInv, ParentInv, OpenInv, Sf, Gens
  <1>15. CASE ChildWakes
    BY <1>15 DEF ChildWakes
  <1>16. CASE PerformWaits
    BY <1>16 DEF PerformWaits, Performing, RequestSignalled
  <1>17. CASE PerformGivesUp
    BY <1>17 DEF PerformGivesUp, Performing, RequestSignalled
  <1>18. CASE PerformPuts
    BY <1>18 DEF PerformPuts, Performing, RequestSignalled
  <1>19. CASE OpenWaits
    BY <1>19 DEF OpenWaits, RequestSignalled
  <1>20. CASE WritesfOpen
    BY <1>20 DEF WritesfOpen, Stops, RequestSignalled, IInv, TypeOK, FdInv,
       ParentInv, OpenInv, Sf, Gens
  <1>21. CASE WritesfStart
    BY <1>21 DEF WritesfStart
  <1>22. CASE WritesfStop
    BY <1>22 DEF WritesfStop, Stops, RequestSignalled, IInv, TypeOK, FdInv,
       ParentInv, OpenInv, Sf, Gens
  <1>23. CASE WritesfFree
    BY <1>23 DEF WritesfFree, RequestSignalled, IInv, TypeOK, FdInv,
       ParentInv, OpenInv, Sf, Gens
  <1>24. CASE FreeResumes
    BY <1>24 DEF FreeResumes, RequestSignalled
  <1>25. CASE FreeJoins
    BY <1>25 DEF FreeJoins
  <1>26. ASSUME NEW bpf \in Bpfs, OpenGoesOn(bpf) PROVE FileInv'
    <2>1. /\ gen \in Nat /\ gen < MaxOpens /\ gen' = gen + 1
      BY <1>26, WriteSizesAssumption DEF OpenGoesOn, IInv, TypeOK, ParentInv,
         Gens
    <2>2. gen' \in Gens /\ gen' > gen
      BY <2>1, WriteSizesAssumption DEF Gens
    <2>3. /\ cpc \notin Writing \cup {"creating"} /\ cpc \in ChildPCs
          /\ cpc \notin {"top", "loop", "loopwait", "loopwake", "bailclose",
                          "finishing", "stray"}
      BY <1>26 DEF OpenGoesOn, OpenMayProceed, IInv, ParentInv, FdInv,
         MutexFree, Holding, TypeOK
    <2>4. cpc \in {"topwait", "topwake", "exited"}
          /\ cpc' \in {"topwait", "topwake", "exited"}
      BY <1>26, <2>3 DEF OpenGoesOn, RequestSignalled, ChildPCs, Holding
    <2>5. xsf'.fd = NoFd
      BY <1>26, <2>4 DEF OpenGoesOn, IInv, FdInv, TypeOK, Sf
    <2>6. \A g \in Gens : g > gen' => disk[g] = <<>>
      BY <2>1, WriteSizesAssumption DEF Gens
    <2>7. /\ request' = "OPEN" /\ disk' = disk /\ tail' = 0 /\ frames' = 0
          /\ fileerror' = FALSE
      BY <1>26 DEF OpenGoesOn
    <2> QED BY <2>2, <2>4, <2>5, <2>6, <2>7
  <1>27. ASSUME NEW v \in VecSizes, WritesfDsp(v) PROVE FileInv'
    BY <1>27 DEF WritesfDsp
  <1>28. CASE UNCHANGED vars
    BY <1>28 DEF vars
  <1> QED
    BY <1>1, <1>2, <1>3, <1>4, <1>5, <1>6, <1>7, <1>8, <1>9, <1>10,
       <1>11, <1>12, <1>13, <1>14, <1>15, <1>16, <1>17, <1>18, <1>19, <1>20,
       <1>21, <1>22, <1>23, <1>24, <1>25, <1>26, <1>27, <1>28
       DEF Next, Child, WritesfPerform, Opening

(* No cells hold anything.                                                 *)
LEMMA HoldsNone ==
  ASSUME NEW b, NEW t, NEW size, NEW gn, NEW p
  PROVE  Holds(b, t, 0, size, gn, p)
  BY DEF Holds

(* What is left when the first m cells are played.                         *)
LEMMA HoldsRest ==
  ASSUME NEW b, NEW t \in Nat, NEW n \in Nat, NEW m \in Nat, NEW size \in Nat,
         NEW gn, NEW p \in Int,
         Holds(b, t, n, size, gn, p), m <= n, n <= size, t + m <= size
  PROVE  Holds(b, IF t + m = size THEN 0 ELSE t + m, n - m, size, gn, p + m)
  <1> DEFINE u == IF t + m = size THEN 0 ELSE t + m
  <1> SUFFICES ASSUME NEW k \in 0..n - m - 1
               PROVE  b[Cell(u, k, size)] = [gen |-> gn, pos |-> p + m + k]
    BY DEF Holds
  <1>1. m + k \in 0..n - 1 /\ p + (m + k) = p + m + k
    OBVIOUS
  <1>2. Cell(u, k, size) = Cell(t, m + k, size)
    BY <1>1 DEF Cell
  <1>3. b[Cell(t, m + k, size)] = [gen |-> gn, pos |-> p + (m + k)]
    BY <1>1 DEF Holds
  <1> QED BY <1>1, <1>2, <1>3

(* Two runs of cells, the second where the first one ends.                 *)
LEMMA HoldsMore ==
  ASSUME NEW b, NEW t \in Nat, NEW n \in Nat, NEW m \in Nat, NEW size \in Nat,
         NEW h \in Nat, NEW gn, NEW p \in Int,
         Holds(b, t, n, size, gn, p), Holds(b, h, m, size, gn, p + n),
         h = Cell(t, n, size), h + m <= size, n + m <= size
  PROVE  Holds(b, t, n + m, size, gn, p)
  <1> SUFFICES ASSUME NEW k \in 0..n + m - 1
               PROVE  b[Cell(t, k, size)] = [gen |-> gn, pos |-> p + k]
    BY DEF Holds
  <1>1. CASE k < n
    BY <1>1 DEF Holds
  <1>2. CASE k >= n
    <2>1. k - n \in 0..m - 1 /\ p + n + (k - n) = p + k
      BY <1>2
    <2>2. Cell(t, k, size) = Cell(h, k - n, size)
      BY <1>2 DEF Cell
    <2>3. b[Cell(h, k - n, size)] = [gen |-> gn, pos |-> p + n + (k - n)]
      BY <2>1 DEF Holds
    <2> QED BY <2>1, <2>2, <2>3
  <1> QED BY <1>1, <1>2

(* Writing free cells behind a run leaves the run as it is.                *)
LEMMA HoldsStill ==
  ASSUME NEW b, NEW c, NEW t \in Nat, NEW n \in Nat, NEW m \in Nat,
         NEW size \in Nat, NEW h \in Nat, NEW gn, NEW p \in Int,
         Holds(b, t, n, size, gn, p), t = 0 \/ t < size,
         h = Cell(t, n, size), h + m <= size, n + m < size,
         \A i \in 0..size - 1 : i \notin h..h + m - 1 => c[i] = b[i]
  PROVE  Holds(c, t, n, size, gn, p)
  <1> SUFFICES ASSUME NEW k \in 0..n - 1
               PROVE  c[Cell(t, k, size)] = [gen |-> gn, pos |-> p + k]
    BY DEF Holds
  <1>1. /\ Cell(t, k, size) \in 0..size - 1
        /\ Cell(t, k, size) \notin h..h + m - 1
    BY DEF Cell
  <1> QED BY <1>1 DEF Holds

(* Lengths add up.                                                         *)
LEMMA LengthOfBoth ==
  ASSUME NEW S, NEW s \in Seq(S), NEW t \in Seq(S)
  PROVE  Len(s \o t) = Len(s) + Len(t) /\ Len(s) \in Nat
  OBVIOUS

(* The unwritten part fits the fifo with a byte to spare and ends at the   *)
(* head.                                                                   *)
LEMMA UnwrittenFits ==
  ASSUME IInv
  PROVE  /\ head \in Nat /\ tail \in Nat /\ fifosize \in Nat
         /\ Unwritten \in Nat /\ (Unwritten = 0 \/ Unwritten < fifosize)
         /\ tail = 0 \/ tail < fifosize
         /\ head = 0 \/ head < fifosize
         /\ head = Cell(tail, Unwritten, fifosize)
  <1>1. /\ head \in Nat /\ tail \in Nat /\ fifosize \in Nat
        /\ tail = 0 \/ tail < fifosize
        /\ head = 0 \/ head < fifosize
    BY WriteSizesAssumption DEF IInv, TypeOK, FifoInv
  <1> QED BY <1>1 DEF Unwritten, Cell

(* A tick is put in behind the unwritten part, in free cells, and does not *)
(* make a full fifo look empty.                                            *)
LEMMA UnwrittenAfterPut ==
  ASSUME IInv, OpenInv, PerformPuts, gen \notin spoilt'
  PROVE  /\ TickBytes \in Nat \ {0} /\ head + TickBytes <= fifosize
         /\ Unwritten + TickBytes < fifosize
         /\ Unwritten' = Unwritten + TickBytes
  <1>1. /\ TickBytes \in Nat \ {0}
        /\ head \in Nat /\ tail \in Nat /\ fifosize \in Nat
        /\ tail = 0 \/ tail < fifosize
        /\ head = 0 \/ head < fifosize
    BY TickType, UnwrittenFits DEF IInv
  <1>2. /\ ~NoRoom /\ ~FillsUp /\ ~RunsOver /\ gen # 0
        /\ head' = IF head + TickBytes >= fifosize THEN 0 ELSE head + TickBytes
        /\ tail' = tail /\ fifosize' = fifosize
    BY DEF PerformPuts, Performing, OpenInv
  <1>3. head + TickBytes <= fifosize
    <2> SUFFICES ASSUME head + TickBytes > fifosize PROVE FALSE
      BY <1>1
    <2>1. MaxVecSize % vec = 0 /\ fifosize % TickBytes # 0
      BY <1>2 DEF RunsOver
    <2> QED BY <1>2, <2>1, TickDivides DEF IInv, Divides
  <1>4. CASE head >= tail
    <2>1. head < fifosize
      BY <1>1, <1>2, <1>4 DEF NoRoom
    <2>2. ~(tail = 0 /\ head + TickBytes >= fifosize)
      BY <1>1, <1>2, <1>4 DEF NoRoom, FillsUp
    <2> QED BY <1>1, <1>2, <1>3, <1>4, <2>1, <2>2 DEF Unwritten
  <1>5. CASE head < tail
    <2>1. head + TickBytes < tail /\ tail < fifosize
      BY <1>1, <1>2, <1>5 DEF NoRoom
    <2> QED BY <1>1, <1>2, <1>3, <1>5, <2>1 DEF Unwritten
  <1> QED BY <1>1, <1>4, <1>5

(* The tick just put in.                                                   *)
LEMMA HoldsTick ==
  ASSUME IInv, PerformPuts, TickBytes \in Nat \ {0},
         head + TickBytes <= fifosize
  PROVE  /\ Holds(buf', head, TickBytes, fifosize, gen, put)
         /\ \A i \in 0..fifosize - 1 :
              i \notin head..head + TickBytes - 1 => buf'[i] = buf[i]
  <1>1. /\ head \in Nat /\ fifosize \in 0..BufSize /\ put \in Nat
        /\ BufSize \in Nat \ {0} /\ DOMAIN buf = 0..BufSize - 1
    BY WriteSizesAssumption DEF IInv, TypeOK
  <1>2. buf' = [i \in DOMAIN buf |-> IF i \in head..head + TickBytes - 1
                  THEN [gen |-> gen, pos |-> put + (i - head)] ELSE buf[i]]
    BY DEF PerformPuts
  <1>3. \A i \in 0..fifosize - 1 : i \in DOMAIN buf
    BY <1>1
  <1>4. ASSUME NEW k \in 0..TickBytes - 1
        PROVE  buf'[Cell(head, k, fifosize)] = [gen |-> gen, pos |-> put + k]
    <2>1. Cell(head, k, fifosize) = head + k /\ head + k \in 0..fifosize - 1
      BY <1>1 DEF Cell
    <2>2. head + k \in head..head + TickBytes - 1
          /\ put + ((head + k) - head) = put + k
      BY <1>1
    <2> QED BY <1>2, <1>3, <2>1, <2>2
  <1>5. \A i \in 0..fifosize - 1 :
          i \notin head..head + TickBytes - 1 => buf'[i] = buf[i]
    BY <1>2, <1>3
  <1> QED BY <1>4, <1>5 DEF Holds

(* What is written of the file opened last is an integer.                  *)
LEMMA WrittenType ==
  ASSUME IInv
  PROVE  Len(disk[gen]) \in Nat /\ Written \in Int /\ wlen \in Nat
         /\ put \in Nat
  <1>1. disk[gen] \in Seq(Byte) /\ wgot \in Int /\ wlen \in Nat /\ put \in Nat
    BY WriteSizesAssumption DEF IInv, TypeOK
  <1>2. Len(disk[gen]) \in Nat
    BY <1>1
  <1> QED BY <1>1, <1>2 DEF Written

(* ... and which one, without the case distinction.                        *)
LEMMA WrittenIs ==
  ASSUME IInv
  PROVE  /\ cpc # "writedone" => Written = Len(disk[gen])
         /\ cpc = "writedone" /\ wgot \in Nat
              => Written = Len(disk[gen]) - wgot
         /\ wgot = -1 => Written = Len(disk[gen])
  <1> DEFINE n == Len(disk[gen])
  <1>1. /\ n \in Nat
        /\ Written = n - (IF cpc = "writedone" /\ wgot > 0 THEN wgot ELSE 0)
    BY WrittenType DEF Written
  <1> HIDE DEF n
  <1>2. /\ cpc # "writedone" => Written = n
        /\ cpc = "writedone" /\ wgot \in Nat => Written = n - wgot
        /\ wgot = -1 => Written = n
    BY <1>1
  <1> QED BY <1>2 DEF n

(* An error has cost the child its descriptor, or soon will.               *)
LEMMA LiveWrite ==
  ASSUME IInv, OpenInv, FileInv, cpc \in Writing, csf.fd # NoFd
  PROVE  csf.fd = gen /\ Live /\ ~fileerror
  BY DEF OpenInv, FileInv, Live, Writing

(* The bytes a write() returns are counted when the child has looked at    *)
(* its result, and not before.                                             *)
LEMMA WriteKeepsWritten ==
  ASSUME IInv, OpenInv, FileInv, WriteReturns
  PROVE  Written' = Written
  <1>0. cpc = "writing" /\ cpc' = "writedone" /\ UNCHANGED <<gen, wlen, tail>>
    BY DEF WriteReturns, history, fifoVars
  <1>1. ASSUME NEW n \in 0..wlen, csf.fd # NoFd, wgot' = n,
               disk' = [disk EXCEPT ![csf.fd] =
                          disk[csf.fd] \o [i \in 1..n |-> buf[tail + i - 1]]]
        PROVE  Written' = Written
    <2> DEFINE more == [i \in 1..n |-> buf[tail + i - 1]]
               was == Len(disk[gen])
    <2>1. n \in Nat /\ tail + n <= fifosize
      BY <1>0, WriteSizesAssumption DEF IInv, FifoInv, TypeOK, Writing
    <2>2. more \in Seq(Byte) /\ Len(more) = n
      BY <2>1, WrittenBytes DEF IInv
    <2>3. csf.fd = gen
      BY <1>0, <1>1, LiveWrite DEF Writing
    <2>4. disk[gen] \in Seq(Byte) /\ gen \in DOMAIN disk
      BY DEF IInv, TypeOK
    <2>5. disk' = [disk EXCEPT ![csf.fd] = disk[csf.fd] \o more]
      BY <1>1
    <2> HIDE DEF more
    <2>6. disk'[gen] = disk[gen] \o more
      BY <2>3, <2>4, <2>5
    <2>7. Len(disk'[gen]) = was + n /\ was \in Nat
      BY <2>2, <2>4, <2>6, LengthOfBoth
    <2>8. Written = was
      BY <1>0, WrittenIs
    <2>9. Written' = Len(disk'[gen]) - (IF n > 0 THEN n ELSE 0)
      BY <1>0, <1>1 DEF Written
    <2> HIDE DEF was
    <2> QED BY <2>1, <2>7, <2>8, <2>9
  <1>2. CASE wgot' = -1 /\ UNCHANGED disk
    BY <1>0, <1>2, WrittenType DEF Written
  <1> QED BY <1>1, <1>2 DEF WriteReturns

(* What a write that arrives adds.                                         *)
LEMMA WrittenAfterWrite ==
  ASSUME IInv, WriteArrives
  PROVE  Written' = Written + wlen
  <1>1. /\ cpc = "writedone" /\ cpc' = "loop" /\ wgot = wlen
        /\ UNCHANGED <<gen, disk>>
    BY DEF WriteArrives, history, fileVars
  <1>2. Len(disk[gen]) \in Nat /\ wlen \in Nat
    BY WrittenType
  <1>3. Written' = Len(disk[gen])
    BY <1>1 DEF Written
  <1>4. Written = Len(disk[gen]) - wlen
    BY <1>1, <1>2, WrittenIs
  <1> QED BY <1>2, <1>3, <1>4

(* Nothing spoilt is ever mended, and only an open starts a new recording. *)
LEMMA SpoiltGrows ==
  [Next]_vars => /\ spoilt \subseteq spoilt'
                 /\ gen' = gen \/ \E bpf \in Bpfs : OpenGoesOn(bpf)
  BY DEF Next, vars, Child, WritesfPerform, Opening, fifoVars, writeVars,
     fileVars, history, ChildIdles, ChildTakesOpen, ChildFailsToCreate,
     ChildCreates, LoopEnds, LoopWaits, LoopWrites, WriteReturns,
     WriteOvertaken, WriteFails, WriteArrives, ChildBailsOut,
     ChildTakesClose, ChildFinishes, ChildWakes, PerformWaits, PerformGivesUp,
     PerformPuts, OpenWaits, OpenGoesOn, WritesfOpen, WritesfStart, WritesfStop,
     Stops, WritesfDsp, WritesfFree, FreeResumes, FreeJoins

(* Every byte put in is in the fifo until it is written.                   *)
LEMMA PlaceStep == IInv /\ InputInv /\ [Next]_vars => PlaceInv'
  <1> SUFFICES ASSUME IInv, OpenInv, FileInv, PlaceInv, [Next]_vars,
                      Live', ~fileerror', gen' \notin spoilt'
               PROVE  PlaceInv'
    BY DEF PlaceInv, InputInv
  <1>a. FileInv' /\ OpenInv'
    BY FileStep, OpenStep
  <1>b. gen' = gen => gen \notin spoilt /\ gen \notin spoilt'
    BY SpoiltGrows
  <1> USE DEF PlaceInv, Live, Unwritten, Written, NoFd, Idling, Freeing,
      Writing, Looping, Openers, fifoVars, writeVars, fileVars, history
  <1>1. CASE ChildIdles
    BY <1>1 DEF ChildIdles, AnswerSignalled
  <1>2. CASE ChildTakesOpen
    BY <1>2 DEF ChildTakesOpen, FileInv
  <1>3. CASE ChildFailsToCreate
    BY <1>3 DEF ChildFailsToCreate, Bail, AnswerSignalled
  <1>4. CASE ChildCreates
    <2>1. /\ request = "BUSY" /\ ~fileerror /\ cgen = gen /\ tail = 0
          /\ tail' = 0
          /\ disk[gen] = <<>> /\ cpc' = "loop" /\ cpc = "creating"
          /\ UNCHANGED <<head, fifosize, buf, put, gen>>
      BY <1>4 DEF ChildCreates, OpenInv, FileInv, IInv, FdInv
    <2>2. disk'[gen] = <<>>
      BY <1>4, <2>1 DEF ChildCreates, IInv, TypeOK
    <2> QED BY <1>b, <2>1, <2>2
  <1>5. CASE LoopEnds
    BY <1>5 DEF LoopEnds, LoopGoesOn
  <1>6. CASE LoopWaits
    BY <1>6 DEF LoopWaits, AnswerSignalled, LoopGoesOn
  <1>7. CASE LoopWrites
    <2>1. /\ wlen' = WriteBytes /\ WorthWriting /\ cpc = "loop"
          /\ cpc' = "writing"
          /\ UNCHANGED <<xsf, request, fileerror, put, tail, head, fifosize,
                         buf, gen, disk>>
          /\ request \in {"BUSY", "CLOSE"}
      BY <1>7 DEF LoopWrites, LoopGoesOn
    <2>2. WriteSize \in Nat \ {0}
      BY WriteSizesAssumption
    <2>3. WriteBytes <= Unwritten
      BY <2>1, <2>2, UnwrittenFits DEF WriteBytes, MinOf, WorthWriting
    <2> QED BY <1>b, <2>1, <2>3
  <1>8. CASE WriteReturns
    <2>1. /\ cpc = "writing" /\ cpc' = "writedone" /\ wlen' = wlen
          /\ UNCHANGED <<xsf, request, fileerror, put, tail, head, fifosize,
                         buf, gen>>
      BY <1>8 DEF WriteReturns
    <2>2. Live /\ ~fileerror /\ gen \notin spoilt /\ gen \notin spoilt'
      BY <1>b, <2>1
    <2> HIDE DEF Live
    <2>3. Written' = Written
      BY <1>8, WriteKeepsWritten
    <2> HIDE DEF Written
    <2> QED BY <2>1, <2>2, <2>3
  <1>9. CASE WriteOvertaken
    <2>1. request = "QUIT"
      BY <1>9 DEF WriteOvertaken, IInv, ParentInv
    <2> QED BY <1>9, <2>1 DEF WriteOvertaken
  <1>10. CASE WriteFails
    BY <1>10 DEF WriteFails, Bail, AnswerSignalled
  <1>11. CASE WriteArrives
    <2>1. /\ cpc = "writedone" /\ cpc' = "loop" /\ wgot = wlen
          /\ UNCHANGED <<xsf, request, fileerror, put, head, fifosize, buf,
                         gen, disk>>
          /\ tail' = IF tail + wgot = fifosize THEN 0 ELSE tail + wgot
      BY <1>11 DEF WriteArrives, TailAfterWrite
    <2>2. Live /\ ~fileerror /\ gen \notin spoilt /\ gen \notin spoilt'
      BY <1>b, <2>1
    <2> HIDE DEF Live
    <2>3. wlen \in Nat /\ tail + wlen <= fifosize /\ wlen <= Unwritten
      BY <2>1, <2>2, WrittenType DEF IInv, FifoInv
    <2>4. Written' = Written + wlen /\ Written \in Int
      BY <1>11, WrittenAfterWrite, WrittenType
    <2>5. Unwritten' = Unwritten - wlen
      BY <2>1, <2>3, UnwrittenFits
    <2>6. Holds(buf, tail', Unwritten - wlen, fifosize, gen, Written + wlen)
      <3> HIDE DEF Written, Unwritten
      <3>1. Unwritten \in Nat /\ Unwritten <= fifosize /\ tail \in Nat
            /\ fifosize \in Nat
        BY UnwrittenFits
      <3>2. Holds(buf, tail, Unwritten, fifosize, gen, Written)
        BY <2>2
      <3> QED BY <2>1, <2>3, <2>4, <3>1, <3>2, HoldsRest
    <2>7. put = Written + Unwritten /\ put \in Nat /\ Unwritten \in Nat
      BY <2>2, WrittenType, UnwrittenFits
    <2> HIDE DEF Written, Unwritten
    <2> QED BY <2>1, <2>3, <2>4, <2>5, <2>6, <2>7
  <1>12. CASE ChildBailsOut
    BY <1>12 DEF ChildBailsOut, BailCloses, AnswerSignalled
  <1>13. CASE ChildTakesClose
    BY <1>13 DEF ChildTakesClose, Acknowledge, AnswerSignalled, IInv, ParentInv
  <1>14. CASE ChildFinishes
    BY <1>14 DEF ChildFinishes, Acknowledge, AnswerSignalled, CloseFile
  <1>15. CASE ChildWakes
    BY <1>15 DEF ChildWakes
  <1>16. CASE PerformWaits
    BY <1>16 DEF PerformWaits, Performing, RequestSignalled
  <1>17. CASE PerformGivesUp
    BY <1>17 DEF PerformGivesUp, Performing, RequestSignalled
  <1>18. CASE PerformPuts
    <2>1. /\ cpc' = cpc \/ (cpc = "topwait" /\ cpc' = "topwake")
               \/ (cpc = "loopwait" /\ cpc' = "loopwake")
          /\ UNCHANGED <<xsf, request, quitting, fileerror, tail, fifosize,
                         gen, disk, wgot, wlen>>
          /\ put' = put + TickBytes
      BY <1>18 DEF PerformPuts, Performing, RequestSignalled
    <2>2. Live /\ ~fileerror /\ gen \notin spoilt /\ gen \notin spoilt'
      BY <1>b, <2>1
    <2>3. Written' = Written
      BY <2>1
    <2> HIDE DEF Live, Written, Unwritten, TickBytes
    <2>4. /\ TickBytes \in Nat \ {0} /\ head + TickBytes <= fifosize
          /\ Unwritten + TickBytes < fifosize
          /\ Unwritten' = Unwritten + TickBytes
      BY <1>18, <2>2, UnwrittenAfterPut
    <2>5. /\ put = Written + Unwritten
          /\ Holds(buf, tail, Unwritten, fifosize, gen, Written)
          /\ cpc \in Writing => wlen <= Unwritten
      BY <2>2
    <2>6. /\ Holds(buf', head, TickBytes, fifosize, gen, put)
          /\ \A i \in 0..fifosize - 1 :
               i \notin head..head + TickBytes - 1 => buf'[i] = buf[i]
      BY <1>18, <2>4, HoldsTick
    <2>7. /\ head \in Nat /\ tail \in Nat /\ fifosize \in Nat
          /\ Unwritten \in Nat
          /\ tail = 0 \/ tail < fifosize
          /\ head = Cell(tail, Unwritten, fifosize)
          /\ Written \in Int /\ wlen \in Nat
      BY UnwrittenFits, WrittenType
    <2>8. Holds(buf', tail, Unwritten, fifosize, gen, Written)
      BY <2>4, <2>5, <2>6, <2>7, HoldsStill
    <2>9. Holds(buf', tail, Unwritten + TickBytes, fifosize, gen, Written)
      BY <2>4, <2>5, <2>6, <2>7, <2>8, HoldsMore
    <2>10. put' = Written + (Unwritten + TickBytes)
      BY <2>1, <2>4, <2>5, <2>7
    <2>11. cpc' \in Writing => wlen <= Unwritten + TickBytes
      BY <2>1, <2>4, <2>5, <2>7
    <2> QED BY <2>1, <2>3, <2>4, <2>9, <2>10, <2>11
  <1>19. CASE OpenWaits
    BY <1>19 DEF OpenWaits, RequestSignalled
  <1>20. CASE WritesfOpen
    <2>1. Live \/ fileerror
      BY <1>20 DEF WritesfOpen, Stops, IInv, TypeOK, FdInv, ParentInv, OpenInv,
         FileInv, MutexFree, Holding, ChildPCs
    <2> QED BY <1>20, <2>1 DEF WritesfOpen, Stops, RequestSignalled
  <1>21. CASE WritesfStart
    BY <1>21 DEF WritesfStart
  <1>22. CASE WritesfStop
    <2>1. Live \/ fileerror
      BY <1>22 DEF WritesfStop, Stops, IInv, TypeOK, FdInv, ParentInv, OpenInv,
         FileInv, MutexFree, Holding, ChildPCs
    <2> QED BY <1>22, <2>1 DEF WritesfStop, Stops, RequestSignalled
  <1>23. CASE WritesfFree
    BY <1>23 DEF WritesfFree, RequestSignalled
  <1>24. CASE FreeResumes
    BY <1>24 DEF FreeResumes, RequestSignalled
  <1>25. CASE FreeJoins
    BY <1>25 DEF FreeJoins
  <1>26. ASSUME NEW bpf \in Bpfs, OpenGoesOn(bpf) PROVE PlaceInv'
    <2>1. request' = "OPEN" /\ put' = 0 /\ head' = 0 /\ tail' = 0
      BY <1>26 DEF OpenGoesOn
    <2>2. disk'[gen'] = <<>>
      BY <1>a, <2>1 DEF FileInv
    <2>3. cpc' \notin Writing
      BY <1>a, <2>1 DEF OpenInv
    <2>4. Written' = 0 /\ Unwritten' = 0
      BY <2>1, <2>2, <2>3
    <2> HIDE DEF Written, Unwritten
    <2> QED BY <2>1, <2>3, <2>4, HoldsNone
  <1>27. ASSUME NEW v \in VecSizes, WritesfDsp(v) PROVE PlaceInv'
    BY <1>27 DEF WritesfDsp
  <1>28. CASE UNCHANGED vars
    BY <1>28 DEF vars
  <1> QED
    BY <1>1, <1>2, <1>3, <1>4, <1>5, <1>6, <1>7, <1>8, <1>9, <1>10,
       <1>11, <1>12, <1>13, <1>14, <1>15, <1>16, <1>17, <1>18, <1>19, <1>20,
       <1>21, <1>22, <1>23, <1>24, <1>25, <1>26, <1>27, <1>28
       DEF Next, Child, WritesfPerform, Opening

(* What is put in is put behind what is there, or over the last lap.       *)
LEMMA LapStep == IInv /\ OpenInv /\ LapInv /\ [Next]_vars => LapInv'
  <1> SUFFICES ASSUME IInv, OpenInv, LapInv, [Next]_vars PROVE LapInv'
    OBVIOUS
  <1>a. /\ put \in Nat /\ wlen \in Nat /\ WriteSize \in Nat
        /\ head \in Nat /\ tail \in Nat /\ fifosize \in Nat
    BY WriteSizesAssumption, WrittenType, UnwrittenFits
  <1> USE DEF LapInv, Writing, fifoVars, writeVars, fileVars, history
  <1>1. CASE ChildIdles
    BY <1>1 DEF ChildIdles
  <1>2. CASE ChildTakesOpen
    BY <1>2 DEF ChildTakesOpen
  <1>3. CASE ChildFailsToCreate
    BY <1>3 DEF ChildFailsToCreate, Bail
  <1>4. CASE ChildCreates
    <2>1. /\ UNCHANGED <<put, fifosize, head, buf, gen>>
          /\ tail' = tail \/ tail' = 0
          /\ cpc' \notin Writing
      BY <1>4 DEF ChildCreates
    <2> QED BY <1>a, <2>1
  <1>5. CASE LoopEnds
    BY <1>5 DEF LoopEnds
  <1>6. CASE LoopWaits
    BY <1>6 DEF LoopWaits
  <1>7. CASE LoopWrites
    <2>1. /\ UNCHANGED <<put, fifosize, head, tail, buf, gen>>
          /\ wlen' = WriteBytes
      BY <1>7 DEF LoopWrites
    <2>2. put < fifosize => tail + WriteBytes <= put
      BY <1>a DEF WriteBytes, MinOf
    <2> QED BY <2>1, <2>2
  <1>8. CASE WriteReturns
    BY <1>8 DEF WriteReturns
  <1>9. CASE WriteOvertaken
    BY <1>9 DEF WriteOvertaken
  <1>10. CASE WriteFails
    BY <1>10 DEF WriteFails, Bail
  <1>11. CASE WriteArrives
    <2>1. /\ UNCHANGED <<put, fifosize, head, buf, gen>>
          /\ tail' = IF tail + wlen = fifosize THEN 0 ELSE tail + wlen
          /\ cpc = "writedone" /\ cpc' = "loop"
      BY <1>11 DEF WriteArrives, TailAfterWrite
    <2> QED BY <1>a, <2>1
  <1>12. CASE ChildBailsOut
    BY <1>12 DEF ChildBailsOut
  <1>13. CASE ChildTakesClose
    BY <1>13 DEF ChildTakesClose, Acknowledge
  <1>14. CASE ChildFinishes
    BY <1>14 DEF ChildFinishes, Acknowledge
  <1>15. CASE ChildWakes
    BY <1>15 DEF ChildWakes
  <1>16. CASE PerformWaits
    BY <1>16 DEF PerformWaits, RequestSignalled
  <1>17. CASE PerformGivesUp
    BY <1>17 DEF PerformGivesUp, RequestSignalled
  <1>18. CASE PerformPuts
    <2>1. /\ UNCHANGED <<tail, fifosize, gen, wlen>>
          /\ put' = put + TickBytes
          /\ head' = IF head + TickBytes >= fifosize THEN 0
                     ELSE head + TickBytes
          /\ cpc' \in Writing => cpc \in Writing
      BY <1>18 DEF PerformPuts, RequestSignalled
    <2>2. TickBytes \in Nat \ {0}
      BY TickType DEF IInv
    <2>3. ASSUME put' < fifosize'
          PROVE  /\ head' = put' /\ tail' <= put'
                 /\ cpc' \in Writing => tail' + wlen' <= put'
      <3>1. put < fifosize
        BY <1>a, <2>1, <2>2, <2>3
      <3> QED BY <1>a, <2>1, <2>2, <2>3, <3>1
    <2>4. ASSUME NEW i \in 0..fifosize - 1, i < put + TickBytes
          PROVE  buf'[i].gen = gen
      <3>1. i \in DOMAIN buf /\ i \in Int
        BY <1>a, WriteSizesAssumption DEF IInv, TypeOK
      <3>2. buf'[i] = IF i \in head..head + TickBytes - 1
                        THEN [gen |-> gen, pos |-> put + (i - head)]
                        ELSE buf[i]
        BY <1>18, <3>1 DEF PerformPuts
      <3>3. i \in head..head + TickBytes - 1 \/ i < put
        BY <1>a, <2>2, <2>4
      <3> QED BY <3>2, <3>3
    <2> QED BY <2>1, <2>3, <2>4
  <1>19. CASE OpenWaits
    BY <1>19 DEF OpenWaits, RequestSignalled
  <1>20. CASE WritesfOpen
    BY <1>20 DEF WritesfOpen, Stops, RequestSignalled
  <1>21. CASE WritesfStart
    BY <1>21 DEF WritesfStart
  <1>22. CASE WritesfStop
    BY <1>22 DEF WritesfStop, Stops, RequestSignalled
  <1>23. CASE WritesfFree
    BY <1>23 DEF WritesfFree, RequestSignalled
  <1>24. CASE FreeResumes
    BY <1>24 DEF FreeResumes, RequestSignalled
  <1>25. CASE FreeJoins
    BY <1>25 DEF FreeJoins
  <1>26. ASSUME NEW bpf \in Bpfs, OpenGoesOn(bpf) PROVE LapInv'
    <2>1. /\ request' = "OPEN" /\ put' = 0 /\ head' = 0 /\ tail' = 0
      BY <1>26 DEF OpenGoesOn
    <2>2. cpc' \notin Writing
      BY <2>1, OpenStep DEF OpenInv, Idling
    <2> QED BY <2>1, <2>2
  <1>27. ASSUME NEW v \in VecSizes, WritesfDsp(v) PROVE LapInv'
    BY <1>27 DEF WritesfDsp
  <1>28. CASE UNCHANGED vars
    BY <1>28 DEF vars
  <1> QED
    BY <1>1, <1>2, <1>3, <1>4, <1>5, <1>6, <1>7, <1>8, <1>9, <1>10,
       <1>11, <1>12, <1>13, <1>14, <1>15, <1>16, <1>17, <1>18, <1>19, <1>20,
       <1>21, <1>22, <1>23, <1>24, <1>25, <1>26, <1>27, <1>28
       DEF Next, Child, WritesfPerform, Opening

(* Nothing but an open and a write changes a file.                         *)
LEMMA OnlyWritesChangeFiles ==
  [Next]_vars => disk' = disk \/ ChildCreates \/ WriteReturns
  BY DEF Next, vars, Child, WritesfPerform, Opening, fifoVars, writeVars,
     fileVars,
     history, ChildIdles, ChildTakesOpen, ChildFailsToCreate, LoopEnds,
     LoopWaits,
     LoopWrites, WriteOvertaken, WriteFails, WriteArrives, ChildBailsOut,
     ChildTakesClose, ChildFinishes, ChildWakes, PerformWaits, PerformGivesUp,
     PerformPuts, OpenWaits, OpenGoesOn, WritesfOpen, WritesfStart, WritesfStop,
     Stops, WritesfDsp, WritesfFree, FreeResumes, FreeJoins

(* The elements of two sequences put together.                             *)
LEMMA ElementsOfBoth ==
  ASSUME NEW S, NEW s \in Seq(S), NEW t \in Seq(S),
         NEW i \in 1..Len(s) + Len(t)
  PROVE  (s \o t)[i] = IF i <= Len(s) THEN s[i] ELSE t[i - Len(s)]
  OBVIOUS

(* A write adds to its file the bytes that come next.                      *)
LEMMA WriteKeepsPrefix ==
  ASSUME IInv, InputInv, FileIsPrefix, WriteReturns
  PROVE  FileIsPrefix'
  <1>1. /\ cpc = "writing" /\ csf = xsf /\ spoilt' = spoilt
        /\ OpenInv /\ FileInv /\ PlaceInv /\ LapInv
    BY DEF WriteReturns, InputInv, OpenInv, Writing, history
  <1>2. ASSUME NEW n \in 0..wlen, csf.fd # NoFd,
               disk' = [disk EXCEPT ![csf.fd] =
                          disk[csf.fd] \o [i \in 1..n |-> buf[tail + i - 1]]]
        PROVE  FileIsPrefix'
    <2> DEFINE more == [i \in 1..n |-> buf[tail + i - 1]]
               was == disk[gen]
    <2>1. csf.fd = gen /\ Live /\ ~fileerror
      BY <1>1, <1>2, LiveWrite DEF Writing
    <2>2. wlen \in Nat /\ tail + wlen <= fifosize /\ Written = Len(was)
          /\ put \in Nat
      BY <1>1, WrittenType, WrittenIs DEF IInv, FifoInv, Writing
    <2>3. n \in Nat /\ tail + n <= fifosize
          /\ Unwritten \in Nat /\ tail \in Nat /\ fifosize \in Nat
      BY <2>2, UnwrittenFits
    <2>4. more \in Seq(Byte) /\ Len(more) = n
      BY <2>3, WrittenBytes DEF IInv
    <2>5. was \in Seq(Byte) /\ Len(was) \in Nat /\ gen \in Gens
          /\ DOMAIN disk = Gens
      BY WrittenType DEF IInv, TypeOK
    <2>6. disk' = [disk EXCEPT ![gen] = was \o more]
      BY <1>2, <2>1
    <2>7. ASSUME NEW k \in 0..n - 1
          PROVE  /\ more[k + 1].gen = gen
                 /\ gen \notin spoilt => more[k + 1].pos = Len(was) + k
      <3>1. more[k + 1] = buf[tail + (k + 1) - 1]
            /\ tail + (k + 1) - 1 = tail + k
        BY <2>3
      <3>2. tail + k \in 0..fifosize - 1 /\ tail + k < put
        BY <1>1, <2>2, <2>3 DEF LapInv, Writing
      <3>3. ASSUME gen \notin spoilt
            PROVE  buf[tail + k] = [gen |-> gen, pos |-> Len(was) + k]
        <4>1. wlen <= Unwritten
              /\ Holds(buf, tail, Unwritten, fifosize, gen, Written)
          BY <1>1, <2>1, <3>3 DEF PlaceInv, Writing
        <4>2. Cell(tail, k, fifosize) = tail + k /\ k \in 0..Unwritten - 1
          BY <2>2, <2>3, <4>1 DEF Cell
        <4> QED BY <2>2, <4>1, <4>2 DEF Holds
      <3> QED BY <1>1, <3>1, <3>2, <3>3 DEF LapInv
    <2> HIDE DEF more
    <2>8. ASSUME NEW i \in 1..Len(was \o more)
          PROVE  /\ (was \o more)[i].gen = gen
                 /\ gen \notin spoilt => (was \o more)[i].pos = i - 1
      <3>1. i \in 1..Len(was) + Len(more)
        BY <2>4, <2>5, LengthOfBoth
      <3>2. CASE i <= Len(was)
        <4>1. i \in 1..Len(was)
          BY <2>5, <3>1, <3>2
        <4>2. was[i].gen = gen /\ (gen \notin spoilt => was[i].pos = i - 1)
          BY <2>5, <4>1 DEF FileIsPrefix
        <4> QED BY <2>4, <2>5, <3>1, <3>2, <4>2, ElementsOfBoth
      <3>3. CASE i > Len(was)
        <4>1. PICK k \in 0..n - 1 : i = Len(was) + (k + 1)
          <5>1. i - Len(was) - 1 \in 0..n - 1
                /\ i = Len(was) + ((i - Len(was) - 1) + 1)
            BY <2>3, <2>4, <2>5, <3>1, <3>3
          <5> QED BY <5>1
        <4>2. /\ more[k + 1].gen = gen
              /\ gen \notin spoilt => more[k + 1].pos = i - 1
          BY <2>5, <2>7, <4>1
        <4>3. (was \o more)[i] = more[i - Len(was)] /\ i - Len(was) = k + 1
          BY <2>4, <2>5, <3>1, <3>3, <4>1, ElementsOfBoth
        <4> QED BY <4>2, <4>3
      <3> QED BY <2>5, <3>1, <3>2, <3>3
    <2> HIDE DEF was
    <2>9. \A g \in Gens : disk'[g] = IF g = gen THEN was \o more ELSE disk[g]
      BY <2>5, <2>6
    <2>10. ASSUME NEW g \in Gens, NEW i \in 1..Len(disk'[g])
           PROVE  /\ disk'[g][i].gen = g
                  /\ g \notin spoilt => disk'[g][i].pos = i - 1
      <3>1. CASE g = gen
        <4>1. disk'[g] = was \o more
          BY <2>9, <3>1
        <4> QED BY <2>8, <3>1, <4>1
      <3>2. CASE g # gen
        <4>1. disk'[g] = disk[g]
          BY <2>9, <3>2
        <4> QED BY <4>1 DEF FileIsPrefix
      <3> QED BY <3>1, <3>2
    <2> QED BY <1>1, <2>10 DEF FileIsPrefix
  <1>3. CASE disk' = disk
    BY <1>1, <1>3 DEF FileIsPrefix
  <1> QED BY <1>2, <1>3 DEF WriteReturns

(* A file never has bytes meant for another file, and no gap or repeat     *)
(* unless it is spoilt.                                                    *)
LEMMA PrefixStep ==
  IInv /\ InputInv /\ FileIsPrefix /\ [Next]_vars => FileIsPrefix'
  <1> SUFFICES ASSUME IInv, InputInv, FileIsPrefix, [Next]_vars
               PROVE  FileIsPrefix'
    OBVIOUS
  <1>0. spoilt \subseteq spoilt'
    BY SpoiltGrows
  <1>1. CASE disk' = disk
    BY <1>0, <1>1 DEF FileIsPrefix
  <1>2. CASE ChildCreates
    <2>1. \A g \in Gens : disk'[g] = disk[g] \/ disk'[g] = <<>>
      BY <1>2 DEF ChildCreates, IInv, TypeOK
    <2>2. ASSUME NEW g \in Gens, NEW i \in 1..Len(disk'[g])
          PROVE  /\ disk'[g][i].gen = g
                 /\ g \notin spoilt' => disk'[g][i].pos = i - 1
      <3>1. CASE disk'[g] = disk[g]
        BY <1>0, <3>1 DEF FileIsPrefix
      <3>2. CASE disk'[g] = <<>>
        BY <3>2
      <3> QED BY <2>1, <3>1, <3>2
    <2> QED BY <2>2 DEF FileIsPrefix
  <1>3. CASE WriteReturns
    BY <1>3, WriteKeepsPrefix
  <1> QED BY <1>1, <1>2, <1>3, OnlyWritesChangeFiles

(* Where the descriptors are.                                              *)
LEMMA LeakStep == IInv /\ OpenInv /\ LeakInv /\ [Next]_vars => LeakInv'
  <1> SUFFICES ASSUME IInv, OpenInv, LeakInv, [Next]_vars PROVE LeakInv'
    OBVIOUS
  <1> USE DEF LeakInv, Overtaking, NoFd, fifoVars, writeVars, fileVars, history
  <1>1. CASE ChildIdles
    BY <1>1 DEF ChildIdles, IInv, FdInv, Looping
  <1>2. CASE ChildTakesOpen
    BY <1>2 DEF ChildTakesOpen
  <1>3. CASE ChildFailsToCreate
    <2>1. csf.fd = NoFd /\ xsf'.fd = NoFd
      BY <1>3 DEF ChildFailsToCreate, IInv, FdInv, TypeOK, Sf
    <2> QED BY <1>3, <2>1 DEF ChildFailsToCreate, Bail
  <1>4. CASE ChildCreates
    <2>1. /\ csf.fd = NoFd /\ xsf.fd = NoFd /\ cgen = gen /\ csf'.fd = cgen
          /\ cgen # NoFd
          /\ request \in {"BUSY", "CLOSE", "QUIT"}
      BY <1>4 DEF ChildCreates, IInv, FdInv, ParentInv, OpenInv, Idling, TypeOK,
         Sf
    <2> QED BY <1>4, <2>1 DEF ChildCreates
  <1>5. CASE LoopEnds
    BY <1>5 DEF LoopEnds
  <1>6. CASE LoopWaits
    BY <1>6 DEF LoopWaits
  <1>7. CASE LoopWrites
    BY <1>7 DEF LoopWrites
  <1>8. CASE WriteReturns
    BY <1>8 DEF WriteReturns
  <1>9. CASE WriteOvertaken
    BY <1>9 DEF WriteOvertaken
  <1>10. CASE WriteFails
    BY <1>10 DEF WriteFails, Bail
  <1>11. CASE WriteArrives
    BY <1>11 DEF WriteArrives
  <1>12. CASE ChildBailsOut
    <2>1. csf'.fd = NoFd /\ xsf'.fd = NoFd
      BY <1>12 DEF ChildBailsOut, IInv, TypeOK, Sf
    <2> QED BY <1>12, <2>1 DEF ChildBailsOut, BailCloses
  <1>13. CASE ChildTakesClose
    <2>1. CASE csf.fd # NoFd
      BY <1>13, <2>1 DEF ChildTakesClose
    <2>2. CASE csf.fd = NoFd
      BY <1>13, <2>2 DEF ChildTakesClose, Acknowledge
    <2> QED BY <2>1, <2>2
  <1>14. CASE ChildFinishes
    <2>1. csf'.fd = NoFd /\ xsf'.fd = NoFd
      BY <1>14 DEF ChildFinishes, CloseFile, IInv, TypeOK, Sf
    <2> QED BY <1>14, <2>1 DEF ChildFinishes, CloseFile
  <1>15. CASE ChildWakes
    BY <1>15 DEF ChildWakes
  <1>16. CASE PerformWaits
    BY <1>16 DEF PerformWaits, Performing, MutexFree, Holding, RequestSignalled
  <1>17. CASE PerformGivesUp
    BY <1>17 DEF PerformGivesUp, Performing, MutexFree, Holding,
       RequestSignalled
  <1>18. CASE PerformPuts
    BY <1>18 DEF PerformPuts, Performing, MutexFree, Holding, RequestSignalled
  <1>19. CASE OpenWaits
    BY <1>19 DEF OpenWaits, MutexFree, Holding, RequestSignalled
  <1>20. CASE WritesfOpen
    BY <1>20 DEF WritesfOpen, Stops, MutexFree, Holding, RequestSignalled
  <1>21. CASE WritesfStart
    BY <1>21 DEF WritesfStart
  <1>22. CASE WritesfStop
    BY <1>22 DEF WritesfStop, Stops, MutexFree, Holding, RequestSignalled
  <1>23. CASE WritesfFree
    BY <1>23 DEF WritesfFree, MutexFree, Holding, RequestSignalled
  <1>24. CASE FreeResumes
    BY <1>24 DEF FreeResumes, MutexFree, Holding, RequestSignalled
  <1>25. CASE FreeJoins
    BY <1>25 DEF FreeJoins
  <1>26. ASSUME NEW bpf \in Bpfs, OpenGoesOn(bpf) PROVE LeakInv'
    <2>1. xsf'.fd = xsf.fd
      BY <1>26 DEF OpenGoesOn, IInv, TypeOK, Sf
    <2> QED BY <1>26, <2>1 DEF OpenGoesOn, MutexFree, Holding, RequestSignalled
  <1>27. ASSUME NEW v \in VecSizes, WritesfDsp(v) PROVE LeakInv'
    BY <1>27 DEF WritesfDsp
  <1>28. CASE UNCHANGED vars
    BY <1>28 DEF vars
  <1> QED
    BY <1>1, <1>2, <1>3, <1>4, <1>5, <1>6, <1>7, <1>8, <1>9, <1>10,
       <1>11, <1>12, <1>13, <1>14, <1>15, <1>16, <1>17, <1>18, <1>19, <1>20,
       <1>21, <1>22, <1>23, <1>24, <1>25, <1>26, <1>27, <1>28
       DEF Next, Child, WritesfPerform, Opening

(* A CLOSE is not taken before the fifo is empty.                          *)
LEMMA EndStep ==
  IInv /\ OpenInv /\ LeakInv /\ EndInv /\ [Next]_vars => EndInv'
  <1> SUFFICES ASSUME IInv, OpenInv, LeakInv, EndInv, [Next]_vars
               PROVE  EndInv'
    OBVIOUS
  <1> USE DEF EndInv, NoFd, Idling, Freeing, Writing, Looping, Openers,
      fifoVars, writeVars, fileVars, history
  <1>1. CASE ChildIdles
    BY <1>1 DEF ChildIdles, AnswerSignalled
  <1>2. CASE ChildTakesOpen
    BY <1>2 DEF ChildTakesOpen, IInv, FdInv, ParentInv, OpenInv
  <1>3. CASE ChildFailsToCreate
    BY <1>3 DEF ChildFailsToCreate, Bail, AnswerSignalled
  <1>4. CASE ChildCreates
    BY <1>4 DEF ChildCreates, IInv, FdInv, ParentInv, OpenInv
  <1>5. CASE LoopEnds
    BY <1>5 DEF LoopEnds, LoopGoesOn
  <1>6. CASE LoopWaits
    BY <1>6 DEF LoopWaits, AnswerSignalled, LoopGoesOn
  <1>7. CASE LoopWrites
    BY <1>7 DEF LoopWrites, LoopGoesOn, WorthWriting
  <1>8. CASE WriteReturns
    BY <1>8 DEF WriteReturns
  <1>9. CASE WriteOvertaken
    BY <1>9 DEF WriteOvertaken, IInv, FdInv, ParentInv, OpenInv
  <1>10. CASE WriteFails
    BY <1>10 DEF WriteFails, Bail, AnswerSignalled
  <1>11. CASE WriteArrives
    BY <1>11 DEF WriteArrives, AnswerSignalled
  <1>12. CASE ChildBailsOut
    BY <1>12 DEF ChildBailsOut, BailCloses, AnswerSignalled
  <1>13. CASE ChildTakesClose
    BY <1>13 DEF ChildTakesClose, Acknowledge, AnswerSignalled, IInv, FdInv,
       ParentInv, OpenInv, LeakInv, Overtaking
  <1>14. CASE ChildFinishes
    BY <1>14 DEF ChildFinishes, Acknowledge, AnswerSignalled, CloseFile
  <1>15. CASE ChildWakes
    BY <1>15 DEF ChildWakes, IInv, FdInv, ParentInv, OpenInv
  <1>16. CASE PerformWaits
    BY <1>16 DEF PerformWaits, Performing, RequestSignalled
  <1>17. CASE PerformGivesUp
    BY <1>17 DEF PerformGivesUp, Performing, RequestSignalled
  <1>18. CASE PerformPuts
    BY <1>18 DEF PerformPuts, Performing, RequestSignalled, IInv, FdInv,
       ParentInv, OpenInv
  <1>19. CASE OpenWaits
    BY <1>19 DEF OpenWaits, RequestSignalled
  <1>20. CASE WritesfOpen
    BY <1>20 DEF WritesfOpen, Stops, RequestSignalled, MutexFree, Holding
  <1>21. CASE WritesfStart
    BY <1>21 DEF WritesfStart
  <1>22. CASE WritesfStop
    BY <1>22 DEF WritesfStop, Stops, RequestSignalled, MutexFree, Holding
  <1>23. CASE WritesfFree
    BY <1>23 DEF WritesfFree, RequestSignalled, MutexFree, Holding
  <1>24. CASE FreeResumes
    BY <1>24 DEF FreeResumes, RequestSignalled
  <1>25. CASE FreeJoins
    BY <1>25 DEF FreeJoins
  <1>26. ASSUME NEW bpf \in Bpfs, OpenGoesOn(bpf) PROVE EndInv'
    BY <1>26 DEF OpenGoesOn, RequestSignalled, OpenMayProceed, IInv,
       ParentInv, TypeOK, Sf
  <1>27. ASSUME NEW v \in VecSizes, WritesfDsp(v) PROVE EndInv'
    BY <1>27 DEF WritesfDsp
  <1>28. CASE UNCHANGED vars
    BY <1>28 DEF vars
  <1> QED
    BY <1>1, <1>2, <1>3, <1>4, <1>5, <1>6, <1>7, <1>8, <1>9, <1>10,
       <1>11, <1>12, <1>13, <1>14, <1>15, <1>16, <1>17, <1>18, <1>19, <1>20,
       <1>21, <1>22, <1>23, <1>24, <1>25, <1>26, <1>27, <1>28
       DEF Next, Child, WritesfPerform, Opening

(* The file a CLOSE closes has every byte put in.                          *)
LEMMA ClosedFileIsWhole ==
  ASSUME IInv, InputInv, EndInv, cpc = "finishing", ~quitting, ~fileerror,
         AllOf(gen)
  PROVE  /\ xsf.fd # NoFd /\ Live /\ Len(disk[gen]) = put
         /\ Written = Len(disk[gen]) /\ Len(disk[gen]) \in Nat
  <1>1. gen \notin spoilt /\ gen \notin overtaken
    BY DEF AllOf
  <1>2. xsf.fd # NoFd /\ head = tail
    BY <1>1 DEF EndInv
  <1>3. Live
    BY <1>2 DEF Live
  <1>4. put = Written + Unwritten
    BY <1>1, <1>3 DEF InputInv, PlaceInv
  <1>5. Unwritten = 0
    BY <1>2, UnwrittenFits DEF Unwritten
  <1>6. Written = Len(disk[gen]) /\ Len(disk[gen]) \in Nat
    BY WrittenIs, WrittenType
  <1> QED BY <1>2, <1>3, <1>4, <1>5, <1>6

(* A child without a file owes nothing.                                    *)
LEMMA DoneStep ==
  IInv /\ InputInv /\ LeakInv /\ EndInv /\ DoneInv /\ [Next]_vars => DoneInv'
  <1> SUFFICES ASSUME IInv, InputInv, LeakInv, EndInv, DoneInv, [Next]_vars
               PROVE  DoneInv'
    OBVIOUS
  <1>a. OpenInv /\ FileInv
    BY DEF InputInv
  <1> USE DEF DoneInv, Unfiled, AllOf, NoFd, Looping, Writing, Freeing,
      fifoVars, writeVars, fileVars, history
  <1>1. CASE ChildIdles
    BY <1>1 DEF ChildIdles, AnswerSignalled
  <1>2. CASE ChildTakesOpen
    BY <1>2 DEF ChildTakesOpen
  <1>3. CASE ChildFailsToCreate
    BY <1>3 DEF ChildFailsToCreate, Bail
  <1>4. CASE ChildCreates
    <2>1. /\ cgen # NoFd /\ csf'.fd = cgen
          /\ request \in {"BUSY", "CLOSE", "QUIT"}
      BY <1>4 DEF ChildCreates, IInv, FdInv, ParentInv, TypeOK, Sf
    <2> QED BY <1>4, <2>1 DEF ChildCreates
  <1>5. CASE LoopEnds
    BY <1>5 DEF LoopEnds, LeakInv, Overtaking
  <1>6. CASE LoopWaits
    BY <1>6 DEF LoopWaits, LoopGoesOn
  <1>7. CASE LoopWrites
    BY <1>7 DEF LoopWrites, LoopGoesOn
  <1>8. CASE WriteReturns
    BY <1>8 DEF WriteReturns
  <1>9. CASE WriteOvertaken
    BY <1>9 DEF WriteOvertaken, LeakInv, Overtaking
  <1>10. CASE WriteFails
    BY <1>10 DEF WriteFails, Bail
  <1>11. CASE WriteArrives
    BY <1>11 DEF WriteArrives
  <1>12. CASE ChildBailsOut
    BY <1>12, <1>a DEF ChildBailsOut, FileInv
  <1>13. CASE ChildTakesClose
    BY <1>13, <1>a DEF ChildTakesClose, Acknowledge, AnswerSignalled, OpenInv
  <1>14. CASE ChildFinishes
    <2>1. /\ request' = "NOTHING" /\ cpc' \in {"top", "exited"}
          /\ cpc' = "top" => ~quitting
          /\ UNCHANGED <<fileerror, state, disk, put, gen, spoilt, overtaken>>
          /\ cpc = "finishing" /\ ppc' = AnswerSignalled
      BY <1>14 DEF ChildFinishes, Acknowledge
    <2>2. state' = "IDLE" \/ ppc' \in Freeing
      BY <1>a, <2>1 DEF IInv, ParentInv, OpenInv, AnswerSignalled
    <2>3. cpc' = "top" /\ ~fileerror /\ AllOf(gen) => Len(disk[gen]) = put
      BY <2>1, ClosedFileIsWhole
    <2> QED BY <2>1, <2>2, <2>3
  <1>15. CASE ChildWakes
    BY <1>15 DEF ChildWakes
  <1>16. CASE PerformWaits
    BY <1>16 DEF PerformWaits, Performing, RequestSignalled
  <1>17. CASE PerformGivesUp
    BY <1>17 DEF PerformGivesUp, Performing, RequestSignalled
  <1>18. CASE PerformPuts
    BY <1>18, <1>a DEF PerformPuts, Performing, RequestSignalled, OpenInv
  <1>19. CASE OpenWaits
    BY <1>19 DEF OpenWaits, RequestSignalled
  <1>20. CASE WritesfOpen
    BY <1>20, <1>a DEF WritesfOpen, Stops, RequestSignalled, MutexFree, Holding,
       OpenInv, IInv, ParentInv, TypeOK
  <1>21. CASE WritesfStart
    BY <1>21 DEF WritesfStart
  <1>22. CASE WritesfStop
    BY <1>22, <1>a DEF WritesfStop, Stops, RequestSignalled, MutexFree, Holding,
       OpenInv, IInv, ParentInv, TypeOK
  <1>23. CASE WritesfFree
    BY <1>23 DEF WritesfFree, RequestSignalled
  <1>24. CASE FreeResumes
    BY <1>24 DEF FreeResumes, RequestSignalled
  <1>25. CASE FreeJoins
    BY <1>25 DEF FreeJoins
  <1>26. ASSUME NEW bpf \in Bpfs, OpenGoesOn(bpf) PROVE DoneInv'
    <2>1. request' = "OPEN"
      BY <1>26 DEF OpenGoesOn
    <2>2. OpenInv'
      BY <1>a, OpenStep
    <2>3. cpc' \in Idling
      BY <2>1, <2>2, TypeStep DEF OpenInv, IInv
    <2> QED BY <2>1, <2>3 DEF Idling
  <1>27. ASSUME NEW v \in VecSizes, WritesfDsp(v) PROVE DoneInv'
    BY <1>27 DEF WritesfDsp
  <1>28. CASE UNCHANGED vars
    BY <1>28 DEF vars
  <1> QED
    BY <1>1, <1>2, <1>3, <1>4, <1>5, <1>6, <1>7, <1>8, <1>9, <1>10,
       <1>11, <1>12, <1>13, <1>14, <1>15, <1>16, <1>17, <1>18, <1>19, <1>20,
       <1>21, <1>22, <1>23, <1>24, <1>25, <1>26, <1>27, <1>28
       DEF Next, Child, WritesfPerform, Opening

(* Division without a remainder.                                           *)
LEMMA DivisionIs ==
  ASSUME NEW d \in Nat \ {0}, NEW q \in Int, NEW r \in 0..d - 1,
         NEW n \in Int, n = d * q + r
  PROVE  n \div d = q
  BY Z3

(* ... and no quotient times its divisor is more than what was divided.    *)
LEMMA QuotientFloor ==
  ASSUME NEW n \in Nat, NEW d \in Nat \ {0}
  PROVE  n \div d \in Nat /\ (n \div d) * d <= n
  BY Z3

(* The frame size changes when a file is opened, and then only.            *)
LEMMA BpfKept == IInv /\ OpenInv /\ [Next]_vars => (gen' = gen => xsf'.bpf = xsf.bpf)
  <1> SUFFICES ASSUME IInv, OpenInv, [Next]_vars, gen' = gen
               PROVE  xsf'.bpf = xsf.bpf
    OBVIOUS
  <1>1. CASE ChildFailsToCreate
    BY <1>1 DEF ChildFailsToCreate, IInv, TypeOK, Sf
  <1>2. CASE ChildCreates
    BY <1>2 DEF ChildCreates, OpenInv, IInv, TypeOK, Sf
  <1>3. CASE ChildBailsOut
    BY <1>3 DEF ChildBailsOut, IInv, TypeOK, Sf
  <1>4. CASE ChildFinishes
    BY <1>4 DEF ChildFinishes, CloseFile, IInv, TypeOK, Sf
  <1>5. ASSUME NEW bpf \in Bpfs, OpenGoesOn(bpf) PROVE FALSE
    <2>1. gen' = gen + 1 /\ gen \in Nat
      BY <1>5, WriteSizesAssumption DEF OpenGoesOn, IInv, TypeOK, Gens
    <2> QED BY <2>1
  <1>6. CASE xsf' = xsf
    BY <1>6
  <1>7. xsf' = xsf \/ ChildFailsToCreate \/ ChildCreates \/ ChildBailsOut
          \/ ChildFinishes \/ \E bpf \in Bpfs : OpenGoesOn(bpf)
    BY DEF Next, vars, Child, WritesfPerform, Opening, ChildIdles,
       ChildTakesOpen, LoopEnds, LoopWaits, LoopWrites, WriteReturns,
       WriteOvertaken, WriteFails, WriteArrives, ChildTakesClose, ChildWakes,
       PerformWaits, PerformGivesUp, PerformPuts, OpenWaits, WritesfOpen,
       WritesfStart, WritesfStop, WritesfDsp, WritesfFree, FreeResumes,
       FreeJoins
  <1> QED BY <1>1, <1>2, <1>3, <1>4, <1>5, <1>6, <1>7

(* What a step does to the frames counted and the bytes written, as long   *)
(* as data may reach the file.                                             *)
LEMMA CountStep ==
  ASSUME IInv, OpenInv, FileInv, [Next]_vars, Live', ~fileerror'
  PROVE  \/ frames' = 0 /\ Written' = 0
         \/ /\ Live /\ ~fileerror /\ gen' = gen
            /\ \/ frames' = frames /\ Written' = Written
               \/ /\ WriteArrives /\ Written' = Written + wlen
                  /\ frames' = frames + wlen \div xsf.bpf
  <1> DEFINE Goal == \/ frames' = 0 /\ Written' = 0
                     \/ /\ Live /\ ~fileerror /\ gen' = gen
                        /\ \/ frames' = frames /\ Written' = Written
                           \/ /\ WriteArrives /\ Written' = Written + wlen
                              /\ frames' = frames + wlen \div xsf.bpf
  <1>a. FileInv' /\ OpenInv'
    BY FileStep, OpenStep
  <1> USE DEF Live, Written, NoFd, Idling, Freeing, Writing, Looping, Openers,
      fifoVars, writeVars, fileVars, history
  <1>1. CASE ChildIdles
    BY <1>1 DEF ChildIdles
  <1>2. CASE ChildTakesOpen
    BY <1>2 DEF ChildTakesOpen, FileInv
  <1>3. CASE ChildFailsToCreate
    BY <1>3 DEF ChildFailsToCreate
  <1>4. CASE ChildCreates
    <2>1. /\ disk'[gen] = <<>> /\ frames = 0 /\ cpc' \notin Writing
          /\ frames' = 0 \/ frames' = frames
          /\ gen' = gen
      BY <1>4 DEF ChildCreates, OpenInv, FileInv, IInv, TypeOK
    <2> QED BY <2>1
  <1>5. CASE LoopEnds
    BY <1>5 DEF LoopEnds, LoopGoesOn
  <1>6. CASE LoopWaits
    BY <1>6 DEF LoopWaits, LoopGoesOn
  <1>7. CASE LoopWrites
    BY <1>7 DEF LoopWrites, LoopGoesOn
  <1>8. CASE WriteReturns
    <2>1. /\ cpc = "writing" /\ cpc' = "writedone"
          /\ UNCHANGED <<xsf, request, fileerror, frames, gen>>
      BY <1>8 DEF WriteReturns
    <2>2. Live /\ ~fileerror
      BY <2>1
    <2> HIDE DEF Live, Written
    <2>3. Written' = Written
      BY <1>8, WriteKeepsWritten
    <2> QED BY <2>1, <2>2, <2>3
  <1>9. CASE WriteOvertaken
    <2>1. request = "QUIT"
      BY <1>9 DEF WriteOvertaken, IInv, ParentInv
    <2> QED BY <1>9, <2>1 DEF WriteOvertaken
  <1>10. CASE WriteFails
    BY <1>10 DEF WriteFails
  <1>11. CASE WriteArrives
    <2>1. /\ cpc = "writedone" /\ wgot = wlen /\ csf = xsf
          /\ UNCHANGED <<xsf, request, fileerror, gen>>
          /\ frames' = frames + wgot \div csf.bpf
          /\ cpc' = "loop"
      BY <1>11 DEF WriteArrives, FramesAfterWrite, OpenInv
    <2>2. Live /\ ~fileerror
      BY <2>1
    <2> HIDE DEF Live, Written
    <2>3. Written' = Written + wlen
      BY <1>11, WrittenAfterWrite
    <2> QED BY <1>11, <2>1, <2>2, <2>3
  <1>12. CASE ChildBailsOut
    BY <1>12 DEF ChildBailsOut, FileInv
  <1>13. CASE ChildTakesClose
    BY <1>13 DEF ChildTakesClose, Acknowledge, IInv, ParentInv
  <1>14. CASE ChildFinishes
    BY <1>14 DEF ChildFinishes, Acknowledge
  <1>15. CASE ChildWakes
    BY <1>15 DEF ChildWakes
  <1>16. CASE PerformWaits
    BY <1>16 DEF PerformWaits, RequestSignalled
  <1>17. CASE PerformGivesUp
    BY <1>17 DEF PerformGivesUp, RequestSignalled
  <1>18. CASE PerformPuts
    BY <1>18 DEF PerformPuts, RequestSignalled
  <1>19. CASE OpenWaits
    BY <1>19 DEF OpenWaits, RequestSignalled
  <1>20. CASE WritesfOpen
    BY <1>20 DEF WritesfOpen, Stops, RequestSignalled, IInv, TypeOK, FdInv,
       ParentInv, OpenInv, FileInv, MutexFree, Holding, ChildPCs
  <1>21. CASE WritesfStart
    BY <1>21 DEF WritesfStart
  <1>22. CASE WritesfStop
    BY <1>22 DEF WritesfStop, Stops, RequestSignalled, IInv, TypeOK, FdInv,
       ParentInv, OpenInv, FileInv, MutexFree, Holding, ChildPCs
  <1>23. CASE WritesfFree
    BY <1>23 DEF WritesfFree, RequestSignalled
  <1>24. CASE FreeResumes
    BY <1>24 DEF FreeResumes, RequestSignalled
  <1>25. CASE FreeJoins
    BY <1>25 DEF FreeJoins
  <1>26. ASSUME NEW bpf \in Bpfs, OpenGoesOn(bpf) PROVE Goal
    <2>1. request' = "OPEN" /\ frames' = 0
      BY <1>26 DEF OpenGoesOn
    <2>2. disk'[gen'] = <<>> /\ cpc' \notin Writing
      BY <1>a, <2>1 DEF FileInv, OpenInv
    <2> QED BY <2>1, <2>2
  <1>27. ASSUME NEW v \in VecSizes, WritesfDsp(v) PROVE Goal
    BY <1>27 DEF WritesfDsp
  <1>28. CASE UNCHANGED vars
    BY <1>28 DEF vars
  <1> QED
    BY <1>1, <1>2, <1>3, <1>4, <1>5, <1>6, <1>7, <1>8, <1>9, <1>10,
       <1>11, <1>12, <1>13, <1>14, <1>15, <1>16, <1>17, <1>18, <1>19, <1>20,
       <1>21, <1>22, <1>23, <1>24, <1>25, <1>26, <1>27, <1>28
       DEF Next, Child, WritesfPerform, Opening

(* Who moves the head, and who the tail.                                   *)
LEMMA WhoMoves ==
  [Next]_vars =>
    /\ UNCHANGED <<head, fifosize>> \/ PerformPuts
         \/ \E bpf \in Bpfs : OpenGoesOn(bpf)
    /\ UNCHANGED tail \/ tail' = 0 \/ WriteArrives
    /\ cpc' \in Writing => (LoopWrites \/ (cpc \in Writing /\ wlen' = wlen))
  <1> SUFFICES ASSUME [Next]_vars
               PROVE  /\ UNCHANGED <<head, fifosize>> \/ PerformPuts
                           \/ \E bpf \in Bpfs : OpenGoesOn(bpf)
                      /\ UNCHANGED tail \/ tail' = 0 \/ WriteArrives
                      /\ cpc' \in Writing =>
                           (LoopWrites \/ (cpc \in Writing /\ wlen' = wlen))
    OBVIOUS
  <1>1. UNCHANGED <<head, fifosize>> \/ PerformPuts
          \/ \E bpf \in Bpfs : OpenGoesOn(bpf)
    BY DEF Next, vars, Child, WritesfPerform, Opening, fifoVars, writeVars,
       fileVars, history, Writing, ChildIdles, ChildTakesOpen,
       ChildFailsToCreate, Bail, ChildCreates, LoopEnds, LoopWaits,
       WriteReturns, WriteOvertaken, WriteFails, ChildBailsOut,
       ChildTakesClose, Acknowledge, ChildFinishes, ChildWakes, WriteArrives, LoopWrites,
       PerformWaits, PerformGivesUp, RequestSignalled, OpenWaits,
       WritesfOpen, WritesfStart, WritesfStop, Stops, WritesfDsp,
       WritesfFree, FreeResumes, FreeJoins
  <1>2. UNCHANGED tail \/ tail' = 0 \/ WriteArrives
    BY DEF Next, vars, Child, WritesfPerform, Opening, fifoVars, writeVars,
       fileVars, history, Writing, ChildIdles, ChildTakesOpen,
       ChildFailsToCreate, Bail, ChildCreates, LoopEnds, LoopWaits,
       WriteReturns, WriteOvertaken, WriteFails, ChildBailsOut,
       ChildTakesClose, Acknowledge, ChildFinishes, ChildWakes, LoopWrites,
       PerformWaits, PerformGivesUp, PerformPuts, RequestSignalled, OpenWaits,
       OpenGoesOn, WritesfOpen, WritesfStart, WritesfStop, Stops, WritesfDsp,
       WritesfFree, FreeResumes, FreeJoins
  <1>3. cpc' \in Writing => (LoopWrites \/ (cpc \in Writing /\ wlen' = wlen))
    BY DEF Next, vars, Child, WritesfPerform, Opening, fifoVars, writeVars,
       fileVars, history, Writing, ChildIdles, ChildTakesOpen,
       ChildFailsToCreate, Bail, ChildCreates, LoopEnds, LoopWaits,
       WriteReturns, WriteOvertaken, WriteFails, ChildBailsOut,
       ChildTakesClose, Acknowledge, ChildFinishes, ChildWakes, WriteArrives,
       PerformWaits, PerformGivesUp, PerformPuts, RequestSignalled, OpenWaits,
       OpenGoesOn, WritesfOpen, WritesfStart, WritesfStop, Stops, WritesfDsp,
       WritesfFree, FreeResumes, FreeJoins
  <1> QED BY <1>1, <1>2, <1>3

(* Ticks and fifos are whole frames, and frames are rounded down.          *)
LEMMA FloorStep == IInv /\ InputInv /\ FloorInv /\ [Next]_vars => FloorInv'
  <1> SUFFICES ASSUME IInv, OpenInv, FileInv, FloorInv, [Next]_vars
               PROVE  FloorInv'
    BY DEF InputInv
  <1>a. /\ xsf.bpf \in Nat \ {0} /\ head \in Nat /\ fifosize \in Nat
        /\ wlen \in Nat /\ frames \in Nat /\ Written \in Int
        /\ vec \in Nat \ {0}
    BY UnwrittenFits, WrittenType DEF IInv, TypeOK, Sf
  <1>b. Divides(xsf.bpf, 0) /\ Divides(xsf.bpf, head) /\ Divides(xsf.bpf, fifosize)
    BY <1>a, DividesSelf DEF FloorInv
  <1>1. ASSUME NEW bpf \in Bpfs, OpenGoesOn(bpf)
        PROVE  Divides(xsf'.bpf, head') /\ Divides(xsf'.bpf, fifosize')
    <2>1. bpf \in Nat \ {0} /\ MaxVecSize \in Nat \ {0}
      BY WriteSizesAssumption
    <2>2. fifosize' = FifoSizeFor(bpf) /\ head' = 0 /\ xsf'.bpf = bpf
      BY <1>1 DEF OpenGoesOn, IInv, TypeOK, Sf
    <2>3. Divides(MaxVecSize * bpf, fifosize') /\ fifosize' \in Int
          /\ MaxVecSize * bpf \in Nat \ {0}
          /\ MaxVecSize * bpf = bpf * MaxVecSize
      BY <2>1, <2>2, FifoSizeMultiple, FifoSizeBound, ProductPositive,
         WriteSizesAssumption
    <2> DEFINE m == MaxVecSize * bpf
    <2>4. m \in Nat \ {0} /\ Divides(m, fifosize') /\ m = bpf * MaxVecSize
      BY <2>3
    <2> HIDE DEF m
    <2>5. Divides(bpf, m)
      BY <2>1, <2>4, MultipleIs
    <2> QED BY <2>1, <2>2, <2>3, <2>4, <2>5, MultipleOfMultiple, DividesSelf
  <1>2. ASSUME PerformPuts
        PROVE  Divides(xsf'.bpf, head') /\ Divides(xsf'.bpf, fifosize')
    <2> DEFINE b == xsf.bpf
    <2>1. /\ b \in Nat \ {0} /\ Divides(b, head) /\ Divides(b, 0)
          /\ TickBytes = b * vec /\ TickBytes \in Int /\ vec \in Int
          /\ xsf' = xsf /\ fifosize' = fifosize
          /\ head' = 0 \/ head' = head + TickBytes
      BY <1>2, <1>a, <1>b DEF PerformPuts, TickBytes
    <2> HIDE DEF b, TickBytes
    <2>2. Divides(b, TickBytes)
      BY <2>1, MultipleIs
    <2>3. Divides(b, head + TickBytes)
      BY <1>a, <2>1, <2>2, MultipleSum
    <2>4. Divides(b, head')
      BY <2>1, <2>3
    <2> QED BY <1>b, <2>1, <2>4 DEF b
  <1>3. ASSUME UNCHANGED <<head, fifosize>>, gen' = gen
        PROVE  Divides(xsf'.bpf, head') /\ Divides(xsf'.bpf, fifosize')
    BY <1>3, <1>b, BpfKept
  <1>4. Divides(xsf'.bpf, head') /\ Divides(xsf'.bpf, fifosize')
    BY <1>1, <1>2, <1>3, WhoMoves, SpoiltGrows
  <1>5. ASSUME Live', ~fileerror' PROVE frames' * xsf'.bpf <= Written'
    <2>1. xsf'.bpf \in Nat
      BY TypeStep DEF TypeOK, Sf
    <2>2. CASE frames' = 0 /\ Written' = 0
      BY <2>1, <2>2
    <2>3. CASE Live /\ ~fileerror /\ gen' = gen
      <3> DEFINE b == xsf.bpf
                 q == wlen \div b
      <3>1. /\ xsf'.bpf = b /\ frames * b <= Written /\ b \in Nat \ {0}
            /\ q \in Nat /\ q * b <= wlen
        BY <1>a, <2>3, BpfKept, QuotientFloor DEF FloorInv
      <3>2. (frames + q) * b = frames * b + q * b
        BY <1>a, <3>1
      <3>3. \/ frames' = frames /\ Written' = Written
            \/ frames' = frames + q /\ Written' = Written + wlen
            \/ frames' = 0 /\ Written' = 0
        BY <1>5, CountStep
      <3> HIDE DEF b, q, Written
      <3>4. frames * b \in Int /\ q * b \in Int
        BY <1>a, <3>1
      <3> QED BY <1>a, <2>2, <3>1, <3>2, <3>3, <3>4
    <2> QED BY <1>5, <2>2, <2>3, CountStep
  <1> QED BY <1>4, <1>5 DEF FloorInv

(* Everything moves by whole frames if WRITESIZE does.                     *)
LEMMA WholeStep ==
  IInv /\ InputInv /\ FloorInv /\ WholeInv /\ [Next]_vars => WholeInv'
  <1> SUFFICES ASSUME IInv, OpenInv, FileInv, FloorInv, WholeInv, [Next]_vars,
                      Divides(xsf'.bpf, WriteSize)
               PROVE  WholeInv'
    BY DEF InputInv, WholeInv
  <1>a. /\ xsf.bpf \in Nat \ {0} /\ head \in Nat /\ tail \in Nat
        /\ fifosize \in Nat /\ wlen \in Nat /\ frames \in Nat
        /\ Written \in Int /\ xsf'.bpf \in Nat \ {0} /\ WriteSize \in Nat
    BY UnwrittenFits, WrittenType, TypeStep, WriteSizesAssumption
       DEF IInv, TypeOK, Sf
  <1>b. Divides(xsf'.bpf, 0)
    BY <1>a, DividesSelf
  <1>c. ASSUME gen' = gen
        PROVE  /\ xsf'.bpf = xsf.bpf
               /\ Divides(xsf.bpf, head) /\ Divides(xsf.bpf, fifosize)
               /\ Divides(xsf.bpf, tail)
               /\ cpc \in Writing => Divides(xsf.bpf, wlen)
               /\ Live /\ ~fileerror => frames * xsf.bpf = Written
    BY <1>c, BpfKept DEF FloorInv, WholeInv
  <1>d. gen' # gen => tail' = 0 /\ cpc' \notin Writing
    <2> SUFFICES ASSUME NEW bpf \in Bpfs, OpenGoesOn(bpf)
                 PROVE  tail' = 0 /\ cpc' \notin Writing
      BY SpoiltGrows
    <2>1. request' = "OPEN" /\ tail' = 0
      BY DEF OpenGoesOn
    <2> QED BY <2>1, OpenStep DEF OpenInv, Writing, Idling
  <1>1. ASSUME WriteArrives
        PROVE  /\ Divides(xsf'.bpf, tail')
               /\ cpc' \in Writing => Divides(xsf'.bpf, wlen')
    <2> DEFINE b == xsf.bpf
    <2>1. /\ gen' = gen /\ cpc \in Writing /\ cpc' \notin Writing
          /\ tail' = 0 \/ tail' = tail + wlen
      BY <1>1 DEF WriteArrives, TailAfterWrite, history, Writing
    <2>2. b \in Nat \ {0} /\ Divides(b, wlen) /\ Divides(b, tail) /\ xsf'.bpf = b
      BY <1>a, <1>c, <2>1
    <2> HIDE DEF b
    <2>3. Divides(b, tail + wlen)
      BY <1>a, <2>2, MultipleSum
    <2>4. Divides(xsf'.bpf, tail') /\ cpc' \notin Writing
      BY <1>b, <2>1, <2>2, <2>3
    <2> QED BY <2>4
  <1>2. ASSUME LoopWrites
        PROVE  /\ Divides(xsf'.bpf, tail')
               /\ cpc' \in Writing => Divides(xsf'.bpf, wlen')
    <2> DEFINE b == xsf.bpf
    <2>1. /\ gen' = gen /\ wlen' = WriteBytes /\ tail' = tail /\ xsf' = xsf
      BY <1>2 DEF LoopWrites, history, fifoVars
    <2>2. /\ b \in Nat \ {0} /\ Divides(b, fifosize) /\ Divides(b, tail)
          /\ Divides(b, head) /\ Divides(b, WriteSize) /\ xsf'.bpf = b
      BY <1>a, <1>c, <2>1
    <2> HIDE DEF b
    <2>3. Divides(b, fifosize - tail) /\ Divides(b, head - tail)
      BY <1>a, <2>2, MultipleSum
    <2>4. Divides(b, WriteBytes)
      BY <2>2, <2>3 DEF WriteBytes, MinOf
    <2> QED BY <2>1, <2>2, <2>4
  <1>3. /\ Divides(xsf'.bpf, tail')
        /\ cpc' \in Writing => Divides(xsf'.bpf, wlen')
    <2>1. CASE gen' = gen
      <3>1. CASE ~WriteArrives /\ ~LoopWrites
        BY <1>b, <1>c, <2>1, <3>1, WhoMoves
      <3> QED BY <1>1, <1>2, <3>1
    <2>2. CASE gen' # gen
      BY <1>b, <1>d, <2>2
    <2> QED BY <2>1, <2>2
  <1>4. ASSUME Live', ~fileerror' PROVE frames' * xsf'.bpf = Written'
    <2>2. CASE frames' = 0 /\ Written' = 0
      BY <1>a, <2>2
    <2>3. CASE Live /\ ~fileerror /\ gen' = gen
      <3> DEFINE b == xsf.bpf
      <3>1. /\ xsf'.bpf = b /\ frames * b = Written /\ b \in Nat \ {0}
        BY <1>a, <1>c, <2>3
      <3>2. \/ frames' = frames /\ Written' = Written
            \/ frames' = 0 /\ Written' = 0
            \/ WriteArrives /\ frames' = frames + wlen \div b
                 /\ Written' = Written + wlen
        BY <1>4, CountStep
      <3>3. WriteArrives => Divides(b, wlen)
        BY <1>c, <2>3 DEF WriteArrives, Writing
      <3> HIDE DEF b, Written
      <3>4. CASE WriteArrives /\ frames' = frames + wlen \div b
                   /\ Written' = Written + wlen
        <4>0. wlen \in Int /\ Divides(b, wlen)
          BY <1>a, <3>3, <3>4
        <4>1. PICK q \in Int : wlen = b * q
          BY <3>1, <4>0, MultipleIs
        <4>2. wlen \div b = q
          <5>1. 0 \in 0..b - 1 /\ wlen = b * q + 0 /\ wlen \in Int
            BY <1>a, <3>1, <4>1
          <5> QED BY <3>1, <5>1, DivisionIs
        <4>3. (frames + q) * b = frames * b + wlen
          BY <1>a, <3>1, <4>1
        <4> QED BY <3>1, <3>4, <4>2, <4>3
      <3> QED BY <2>2, <3>1, <3>2, <3>4
    <2> QED BY <1>4, <2>2, <2>3, CountStep
  <1> QED BY <1>3, <1>4 DEF WholeInv

(* The invariants hold at the start ...                                    *)
LEMMA InitInput ==
  ASSUME Init
  PROVE  /\ InputInv /\ LeakInv /\ EndInv /\ DoneInv /\ FloorInv /\ WholeInv
         /\ FileIsPrefix
  <1>1. /\ head = 0 /\ tail = 0 /\ fifosize = 0 /\ state = "IDLE" /\ gen = 0
        /\ cgen = 0 /\ cpc = "top" /\ request = "NOTHING" /\ vec = MaxVecSize
        /\ xsf.fd = NoFd /\ xsf.bpf \in Bpfs /\ fileerror = FALSE
        /\ disk = [g \in Gens |-> <<>>] /\ put = 0 /\ openfds = {} /\ csf = xsf
    BY DEF Init
  <1>2. \A g \in Gens : disk[g] = <<>>
    BY <1>1
  <1>3. OpenInv
    BY <1>1 DEF OpenInv, Idling, Writing
  <1>4. FileInv
    BY <1>1, <1>2 DEF FileInv
  <1>5. ~Live
    BY <1>1 DEF Live, Writing
  <1>6. PlaceInv /\ EndInv /\ LapInv /\ LeakInv
    BY <1>1, <1>5 DEF PlaceInv, EndInv, LapInv, LeakInv
  <1>7. DoneInv
    <2>1. Len(disk[gen]) = put
      BY <1>1, <1>2, WriteSizesAssumption DEF Gens
    <2> QED BY <1>1, <2>1 DEF DoneInv, Looping, Writing
  <1>8. FloorInv /\ WholeInv
    <2>1. xsf.bpf \in Nat \ {0}
      BY <1>1, WriteSizesAssumption
    <2>2. Divides(xsf.bpf, 0)
      BY <2>1, DividesSelf
    <2> QED BY <1>1, <1>5, <2>2 DEF FloorInv, WholeInv, Writing
  <1>9. FileIsPrefix
    <2> SUFFICES ASSUME NEW g \in Gens, NEW i \in 1..Len(disk[g]) PROVE FALSE
      BY DEF FileIsPrefix
    <2>1. disk[g] = <<>>
      BY <1>2
    <2> QED BY <2>1
  <1> QED BY <1>3, <1>4, <1>6, <1>7, <1>8, <1>9 DEF InputInv

(* ... and are kept by every step.                                         *)
RecordInv == /\ IInv /\ InputInv /\ LeakInv /\ EndInv /\ DoneInv
             /\ FloorInv /\ WholeInv /\ FileIsPrefix
LEMMA InputInvariance == Spec => []RecordInv
  <1>1. Init => RecordInv
    BY InitIInv, InitInput DEF RecordInv
  <1>2. RecordInv /\ [Next]_vars => RecordInv'
    <2> SUFFICES ASSUME RecordInv, [Next]_vars PROVE RecordInv'
      OBVIOUS
    <2>1. IInv'
      BY TypeStep, ParentStep, FdStep, FifoStep DEF RecordInv, IInv
    <2>2. InputInv'
      BY OpenStep, FileStep, PlaceStep, LapStep DEF RecordInv, InputInv
    <2>3. LeakInv' /\ EndInv'
      BY LeakStep, EndStep DEF RecordInv, InputInv
    <2>4. DoneInv' /\ FloorInv' /\ WholeInv' /\ FileIsPrefix'
      BY DoneStep, FloorStep, WholeStep, PrefixStep DEF RecordInv
    <2> QED BY <2>1, <2>2, <2>3, <2>4 DEF RecordInv
  <1> QED BY <1>1, <1>2, PTL DEF Spec

(* No descriptor is lost but those of the files whose creation was         *)
(* overtaken by a stop, an open or a free: errors of the disk, and stops at*)
(* any other moment, lose none (lines 2351, 2440-2448, 2456-2468).         *)
THEOREM NeverLeaks == Spec => []NoLeak
  <1>1. RecordInv => NoLeak
    BY DEF RecordInv, LeakInv, Overtaking, NoLeak
  <1> QED BY <1>1, InputInvariance, PTL

(* The fifo holds exactly the bytes put in and not yet written, for every  *)
(* buffer, vector and frame size, every error of the disk, and for users   *)
(* who stop or free the object at any moment, until the very tick that     *)
(* fills it while the tail is 0, or runs over its end (lines 2543-2583).   *)
THEOREM FifoIsTheInput == Spec => []FifoHoldsInput
  <1>1. IInv /\ InputInv => FifoHoldsInput
    <2> SUFFICES ASSUME IInv, InputInv, Serving, ~fileerror, gen \notin spoilt
                 PROVE  /\ put = Written + Unwritten
                        /\ \A k \in 0..Unwritten - 1 :
                             buf[(tail + k) % fifosize]
                               = [gen |-> gen, pos |-> Written + k]
      BY DEF FifoHoldsInput
    <2>1. /\ put = Written + Unwritten
          /\ Holds(buf, tail, Unwritten, fifosize, gen, Written)
      BY DEF InputInv, PlaceInv, Live, Serving
    <2>2. ASSUME NEW k \in 0..Unwritten - 1
          PROVE  buf[(tail + k) % fifosize] = [gen |-> gen, pos |-> Written + k]
      <3>1. /\ tail \in Nat /\ fifosize \in Nat \ {0} /\ k < fifosize
            /\ tail < fifosize
        BY UnwrittenFits
      <3>2. (tail + k) % fifosize = Cell(tail, k, fifosize)
        BY <3>1 DEF Cell
      <3>3. buf[Cell(tail, k, fifosize)] = [gen |-> gen, pos |-> Written + k]
        BY <2>1 DEF Holds
      <3> QED BY <3>2, <3>3
    <2> QED BY <2>1, <2>2
  <1>2. RecordInv => FifoHoldsInput
    BY <1>1 DEF RecordInv
  <1> QED BY <1>2, InputInvariance, PTL

(* Whatever fails and whatever message comes when, a file never has bytes  *)
(* meant for another one, full fifos included, and it is at every moment a *)
(* prefix of the signal meant for it unless it was spoilt.                 *)
THEOREM FilesArePrefixes == Spec => []FileIsPrefix
  <1>1. RecordInv => FileIsPrefix
    BY DEF RecordInv
  <1> QED BY <1>1, InputInvariance, PTL

(* A stop loses nothing: a recording closed without an error has every byte*)
(* put in, whatever its frame size; its header counts no more than that,   *)
(* and all of it when WRITESIZE is a number of frames (lines 2362-2364,    *)
(* 2422-2426, 2452-2469).                                                  *)
THEOREM StopLosesNothing == Spec => StopKeepsEverything
  <1> DEFINE Kept == ClosesIt /\ ~fileerror /\ AllOf(gen) =>
               /\ Len(disk[gen]) = put
               /\ ChildFinishes => header'[gen] * xsf.bpf <= put
               /\ ChildFinishes /\ WriteSize % xsf.bpf = 0
                    => header'[gen] * xsf.bpf = put
  <1>1. RecordInv => Kept
    <2> SUFFICES ASSUME RecordInv, ClosesIt, ~fileerror, AllOf(gen)
                 PROVE  Kept
      OBVIOUS
    <2>0. IInv /\ InputInv /\ LeakInv /\ EndInv /\ DoneInv /\ FloorInv /\ WholeInv
      BY DEF RecordInv
    <2>1. CASE ChildFinishes /\ ~quitting
      <3>1. /\ xsf.fd # NoFd /\ Live /\ Len(disk[gen]) = put
            /\ Written = Len(disk[gen])
        BY <2>0, <2>1, ClosedFileIsWhole DEF ChildFinishes
      <3>2. csf.fd = gen /\ csf.fd # NoFd
        BY <2>0, <2>1, <3>1 DEF ChildFinishes, LeakInv, Overtaking, InputInv, FileInv
      <3>3. header'[gen] = frames
        BY <2>0, <2>1, <3>2 DEF ChildFinishes, IInv, TypeOK
      <3>4. /\ frames * xsf.bpf <= Written
            /\ WriteSize % xsf.bpf = 0 => frames * xsf.bpf = Written
        BY <2>0, <3>1 DEF FloorInv, WholeInv, Divides
      <3> QED BY <3>1, <3>3, <3>4
    <2>2. CASE ChildTakesClose /\ request = "CLOSE" /\ csf.fd = NoFd
      <3>1. cpc = "top"
        BY <2>2 DEF ChildTakesClose
      <3>2. ~ChildFinishes
        BY <3>1 DEF ChildFinishes
      <3>3. Len(disk[gen]) = put
        BY <2>0, <2>2, <3>1 DEF DoneInv, Unfiled
      <3> QED BY <3>2, <3>3
    <2> QED BY <2>1, <2>2 DEF ClosesIt
  <1>2. RecordInv /\ [Next]_vars => [Kept]_vars
    BY <1>1
  <1> HIDE DEF Kept
  <1>3. Spec => [][Kept]_vars
    BY <1>2, InputInvariance, PTL DEF Spec
  <1> QED BY <1>3 DEF Kept, StopKeepsEverything
=============================================================================
