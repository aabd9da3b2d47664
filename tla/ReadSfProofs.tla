---------------------------- MODULE ReadSfProofs ----------------------------
(* Proofs about readsf~ for every buffer size, file set and message        *)
(* sequence: types, bounds of the reads, descriptors and the handshake.    *)
EXTENDS ReadSf, TLAPS

Serving == {"loop", "loopwait", "loopwake", "reading", "readdone"}
Freeing == {"freewait", "freewake"}

(* Which descriptors exist at which point of the child.                    *)
FdInv ==
  /\ cpc # "stray"
  /\ openfds = {csf.fd} \ {NoFd}
  /\ cpc \in {"top", "topwait", "topwake", "opening", "exited"} => csf.fd = NoFd
  /\ csf.fd = NoFd \/ cpc = "lostclose" => xsf.fd = NoFd
  /\ request = "OPEN" => gen # 0
  /\ cpc = "opening" => cgen # 0

(* Who may have posted what is in the mailbox.                             *)
MailInv ==
  /\ ppc \in Freeing => request = (IF cpc = "exited" THEN "NOTHING" ELSE "QUIT")
  /\ request = "QUIT" => ppc \in Freeing
  /\ cpc = "exited" => ppc \in Freeing \cup {"joining", "freed"}
  /\ ppc \in {"joining", "freed"} => cpc = "exited"
  /\ cpc \in {"top", "topwait", "topwake", "lostclose"} => request # "BUSY"

(* The fifo indices, and what they are while a request is being taken up.  *)
FifoInv ==
  /\ tail = 0 \/ tail < fifosize
  /\ request = "OPEN" \/ (request = "BUSY" /\ cpc = "opening")
       => head = 0 /\ tail = 0
  /\ request = "BUSY" /\ cpc \in Serving => head = 0 \/ head < fifosize
  /\ cpc \in {"reading", "readdone"} =>
       /\ rhead + rwant <= fifosize
       /\ rwant <= csf.limit
       /\ request = "BUSY" => rhead = head
  /\ cpc = "readdone" => rgot <= rwant
  /\ cpc \in Serving => fpos <= FileLen[cfile]

IInv == TypeOK /\ FdInv /\ MailInv /\ FifoInv
-----------------------------------------------------------------------------
(* Arithmetic facts about the sizes the code computes.                     *)

(* A product of two positive numbers is positive: bytes per tick are.      *)
LEMMA ProductPositive ==
  ASSUME NEW a \in Nat \ {0}, NEW b \in Nat \ {0}
  PROVE  a * b \in Nat \ {0}
  BY SMT

(* A tick of frames of two bytes or more has two bytes or more.            *)
LEMMA ProductAtLeastTwo ==
  ASSUME NEW a \in Nat \ {0}, NEW b \in Nat \ {0, 1}
  PROVE  a * b \in Nat \ {0, 1}
  BY SMT

(* Integer division of naturals gives a natural: the signalling period.    *)
LEMMA QuotientNat ==
  ASSUME NEW a \in Nat, NEW b \in Nat \ {0}
  PROVE  a \div b \in Nat
  BY SMT

(* A remainder is no larger than what is divided.                          *)
LEMMA RemainderSmall ==
  ASSUME NEW a \in Nat, NEW b \in Nat \ {0}
  PROVE  a % b \in 0..a
  BY SMT

(* The fifo is no larger than the buffer (line 1780).                      *)
LEMMA FifoSizeBound ==
  ASSUME NEW bpf \in Nat \ {0, 1}
  PROVE  FifoSizeFor(bpf) \in 0..BufSize
  <1>1. BufSize \in Nat /\ MaxVecSize \in Nat \ {0}
    BY SizesAssumption
  <1>2. bpf * MaxVecSize \in Nat \ {0}
    BY <1>1, ProductPositive
  <1>3. BufSize % (bpf * MaxVecSize) \in 0..BufSize
    BY <1>1, <1>2, RemainderSmall
  <1> QED BY <1>1, <1>3 DEF FifoSizeFor

(* The records that the child copies stay sound file descriptions.         *)
LEMMA SfRecord ==
  ASSUME NEW a \in Gens, NEW b \in Nat \ {0, 1},
         NEW c \in BOOLEAN, NEW d \in Nat
  PROVE  [fd |-> a, bpf |-> b, auto |-> c, limit |-> d] \in Sf
  BY DEF Sf

LEMMA SfClosed ==
  ASSUME NEW sf \in Sf
  PROVE  [sf EXCEPT !.fd = NoFd] \in Sf
  <1>1. NoFd \in Gens
    BY SizesAssumption DEF NoFd, Gens
  <1> QED BY <1>1 DEF Sf

LEMMA OpenedSfType ==
  ASSUME TypeOK
  PROVE  OpenedSf \in Sf
  <1>1. csf.bpf \in Nat \ {0, 1} /\ cgen \in Gens /\ cfile \in Files
    BY DEF TypeOK, Sf
  <1>2. (IF csf.auto THEN FileBpf[cfile] ELSE csf.bpf) \in Nat \ {0, 1}
    BY <1>1, FilesAssumption
  <1>3. (IF csf.auto THEN FileLimit[cfile] ELSE FileLen[cfile] + HeaderBytes)
          \in Nat
    BY <1>1, FilesAssumption
  <1> QED BY <1>1, <1>2, <1>3, SfRecord DEF OpenedSf

(* No step leaks a descriptor or enters a branch that closes a stray one.  *)
LEMMA FdStep == IInv /\ [Next]_vars => FdInv'
  <1> SUFFICES ASSUME IInv, [Next]_vars PROVE FdInv'
    OBVIOUS
  <1> USE DEF IInv, FdInv, parentVars, fifoVars, readVars, history, NoFd
  <1>1. CASE ChildIdles
    BY <1>1 DEF ChildIdles, AnswerSignalled
  <1>2. CASE ChildTakesOpen
    BY <1>2 DEF ChildTakesOpen
  <1>3. CASE ChildTakesClose
    BY <1>3 DEF ChildTakesClose, AnswerSignalled
  <1>4. CASE ChildTakesQuit
    BY <1>4 DEF ChildTakesQuit, AnswerSignalled
  <1>5. CASE ChildFailsToOpen
    BY <1>5 DEF ChildFailsToOpen
  <1>6. CASE ChildOpens
    BY <1>6 DEF ChildOpens, OpenedSf
  <1>7. CASE LoopEnds
    BY <1>7 DEF LoopEnds
  <1>8. CASE LoopWaits
    BY <1>8 DEF LoopWaits, AnswerSignalled, LoopRuns
  <1>9. CASE LoopReads
    BY <1>9 DEF LoopReads, LoopRuns
  <1>10. CASE ReadReturns
    BY <1>10 DEF ReadReturns
  <1>11. CASE ReadOvertaken
    BY <1>11 DEF ReadOvertaken, ReadIsCurrent
  <1>12. CASE ReadFails
    BY <1>12 DEF ReadFails, ReadIsCurrent
  <1>13. CASE ReadArrives
    BY <1>13 DEF ReadArrives, ReadIsCurrent, AnswerSignalled
  <1>14. CASE LostWithFile
    BY <1>14 DEF LostWithFile, RequestAfterLoss
  <1>15. CASE LostWithoutFile
    BY <1>15 DEF LostWithoutFile, RequestAfterLoss, AnswerSignalled
  <1>16. CASE LostCloses
    BY <1>16 DEF LostCloses, AnswerSignalled, CloseFile
  <1>17. CASE ChildWakes
    BY <1>17 DEF ChildWakes
  <1>18. CASE ReadsfStart
    BY <1>18 DEF ReadsfStart
  <1>19. CASE ReadsfStop
    BY <1>19 DEF ReadsfStop, RequestSignalled
  <1>20. CASE ReadsfTick
    BY <1>20 DEF ReadsfTick
  <1>21. CASE ReadsfFree
    BY <1>21 DEF ReadsfFree, RequestSignalled
  <1>22. CASE PerformWaits
    BY <1>22 DEF PerformWaits, RequestSignalled, Performing
  <1>23. CASE PerformEnds
    BY <1>23 DEF PerformEnds, Performing
  <1>24. CASE PerformPlays
    BY <1>24 DEF PerformPlays, Performing, RequestSignalled
  <1>25. CASE FreeResumes
    BY <1>25 DEF FreeResumes, RequestSignalled
  <1>26. CASE FreeJoins
    BY <1>26 DEF FreeJoins
  <1>27. CASE SpuriousWakeup
    BY <1>27 DEF SpuriousWakeup, RequestSignalled, AnswerSignalled
  <1>28. ASSUME NEW f \in Files, NEW auto \in HeaderModes, NEW bpf \in RawBpf,
              ReadsfOpen(f, auto, bpf)
        PROVE  FdInv'
    BY <1>28, SizesAssumption DEF ReadsfOpen, RequestSignalled, TypeOK, Gens
  <1>29. ASSUME NEW v \in VecSizes, ReadsfDsp(v) PROVE FdInv'
    BY <1>29 DEF ReadsfDsp
  <1>30. CASE UNCHANGED vars
    BY <1>30 DEF vars
  <1> QED
    BY <1>1, <1>2, <1>3, <1>4, <1>5, <1>6, <1>7, <1>8, <1>9, <1>10,
       <1>11, <1>12, <1>13, <1>14, <1>15, <1>16, <1>17, <1>18, <1>19,
       <1>20, <1>21, <1>22, <1>23, <1>24, <1>25, <1>26, <1>27, <1>28,
       <1>29, <1>30
       DEF Next, Child, Message, ReadsfPerform

(* No step loses QUIT or leaves BUSY to a child that is idle.              *)
LEMMA MailStep == IInv /\ [Next]_vars => MailInv'
  <1> SUFFICES ASSUME IInv, [Next]_vars PROVE MailInv'
    OBVIOUS
  <1> USE DEF IInv, MailInv, Freeing, parentVars, fifoVars, readVars, history
  <1>1. CASE ChildIdles
    BY <1>1 DEF ChildIdles, AnswerSignalled
  <1>2. CASE ChildTakesOpen
    BY <1>2 DEF ChildTakesOpen
  <1>3. CASE ChildTakesClose
    BY <1>3 DEF ChildTakesClose, AnswerSignalled
  <1>4. CASE ChildTakesQuit
    BY <1>4 DEF ChildTakesQuit, AnswerSignalled
  <1>5. CASE ChildFailsToOpen
    BY <1>5 DEF ChildFailsToOpen
  <1>6. CASE ChildOpens
    BY <1>6 DEF ChildOpens, OpenedSf
  <1>7. CASE LoopEnds
    BY <1>7 DEF LoopEnds
  <1>8. CASE LoopWaits
    BY <1>8 DEF LoopWaits, AnswerSignalled, LoopRuns
  <1>9. CASE LoopReads
    BY <1>9 DEF LoopReads, LoopRuns
  <1>10. CASE ReadReturns
    BY <1>10 DEF ReadReturns
  <1>11. CASE ReadOvertaken
    BY <1>11 DEF ReadOvertaken, ReadIsCurrent
  <1>12. CASE ReadFails
    BY <1>12 DEF ReadFails, ReadIsCurrent
  <1>13. CASE ReadArrives
    BY <1>13 DEF ReadArrives, ReadIsCurrent, AnswerSignalled
  <1>14. CASE LostWithFile
    BY <1>14 DEF LostWithFile, RequestAfterLoss
  <1>15. CASE LostWithoutFile
    BY <1>15 DEF LostWithoutFile, RequestAfterLoss, AnswerSignalled
  <1>16. CASE LostCloses
    BY <1>16 DEF LostCloses, AnswerSignalled, CloseFile
  <1>17. CASE ChildWakes
    BY <1>17 DEF ChildWakes
  <1>18. CASE ReadsfStart
    BY <1>18 DEF ReadsfStart
  <1>19. CASE ReadsfStop
    BY <1>19 DEF ReadsfStop, RequestSignalled
  <1>20. CASE ReadsfTick
    BY <1>20 DEF ReadsfTick
  <1>21. CASE ReadsfFree
    BY <1>21 DEF ReadsfFree, RequestSignalled
  <1>22. CASE PerformWaits
    BY <1>22 DEF PerformWaits, RequestSignalled, Performing
  <1>23. CASE PerformEnds
    BY <1>23 DEF PerformEnds, Performing
  <1>24. CASE PerformPlays
    BY <1>24 DEF PerformPlays, Performing, RequestSignalled
  <1>25. CASE FreeResumes
    BY <1>25 DEF FreeResumes, RequestSignalled
  <1>26. CASE FreeJoins
    BY <1>26 DEF FreeJoins
  <1>27. CASE SpuriousWakeup
    BY <1>27 DEF SpuriousWakeup, RequestSignalled, AnswerSignalled
  <1>28. ASSUME NEW f \in Files, NEW auto \in HeaderModes, NEW bpf \in RawBpf,
              ReadsfOpen(f, auto, bpf)
        PROVE  MailInv'
    BY <1>28 DEF ReadsfOpen, RequestSignalled
  <1>29. ASSUME NEW v \in VecSizes, ReadsfDsp(v) PROVE MailInv'
    BY <1>29 DEF ReadsfDsp
  <1>30. CASE UNCHANGED vars
    BY <1>30 DEF vars
  <1> QED
    BY <1>1, <1>2, <1>3, <1>4, <1>5, <1>6, <1>7, <1>8, <1>9, <1>10,
       <1>11, <1>12, <1>13, <1>14, <1>15, <1>16, <1>17, <1>18, <1>19,
       <1>20, <1>21, <1>22, <1>23, <1>24, <1>25, <1>26, <1>27, <1>28,
       <1>29, <1>30
       DEF Next, Child, Message, ReadsfPerform

(* Every step keeps the types.                                             *)
LEMMA TypeStep == IInv /\ [Next]_vars => TypeOK'
  <1> SUFFICES ASSUME IInv, [Next]_vars PROVE TypeOK'
    OBVIOUS
  <1> USE DEF IInv, TypeOK, parentVars, fifoVars, readVars, history, NoFd,
      ParentPCs, ChildPCs, Holding, States, Requests
  <1>1. CASE ChildIdles
    BY <1>1 DEF ChildIdles, AnswerSignalled
  <1>2. CASE ChildTakesOpen
    BY <1>2 DEF ChildTakesOpen
  <1>3. CASE ChildTakesClose
    BY <1>3 DEF ChildTakesClose, AnswerSignalled
  <1>4. CASE ChildTakesQuit
    BY <1>4 DEF ChildTakesQuit, AnswerSignalled
  <1>5. CASE ChildFailsToOpen
    BY <1>5 DEF ChildFailsToOpen, OverrulesNewer
  <1>6. CASE ChildOpens
    <2>1. OpenedSf \in Sf
      BY OpenedSfType
    <2>2. FifoSizeFor(OpenedSf.bpf) \in 0..BufSize
      BY <2>1, FifoSizeBound DEF Sf
    <2>3. SigFraction * OpenedSf.bpf * vec \in Nat \ {0}
      <3>1. OpenedSf.bpf \in Nat \ {0}
        BY <2>1 DEF Sf
      <3>2. SigFraction * OpenedSf.bpf \in Nat \ {0}
        BY <3>1, SizesAssumption, ProductPositive
      <3> QED BY <3>2, ProductPositive
    <2>4. FifoSizeFor(OpenedSf.bpf) \div (SigFraction * OpenedSf.bpf * vec) \in Nat
      <3>1. FifoSizeFor(OpenedSf.bpf) \in Nat
        BY <2>2, SizesAssumption
      <3> QED BY <3>1, <2>3, QuotientNat
    <2>5. openfds \cup {cgen} \in SUBSET Gens
      OBVIOUS
    <2>6. /\ csf' \in Sf /\ xsf' \in Sf /\ openfds' \in SUBSET Gens
          /\ fifosize' \in 0..BufSize /\ sigperiod' \in Nat
          /\ sigcount' \in Nat
          /\ head' \in Nat /\ fpos' \in Nat /\ cpc' \in ChildPCs
          /\ overruled' \in BOOLEAN
      BY <1>6, <2>1, <2>2, <2>4, <2>5 DEF ChildOpens, OverrulesNewer
    <2> QED BY <1>6, <2>6 DEF ChildOpens
  <1>7. CASE LoopEnds
    BY <1>7 DEF LoopEnds
  <1>8. CASE LoopWaits
    BY <1>8 DEF LoopWaits, AnswerSignalled, LoopRuns
  <1>9. CASE LoopReads
    <2>1. WantBytes \in Nat
      BY <1>9, SizesAssumption
         DEF LoopReads, LoopRuns, WantBytes, MinOf, FifoInv, Serving, Sf
    <2> QED BY <1>9, <2>1 DEF LoopReads
  <1>10. CASE ReadReturns
    <2> DEFINE n == MinOf(rwant, FileLen[cfile] - fpos)
    <2>1. n \in Nat
      BY <1>10, FilesAssumption DEF ReadReturns, MinOf, FifoInv, Serving
    <2>2. \A i \in rhead..rhead + n - 1 :
            [gen |-> cgen, pos |-> fpos + (i - rhead)] \in Byte
      BY <2>1 DEF Byte
    <2>3. CASE /\ rgot' = n /\ fpos' = fpos + n
               /\ buf' = [i \in DOMAIN buf |->
                            IF i \in rhead..rhead + n - 1
                              THEN [gen |-> cgen, pos |-> fpos + (i - rhead)]
                              ELSE buf[i]]
      <3> HIDE DEF n
      <3>1. buf' \in [0..BufSize - 1 -> Byte]
        BY <2>2, <2>3
      <3> QED BY <1>10, <2>1, <2>3, <3>1 DEF ReadReturns
    <2>4. CASE rgot' = -1 /\ UNCHANGED <<fpos, buf>>
      BY <1>10, <2>4 DEF ReadReturns
    <2> QED BY <1>10, <2>3, <2>4 DEF ReadReturns
  <1>11. CASE ReadOvertaken
    BY <1>11 DEF ReadOvertaken, ReadIsCurrent
  <1>12. CASE ReadFails
    BY <1>12 DEF ReadFails, ReadIsCurrent
  <1>13. CASE ReadArrives
    <2>1. csf.limit - rgot \in Nat
      <3>1. csf.limit \in Nat /\ rwant \in Nat /\ rgot \in Nat
        BY <1>13 DEF ReadArrives, Sf
      <3>2. rgot <= rwant /\ rwant <= csf.limit
        BY <1>13 DEF ReadArrives, FifoInv
      <3> QED BY <3>1, <3>2
    <2>2. [csf EXCEPT !.limit = @ - rgot] \in Sf
      BY <2>1 DEF Sf
    <2>3. head' \in Nat
      BY <1>13 DEF ReadArrives, ReadIsCurrent
    <2>4. eof' \in BOOLEAN /\ cpc' \in ChildPCs /\ ppc' \in ParentPCs
      BY <1>13 DEF ReadArrives, AnswerSignalled
    <2> QED BY <1>13, <2>2, <2>3, <2>4 DEF ReadArrives
  <1>14. CASE LostWithFile
    <2>1. [xsf EXCEPT !.fd = NoFd] \in Sf
      BY SfClosed
    <2>2. EofAfterLoss \in BOOLEAN
      BY DEF EofAfterLoss
    <2>3. RequestAfterLoss \in Requests
      BY DEF RequestAfterLoss
    <2> QED BY <1>14, <2>1, <2>2, <2>3 DEF LostWithFile
  <1>15. CASE LostWithoutFile
    BY <1>15 DEF LostWithoutFile, RequestAfterLoss, AnswerSignalled
  <1>16. CASE LostCloses
    <2>1. [csf EXCEPT !.fd = NoFd] \in Sf
      BY SfClosed
    <2>2. ppc' \in ParentPCs
      BY <1>16 DEF LostCloses, AnswerSignalled
    <2> QED BY <1>16, <2>1, <2>2 DEF LostCloses, CloseFile
  <1>17. CASE ChildWakes
    BY <1>17 DEF ChildWakes
  <1>18. CASE ReadsfStart
    BY <1>18 DEF ReadsfStart
  <1>19. CASE ReadsfStop
    BY <1>19 DEF ReadsfStop, RequestSignalled
  <1>20. CASE ReadsfTick
    <2>1. clock' \in BOOLEAN
      BY <1>20 DEF ReadsfTick
    <2>2. UNCHANGED <<ppc, state, vec, request, xfile, fileerror, xsf, fifoVars,
                      cpc, csf, cfile, readVars, openfds, cgen, history>>
      BY <1>20 DEF ReadsfTick
    <2> QED BY <2>1, <2>2
  <1>21. CASE ReadsfFree
    BY <1>21 DEF ReadsfFree, RequestSignalled
  <1>22. CASE PerformWaits
    BY <1>22 DEF PerformWaits, RequestSignalled, Performing
  <1>23. CASE PerformEnds
    <2>1. LastFrames * xsf.bpf \in Nat
      <3>1. head - tail + 1 \in Nat /\ xsf.bpf \in Nat \ {0}
        BY <1>23 DEF PerformEnds, Short, Sf
      <3>2. LastFrames \in Nat
        BY <3>1, QuotientNat DEF LastFrames
      <3> QED BY <3>1, <3>2
    <2>2. played' \in Nat
      BY <1>23, <2>1 DEF PerformEnds
    <2>3. clock' \in BOOLEAN /\ state' \in States /\ ppc' \in ParentPCs
      BY <1>23 DEF PerformEnds
    <2> QED BY <1>23, <2>2, <2>3 DEF PerformEnds
  <1>24. CASE PerformPlays
    <2>1. TickBytes \in Nat
      BY DEF TickBytes, Sf
    <2>2. played' \in Nat /\ tail' \in Nat
      BY <1>24, <2>1 DEF PerformPlays
    <2>3. sigcount' \in Nat /\ cpc' \in ChildPCs
      BY <1>24 DEF PerformPlays, RequestSignalled
    <2> QED BY <1>24, <2>2, <2>3 DEF PerformPlays
  <1>25. CASE FreeResumes
    BY <1>25 DEF FreeResumes, RequestSignalled
  <1>26. CASE FreeJoins
    BY <1>26 DEF FreeJoins
  <1>27. CASE SpuriousWakeup
    BY <1>27 DEF SpuriousWakeup, RequestSignalled, AnswerSignalled
  <1>28. ASSUME NEW f \in Files, NEW auto \in HeaderModes, NEW bpf \in RawBpf,
              ReadsfOpen(f, auto, bpf)
        PROVE  TypeOK'
    <2>1. xsf' \in Sf
      BY <1>28, SizesAssumption DEF ReadsfOpen, Sf, Gens
    <2>2. gen' \in Gens /\ asked' \in BOOLEAN
      BY <1>28, SizesAssumption DEF ReadsfOpen, Gens
    <2>3. cpc' \in ChildPCs
      BY <1>28 DEF ReadsfOpen, RequestSignalled
    <2> QED BY <1>28, <2>1, <2>2, <2>3 DEF ReadsfOpen
  <1>29. ASSUME NEW v \in VecSizes, ReadsfDsp(v) PROVE TypeOK'
    <2>1. v \in Nat \ {0} /\ xsf.bpf \in Nat \ {0}
      BY <1>29, SizesAssumption DEF Sf
    <2>2. fifosize \in Nat /\ xsf.bpf * v \in Nat \ {0}
      BY <2>1, ProductPositive, SizesAssumption
    <2>3. sigperiod' \in Nat
      BY <1>29, <2>2, QuotientNat DEF ReadsfDsp
    <2> QED BY <1>29, <2>1, <2>3 DEF ReadsfDsp
  <1>30. CASE UNCHANGED vars
    BY <1>30 DEF vars
  <1> QED
    BY <1>1, <1>2, <1>3, <1>4, <1>5, <1>6, <1>7, <1>8, <1>9, <1>10,
       <1>11, <1>12, <1>13, <1>14, <1>15, <1>16, <1>17, <1>18, <1>19,
       <1>20, <1>21, <1>22, <1>23, <1>24, <1>25, <1>26, <1>27, <1>28,
       <1>29, <1>30
       DEF Next, Child, Message, ReadsfPerform

(* Every step keeps the fifo indices and the read under way in bounds.     *)
LEMMA FifoStep == IInv /\ [Next]_vars => FifoInv'
  <1> SUFFICES ASSUME IInv, [Next]_vars PROVE FifoInv'
    OBVIOUS
  <1> USE DEF IInv, FifoInv, Serving, parentVars, fifoVars, readVars, history
  <1>1. CASE ChildIdles
    BY <1>1 DEF ChildIdles, AnswerSignalled
  <1>2. CASE ChildTakesOpen
    BY <1>2 DEF ChildTakesOpen
  <1>3. CASE ChildTakesClose
    BY <1>3 DEF ChildTakesClose, AnswerSignalled
  <1>4. CASE ChildTakesQuit
    BY <1>4 DEF ChildTakesQuit, AnswerSignalled
  <1>5. CASE ChildFailsToOpen
    BY <1>5 DEF ChildFailsToOpen
  <1>6. CASE ChildOpens
    <2>1. OpenedSf.limit \in Nat /\ FifoSizeFor(OpenedSf.bpf) \in Nat
      <3>1. OpenedSf.bpf \in Nat \ {0, 1} /\ OpenedSf.limit \in Nat
        BY OpenedSfType DEF Sf
      <3> QED BY <3>1, FifoSizeBound, SizesAssumption
    <2> HIDE DEF FifoInv
    <2>2. FileLen[cfile] \in Nat
      BY FilesAssumption DEF TypeOK
    <2>3. tail' = tail /\ (request = "BUSY" => tail = 0)
      BY <1>6 DEF ChildOpens, FifoInv
    <2> USE DEF FifoInv
    <2>4. tail' = 0 \/ tail' < fifosize'
      BY <1>6, <2>3 DEF ChildOpens
    <2>5. fpos' <= FileLen[cfile'] /\ cpc' \in {"loop", "lost"}
      BY <1>6, <2>2 DEF ChildOpens
    <2>6. (request' = request /\ request # "OPEN") \/ (head' = 0 /\ tail' = 0)
      BY <1>6 DEF ChildOpens
    <2>7. request' = "BUSY" => head' = 0
      BY <1>6 DEF ChildOpens
    <2> QED BY <2>4, <2>5, <2>6, <2>7
  <1>7. CASE LoopEnds
    BY <1>7 DEF LoopEnds
  <1>8. CASE LoopWaits
    BY <1>8 DEF LoopWaits, AnswerSignalled, LoopRuns
  <1>9. CASE LoopReads
    <2>1. /\ head \in Nat /\ tail \in Nat /\ fifosize \in Nat
          /\ csf.limit \in Nat /\ ReadSize \in Nat
      BY SizesAssumption DEF TypeOK, Sf
    <2>2. head + WantBytes <= fifosize /\ WantBytes <= csf.limit
      BY <1>9, <2>1 DEF LoopReads, LoopRuns, WantBytes, MinOf, FifoFed
    <2> QED BY <1>9, <2>2 DEF LoopReads, LoopRuns
  <1>10. CASE ReadReturns
    <2> DEFINE n == MinOf(rwant, FileLen[cfile] - fpos)
    <2>1. /\ rwant \in Nat /\ fpos \in Nat /\ FileLen[cfile] \in Nat
          /\ fpos <= FileLen[cfile]
      BY <1>10, FilesAssumption DEF ReadReturns, TypeOK
    <2>2. n <= rwant /\ fpos + n <= FileLen[cfile] /\ -1 <= rwant
      BY <2>1 DEF MinOf
    <2>3. rgot' <= rwant /\ fpos' <= FileLen[cfile]
      BY <1>10, <2>1, <2>2 DEF ReadReturns
    <2> QED BY <1>10, <2>3 DEF ReadReturns
  <1>11. CASE ReadOvertaken
    BY <1>11 DEF ReadOvertaken, ReadIsCurrent
  <1>12. CASE ReadFails
    BY <1>12 DEF ReadFails, ReadIsCurrent
  <1>13. CASE ReadArrives
    <2>1. /\ head \in Nat /\ rgot \in Nat /\ rwant \in Nat /\ fifosize \in Nat
          /\ rhead = head /\ rgot <= rwant /\ head + rwant <= fifosize
      BY <1>13, SizesAssumption DEF ReadArrives, ReadIsCurrent, TypeOK
    <2>2. head' = 0 \/ head' < fifosize
      BY <1>13, <2>1 DEF ReadArrives
    <2>3. cpc' \in {"loop", "lost"} /\ request = "BUSY"
      BY <1>13 DEF ReadArrives, ReadIsCurrent
    <2> QED BY <1>13, <2>2, <2>3 DEF ReadArrives
  <1>14. CASE LostWithFile
    BY <1>14 DEF LostWithFile, RequestAfterLoss, EofAfterLoss
  <1>15. CASE LostWithoutFile
    BY <1>15 DEF LostWithoutFile, RequestAfterLoss, AnswerSignalled
  <1>16. CASE LostCloses
    BY <1>16 DEF LostCloses, AnswerSignalled, CloseFile
  <1>17. CASE ChildWakes
    BY <1>17 DEF ChildWakes
  <1>18. CASE ReadsfStart
    BY <1>18 DEF ReadsfStart
  <1>19. CASE ReadsfStop
    BY <1>19 DEF ReadsfStop, RequestSignalled
  <1>20. CASE ReadsfTick
    BY <1>20 DEF ReadsfTick
  <1>21. CASE ReadsfFree
    BY <1>21 DEF ReadsfFree, RequestSignalled
  <1>22. CASE PerformWaits
    BY <1>22 DEF PerformWaits, RequestSignalled, Performing
  <1>23. CASE PerformEnds
    BY <1>23 DEF PerformEnds, Performing
  <1>24. CASE PerformPlays
    <2>1. TickBytes \in Nat \ {0, 1} /\ head \in Nat /\ tail \in Nat
      BY ProductAtLeastTwo DEF TickBytes, TypeOK, Sf
    <2>2. ~(head = 0 /\ tail = 0)
      BY <1>24, <2>1 DEF PerformPlays, Short
    <2>3. tail' = 0 \/ tail' < fifosize
      BY <1>24, <2>1, SizesAssumption DEF PerformPlays, TypeOK
    <2>4. cpc' = cpc \/ (cpc' = "loopwake" /\ cpc = "loopwait")
            \/ (cpc' = "topwake" /\ cpc = "topwait")
      BY <1>24 DEF PerformPlays, RequestSignalled
    <2> QED BY <1>24, <2>2, <2>3, <2>4 DEF PerformPlays
  <1>25. CASE FreeResumes
    BY <1>25 DEF FreeResumes, RequestSignalled
  <1>26. CASE FreeJoins
    BY <1>26 DEF FreeJoins
  <1>27. CASE SpuriousWakeup
    BY <1>27 DEF SpuriousWakeup, RequestSignalled, AnswerSignalled
  <1>28. ASSUME NEW f \in Files, NEW auto \in HeaderModes, NEW bpf \in RawBpf,
              ReadsfOpen(f, auto, bpf)
        PROVE  FifoInv'
    BY <1>28 DEF ReadsfOpen, RequestSignalled
  <1>29. ASSUME NEW v \in VecSizes, ReadsfDsp(v) PROVE FifoInv'
    BY <1>29 DEF ReadsfDsp
  <1>30. CASE UNCHANGED vars
    BY <1>30 DEF vars
  <1> QED
    BY <1>1, <1>2, <1>3, <1>4, <1>5, <1>6, <1>7, <1>8, <1>9, <1>10,
       <1>11, <1>12, <1>13, <1>14, <1>15, <1>16, <1>17, <1>18, <1>19,
       <1>20, <1>21, <1>22, <1>23, <1>24, <1>25, <1>26, <1>27, <1>28,
       <1>29, <1>30
       DEF Next, Child, Message, ReadsfPerform

(* Whoever goes to sleep last has just woken the other thread.             *)
LEMMA WaitStep == IInv /\ NoMutualWait /\ [Next]_vars => NoMutualWait'
  <1> SUFFICES ASSUME IInv, NoMutualWait, [Next]_vars PROVE NoMutualWait'
    OBVIOUS
  <1> USE DEF NoMutualWait, parentVars, fifoVars, readVars, history
  <1>1. CASE ChildIdles
    BY <1>1 DEF ChildIdles, AnswerSignalled
  <1>2. CASE ChildTakesOpen
    BY <1>2 DEF ChildTakesOpen
  <1>3. CASE ChildTakesClose
    BY <1>3 DEF ChildTakesClose, AnswerSignalled
  <1>4. CASE ChildTakesQuit
    BY <1>4 DEF ChildTakesQuit, AnswerSignalled
  <1>5. CASE ChildFailsToOpen
    BY <1>5 DEF ChildFailsToOpen
  <1>6. CASE ChildOpens
    BY <1>6 DEF ChildOpens, OpenedSf
  <1>7. CASE LoopEnds
    BY <1>7 DEF LoopEnds
  <1>8. CASE LoopWaits
    BY <1>8 DEF LoopWaits, AnswerSignalled, LoopRuns
  <1>9. CASE LoopReads
    BY <1>9 DEF LoopReads, LoopRuns
  <1>10. CASE ReadReturns
    BY <1>10 DEF ReadReturns
  <1>11. CASE ReadOvertaken
    BY <1>11 DEF ReadOvertaken, ReadIsCurrent
  <1>12. CASE ReadFails
    BY <1>12 DEF ReadFails, ReadIsCurrent
  <1>13. CASE ReadArrives
    BY <1>13 DEF ReadArrives, ReadIsCurrent, AnswerSignalled
  <1>14. CASE LostWithFile
    BY <1>14 DEF LostWithFile, RequestAfterLoss
  <1>15. CASE LostWithoutFile
    BY <1>15 DEF LostWithoutFile, RequestAfterLoss, AnswerSignalled
  <1>16. CASE LostCloses
    BY <1>16 DEF LostCloses, AnswerSignalled, CloseFile
  <1>17. CASE ChildWakes
    BY <1>17 DEF ChildWakes
  <1>18. CASE ReadsfStart
    BY <1>18 DEF ReadsfStart
  <1>19. CASE ReadsfStop
    BY <1>19 DEF ReadsfStop, RequestSignalled
  <1>20. CASE ReadsfTick
    BY <1>20 DEF ReadsfTick
  <1>21. CASE ReadsfFree
    BY <1>21 DEF ReadsfFree, RequestSignalled
  <1>22. CASE PerformWaits
    BY <1>22 DEF PerformWaits, RequestSignalled, Performing
  <1>23. CASE PerformEnds
    BY <1>23 DEF PerformEnds, Performing
  <1>24. CASE PerformPlays
    BY <1>24 DEF PerformPlays, Performing, RequestSignalled
  <1>25. CASE FreeResumes
    BY <1>25 DEF FreeResumes, RequestSignalled
  <1>26. CASE FreeJoins
    BY <1>26 DEF FreeJoins
  <1>27. CASE SpuriousWakeup
    BY <1>27 DEF SpuriousWakeup, RequestSignalled, AnswerSignalled
  <1>28. ASSUME NEW f \in Files, NEW auto \in HeaderModes, NEW bpf \in RawBpf,
              ReadsfOpen(f, auto, bpf)
        PROVE  NoMutualWait'
    BY <1>28 DEF ReadsfOpen, RequestSignalled
  <1>29. ASSUME NEW v \in VecSizes, ReadsfDsp(v) PROVE NoMutualWait'
    BY <1>29 DEF ReadsfDsp
  <1>30. CASE UNCHANGED vars
    BY <1>30 DEF vars
  <1> QED
    BY <1>1, <1>2, <1>3, <1>4, <1>5, <1>6, <1>7, <1>8, <1>9, <1>10,
       <1>11, <1>12, <1>13, <1>14, <1>15, <1>16, <1>17, <1>18, <1>19,
       <1>20, <1>21, <1>22, <1>23, <1>24, <1>25, <1>26, <1>27, <1>28,
       <1>29, <1>30
       DEF Next, Child, Message, ReadsfPerform

-----------------------------------------------------------------------------
(* The initial states.                                                     *)
LEMMA InitIInv == Init => IInv /\ NoMutualWait
  <1> SUFFICES ASSUME Init PROVE IInv /\ NoMutualWait
    OBVIOUS
  <1>1. 0 \in Gens /\ BufSize \in Nat /\ MaxVecSize \in Nat \ {0}
    BY SizesAssumption DEF Gens
  <1>2. xsf \in Sf /\ csf = xsf
    <2>1. xsf = [fd |-> NoFd, bpf |-> 2, auto |-> FALSE, limit |-> 0]
      BY DEF Init
    <2>2. NoFd \in Gens /\ 2 \in Nat \ {0, 1} /\ FALSE \in BOOLEAN /\ 0 \in Nat
      BY <1>1 DEF NoFd
    <2>3. xsf \in Sf
      BY <2>1, <2>2, SfRecord
    <2> QED BY <2>3 DEF Init
  <1>3. buf \in [0..BufSize - 1 -> Byte]
    BY <1>1 DEF Init, Byte
  <1>4. TypeOK
    <2>1. /\ clock \in BOOLEAN /\ fileerror \in BOOLEAN
          /\ eof \in BOOLEAN /\ asked \in BOOLEAN /\ overruled \in BOOLEAN
      BY DEF Init
    <2>2. /\ ppc \in ParentPCs /\ cpc \in ChildPCs /\ state \in States
          /\ request \in Requests /\ xfile \in Files /\ cfile \in Files
      BY DEF Init, ParentPCs, ChildPCs, Holding, States, Requests
    <2>3. /\ fifosize \in 0..BufSize /\ sigperiod \in Nat /\ sigcount \in Nat
          /\ head \in Nat /\ tail \in Nat /\ rhead \in Nat /\ rwant \in Nat
          /\ rgot \in Nat \cup {-1} /\ fpos \in Nat /\ played \in Nat
          /\ gen \in Gens /\ cgen \in Gens /\ vec \in Nat \ {0}
      BY <1>1 DEF Init
    <2>4. openfds \in SUBSET Gens
      BY DEF Init
    <2> QED BY <1>2, <1>3, <2>1, <2>2, <2>3, <2>4 DEF TypeOK
  <1>5. FdInv
    BY DEF Init, FdInv, NoFd
  <1>6. MailInv
    BY DEF Init, MailInv, Freeing
  <1>7. FifoInv
    BY DEF Init, FifoInv, Serving
  <1>8. NoMutualWait
    BY DEF Init, NoMutualWait
  <1> QED BY <1>4, <1>5, <1>6, <1>7, <1>8 DEF IInv

(* The inductive invariant holds in every reachable state, for every       *)
(* buffer size, read size, set of files and number of opens.               *)
THEOREM Invariance == Spec => [](IInv /\ NoMutualWait)
  <1>1. IInv /\ NoMutualWait /\ [Next]_vars => (IInv /\ NoMutualWait)'
    BY TypeStep, FdStep, MailStep, FifoStep, WaitStep DEF IInv
  <1> QED BY InitIInv, <1>1, PTL DEF Spec

(* Every variable of readsf~ keeps its type, and the fifo is never larger  *)
(* than x_buf.                                                             *)
THEOREM TypeCorrect == Spec => []TypeOK
  <1>1. IInv => TypeOK
    BY DEF IInv
  <1> QED BY Invariance, <1>1, PTL

(* The child's read() never writes outside the fifo, even though the       *)
(* parent moves the indices while the mutex is free (lines 1861-1863).     *)
THEOREM ReadsStayInBounds == Spec => []ReadInBounds
  <1>1. IInv => ReadInBounds
    BY SizesAssumption DEF IInv, FifoInv, TypeOK, ReadInBounds
  <1> QED BY Invariance, <1>1, PTL

(* No descriptor is leaked whatever request overtakes an open, and lines   *)
(* 1733-1742, 1925-1933 and 1940-1948 are dead code.                       *)
THEOREM DescriptorsAreClosed == Spec => []OneFileOpen
  <1>1. IInv => OneFileOpen
    BY DEF IInv, FdInv, OneFileOpen
  <1> QED BY Invariance, <1>1, PTL

(* QUIT is never lost and the child never spins holding the mutex, so that *)
(* readsf_free only joins a thread that has acknowledged.                  *)
THEOREM QuitReachesChild == Spec => []QuitIsKept
  <1>1. IInv => QuitIsKept
    BY DEF IInv, MailInv, Freeing, QuitIsKept
  <1> QED BY Invariance, <1>1, PTL

(* DSP thread and child are never both asleep on each other's condition.   *)
THEOREM NeverBothAsleep == Spec => []NoMutualWait
  <1> QED BY Invariance, PTL
-----------------------------------------------------------------------------
(* Multiples, under a name of their own.                                   *)
Divides(d, n) == n % d = 0

(* A multiple is a product, which is how the provers reason about them.    *)
LEMMA MultipleIs ==
  ASSUME NEW d \in Nat \ {0}, NEW n \in Int
  PROVE  Divides(d, n) <=> \E q \in Int : n = d * q
  <1>1. ASSUME Divides(d, n) PROVE n = d * (n \div d) /\ n \div d \in Int
    BY <1>1 DEF Divides
  <1>2. ASSUME NEW q \in Int, n = d * q PROVE Divides(d, n)
    BY <1>2 DEF Divides
  <1> QED BY <1>1, <1>2

(* Everything divides 0 and itself.                                        *)
LEMMA DividesSelf ==
  ASSUME NEW d \in Nat \ {0}
  PROVE  Divides(d, 0) /\ Divides(d, d)
  BY DEF Divides

(* Sums and differences of multiples are multiples.                        *)
LEMMA MultipleSum ==
  ASSUME NEW d \in Nat \ {0}, NEW m \in Int, NEW n \in Int,
         Divides(d, m), Divides(d, n)
  PROVE  Divides(d, m + n) /\ Divides(d, m - n)
  <1>1. PICK p \in Int : m = d * p
    BY MultipleIs
  <1>2. PICK q \in Int : n = d * q
    BY MultipleIs
  <1>3. p + q \in Int /\ p - q \in Int /\ m + n \in Int /\ m - n \in Int
    OBVIOUS
  <1>4. m + n = d * (p + q) /\ m - n = d * (p - q)
    BY <1>1, <1>2
  <1> QED BY <1>3, <1>4, MultipleIs

(* A multiple of a multiple is a multiple.                                 *)
LEMMA MultipleOfMultiple ==
  ASSUME NEW d \in Nat \ {0}, NEW e \in Nat \ {0}, NEW n \in Int,
         Divides(d, e), Divides(e, n)
  PROVE  Divides(d, n)
  <1>1. PICK p \in Int : e = d * p
    BY MultipleIs
  <1>2. PICK q \in Int : n = e * q
    BY MultipleIs
  <1>3. n = d * (p * q) /\ p * q \in Int
    BY <1>1, <1>2
  <1> QED BY <1>3, MultipleIs

(* Two different multiples of d are at least d apart.                      *)
LEMMA MultiplesApart ==
  ASSUME NEW d \in Nat \ {0}, NEW m \in Int, NEW n \in Int,
         Divides(d, m), Divides(d, n), m < n
  PROVE  m + d <= n
  <1>1. PICK p \in Int : m = d * p
    BY MultipleIs
  <1>2. PICK q \in Int : n = d * q
    BY MultipleIs
  <1>3. p < q
    BY <1>1, <1>2
  <1>4. p + 1 <= q
    BY <1>3
  <1>5. d * (p + 1) <= d * q
    BY <1>4
  <1>6. d * (p + 1) = d * p + d
    OBVIOUS
  <1> QED BY <1>1, <1>2, <1>5, <1>6
-----------------------------------------------------------------------------
(* What the fifo holds.  The contents are right for signal vectors of one  *)
(* size that divides MAXVECSIZE, and when the size of a read, the lengths  *)
(* of the files and the ticks are all multiples of one g > 1, say of a     *)
(* sample of g bytes.  Headers count when a message may have them read.    *)
FrameSizes == RawBpf \cup {FileBpf[f] : f \in {e \in Files : TRUE \in HeaderModes}}
SteadyVectors == \E v \in VecSizes : VecSizes = {v} /\ Divides(v, MaxVecSize)
WholeSamples(g) ==
  /\ Divides(g, ReadSize)
  /\ \A f \in Files : Divides(g, FileLen[f])
  /\ TRUE \in HeaderModes => \A f \in Files : Divides(g, FileLimit[f])
  /\ \A v \in VecSizes \cup {MaxVecSize}, b \in FrameSizes : Divides(g, v * b)

Streaming == state # "IDLE" /\ cgen = gen
Arrived == IF cpc = "readdone" /\ rgot > 0 THEN rgot ELSE 0
Ahead == MinOf(csf.limit - Arrived, FileLen[cfile] - fpos)
Aligned == gen # 0 /\ Divides(TickBytes, fifosize) /\ Divides(TickBytes, tail)

(* Until the child has taken an open up, the fifo is empty and nothing of  *)
(* that file is played.                                                    *)
OpenInv ==
  /\ cgen <= gen
  /\ request = "OPEN" => cgen # gen
  /\ request = "BUSY" => cgen = gen
  /\ cgen # gen \/ cpc = "opening" =>
       head = 0 /\ tail = 0 /\ (state # "IDLE" => played = 0)
  /\ head = 0 \/ head < fifosize
  /\ vec \in VecSizes \cup {MaxVecSize}
  /\ gen # 0 => xsf.bpf \in FrameSizes
  /\ cpc = "opening" => csf.bpf \in FrameSizes
  /\ xsf.auto \in HeaderModes \cup {FALSE}
  /\ csf.auto \in HeaderModes \cup {FALSE}
  /\ gen = 0 => state = "IDLE"
  /\ request = "CLOSE" => state = "IDLE"

(* The tail is at the start of a tick, the head at the start of a sample.  *)
AlignInv(g) ==
  /\ (head = 0 /\ tail = 0) \/ Aligned
  /\ cpc \in Serving /\ cgen = gen => Aligned
  /\ Divides(g, head) /\ Divides(g, fifosize)
  /\ cpc \in Serving => Divides(g, Arrived) /\ Divides(g, Ahead)
  /\ cpc = "reading" => Divides(g, MinOf(rwant, FileLen[cfile] - fpos))

(* The n cells of b from cell t on, going around after cell size - 1, hold *)
(* bytes p, p + 1, ... of generation gn.                                   *)
Cell(t, k, size) == IF t + k < size THEN t + k ELSE t + k - size
Holds(b, t, n, size, gn, p) ==
  \A k \in 0..n - 1 : b[Cell(t, k, size)] = [gen |-> gn, pos |-> p + k]

(* FifoHoldsStream with the index of a cell computed without "%".          *)
CellInv == state # "IDLE" => Holds(buf, tail, Unread, fifosize, gen, played)

(* What is played and unread is what was read before the read under way,   *)
(* and that read lands in free cells.                                      *)
PlaceInv ==
  cpc \in Serving /\ Streaming =>
    /\ played + Unread = fpos - Arrived
    /\ cpc \in {"reading", "readdone"} =>
         rhead = head /\ Unread + rwant < fifosize
    /\ Holds(buf, rhead, Arrived, fifosize, gen, fpos - Arrived)

StreamInv(g) == OpenInv /\ AlignInv(g) /\ PlaceInv /\ CellInv
-----------------------------------------------------------------------------

(* A frame size is at least two bytes.                                     *)
LEMMA FrameSizesType == FrameSizes \subseteq Nat \ {0, 1}
  BY SizesAssumption, FilesAssumption DEF FrameSizes

(* The facts about a tick that the type of its two factors gives.          *)
LEMMA TickType ==
  ASSUME TypeOK
  PROVE  TickBytes \in Nat \ {0, 1}
  BY ProductAtLeastTwo DEF TypeOK, Sf, TickBytes


(* The size of the fifo is a multiple of a frame times MAXVECSIZE (1780).  *)
LEMMA FifoSizeMultiple ==
  ASSUME NEW bpf \in Nat \ {0, 1}
  PROVE  Divides(MaxVecSize * bpf, FifoSizeFor(bpf))
  <1> DEFINE m == MaxVecSize * bpf
  <1>1. BufSize \in Nat /\ m \in Nat \ {0} /\ bpf * MaxVecSize = m
    BY SizesAssumption, ProductPositive
  <1> HIDE DEF m
  <1>2. BufSize - (BufSize % m) = m * (BufSize \div m)
        /\ BufSize \div m \in Int
    BY <1>1
  <1>3. BufSize - (BufSize % m) \in Int
    BY <1>1
  <1>4. Divides(m, FifoSizeFor(bpf))
    BY <1>1, <1>2, <1>3, MultipleIs DEF FifoSizeFor
  <1> QED BY <1>4 DEF m

(* A factor that divides makes the product divide.                         *)
LEMMA ProductDivides ==
  ASSUME NEW a \in Nat \ {0}, NEW v \in Nat \ {0}, NEW b \in Nat \ {0},
         Divides(v, a)
  PROVE  Divides(v * b, a * b)
  <1>1. PICK q \in Int : a = v * q
    BY MultipleIs
  <1>2. a * b = (v * b) * q /\ a * b \in Int /\ v * b \in Nat \ {0}
    BY <1>1, ProductPositive
  <1> QED BY <1>2, MultipleIs

(* A tick divides the bytes of the largest vector.                         *)
LEMMA TickDivides ==
  ASSUME SteadyVectors, OpenInv, TypeOK, NEW b \in Nat \ {0}
  PROVE  vec * b \in Nat \ {0} /\ Divides(vec * b, MaxVecSize * b)
  <1>1. vec \in Nat \ {0} /\ MaxVecSize \in Nat \ {0}
    BY SizesAssumption DEF TypeOK
  <1>2. vec * b \in Nat \ {0}
    BY <1>1, ProductPositive
  <1>3. Divides(vec, MaxVecSize)
    <2>1. CASE vec = MaxVecSize
      BY <1>1, <2>1, DividesSelf
    <2>2. CASE vec \in VecSizes
      BY <2>2 DEF SteadyVectors
    <2> QED BY <2>1, <2>2 DEF OpenInv
  <1> QED BY <1>1, <1>2, <1>3, ProductDivides

(* No step lets the fifo be used before the child has taken an open up.    *)
LEMMA OpenStep == IInv /\ OpenInv /\ [Next]_vars => OpenInv'
  <1> SUFFICES ASSUME IInv, OpenInv, [Next]_vars PROVE OpenInv'
    OBVIOUS
  <1> USE DEF OpenInv, parentVars, fifoVars, readVars, history
  <1>1. CASE ChildIdles
    BY <1>1 DEF ChildIdles, AnswerSignalled
  <1>2. CASE ChildTakesOpen
    <2>1. gen \in Int /\ csf.fd = NoFd
      BY <1>2, SizesAssumption DEF ChildTakesOpen, IInv, FdInv, TypeOK, Gens
    <2>2. xsf' = xsf /\ csf' = xsf
      BY <1>2, <2>1 DEF ChildTakesOpen
    <2>3. /\ xsf'.auto \in HeaderModes \cup {FALSE}
          /\ csf'.auto \in HeaderModes \cup {FALSE}
      BY <2>2
    <2>4. xsf'.bpf \in FrameSizes /\ csf'.bpf \in FrameSizes
      BY <1>2, <2>2 DEF ChildTakesOpen, IInv, FdInv
    <2>5. /\ request = "OPEN" /\ request' = "BUSY" /\ cgen' = gen
          /\ UNCHANGED <<gen, state, played, head, tail, fifosize, vec>>
      BY <1>2 DEF ChildTakesOpen
    <2>6. cgen' <= gen'
      BY <2>1, <2>5
    <2> QED BY <2>3, <2>4, <2>5, <2>6
  <1>3. CASE ChildTakesClose
    BY <1>3 DEF ChildTakesClose, AnswerSignalled
  <1>4. CASE ChildTakesQuit
    BY <1>4 DEF ChildTakesQuit, AnswerSignalled
  <1>5. CASE ChildFailsToOpen
    BY <1>5 DEF ChildFailsToOpen
  <1>6. CASE ChildOpens
    <2>1. OpenedSf.bpf \in FrameSizes
      BY <1>6 DEF ChildOpens, OpenedSf, FrameSizes, IInv, TypeOK
    <2>1a. xsf'.auto = FALSE /\ csf'.auto = FALSE
      BY <1>6 DEF ChildOpens, OpenedSf
    <2>2. xsf' = OpenedSf /\ csf' = OpenedSf
          /\ (head' = 0 \/ UNCHANGED <<head, fifosize>>)
      BY <1>6 DEF ChildOpens
    <2> HIDE DEF OpenedSf
    <2>3. cpc' \in {"loop", "lost"}
          /\ UNCHANGED <<vec, state, request, gen, cgen, tail, played>>
      BY <1>6 DEF ChildOpens
    <2>4. head' = 0 /\ tail = 0
      BY <1>6, <2>2 DEF ChildOpens
    <2>5. cpc = "opening"
      BY <1>6 DEF ChildOpens
    <2> QED BY <2>1, <2>1a, <2>2, <2>3, <2>4, <2>5
  <1>7. CASE LoopEnds
    BY <1>7 DEF LoopEnds
  <1>8. CASE LoopWaits
    BY <1>8 DEF LoopWaits, AnswerSignalled, LoopRuns
  <1>9. CASE LoopReads
    BY <1>9 DEF LoopReads, LoopRuns
  <1>10. CASE ReadReturns
    BY <1>10 DEF ReadReturns
  <1>11. CASE ReadOvertaken
    BY <1>11 DEF ReadOvertaken, ReadIsCurrent
  <1>12. CASE ReadFails
    BY <1>12 DEF ReadFails, ReadIsCurrent
  <1>13. CASE ReadArrives
    <2>1. /\ head \in Nat /\ rgot \in Nat /\ rwant \in Nat /\ fifosize \in Nat
          /\ rhead = head /\ rgot <= rwant /\ head + rwant <= fifosize
      BY <1>13, SizesAssumption DEF ReadArrives, ReadIsCurrent, IInv,
         FifoInv, TypeOK
    <2>2. head' = 0 \/ head' < fifosize
      BY <1>13, <2>1 DEF ReadArrives
    <2>3. cpc' \in {"loop", "lost"} /\ request = "BUSY"
      BY <1>13 DEF ReadArrives, ReadIsCurrent
    <2>4. csf'.auto = csf.auto /\ xsf' = xsf
      BY <1>13 DEF ReadArrives, IInv, TypeOK, Sf
    <2> QED BY <1>13, <2>2, <2>3, <2>4 DEF ReadArrives
  <1>14. CASE LostWithFile
    <2>1. xsf'.bpf = xsf.bpf /\ xsf'.auto = xsf.auto
      BY <1>14 DEF LostWithFile, IInv, TypeOK, Sf
    <2> QED BY <1>14, <2>1 DEF LostWithFile, RequestAfterLoss
  <1>15. CASE LostWithoutFile
    BY <1>15 DEF LostWithoutFile, RequestAfterLoss, AnswerSignalled
  <1>16. CASE LostCloses
    <2>1. csf'.auto = csf.auto /\ xsf' = xsf
      BY <1>16 DEF LostCloses, CloseFile, IInv, TypeOK, Sf
    <2> QED BY <1>16, <2>1 DEF LostCloses, AnswerSignalled, CloseFile
  <1>17. CASE ChildWakes
    BY <1>17 DEF ChildWakes
  <1>18. CASE ReadsfStart
    BY <1>18 DEF ReadsfStart
  <1>19. CASE ReadsfStop
    BY <1>19 DEF ReadsfStop, RequestSignalled
  <1>20. CASE ReadsfTick
    BY <1>20 DEF ReadsfTick
  <1>21. CASE ReadsfFree
    BY <1>21 DEF ReadsfFree, RequestSignalled
  <1>22. CASE PerformWaits
    BY <1>22 DEF PerformWaits, RequestSignalled, Performing
  <1>23. CASE PerformEnds
    BY <1>23 DEF PerformEnds, Performing
  <1>24. CASE PerformPlays
    <2>1. TickBytes \in Nat \ {0, 1}
      BY TickType DEF IInv
    <2>2. ~(head = 0 /\ tail = 0)
      BY <1>24, <2>1 DEF PerformPlays, Short
    <2>3. cpc' = cpc \/ (cpc = "topwait" /\ cpc' = "topwake")
            \/ (cpc = "loopwait" /\ cpc' = "loopwake")
      BY <1>24 DEF PerformPlays, RequestSignalled
    <2> QED BY <1>24, <2>2, <2>3 DEF PerformPlays
  <1>25. CASE FreeResumes
    BY <1>25 DEF FreeResumes, RequestSignalled
  <1>26. CASE FreeJoins
    BY <1>26 DEF FreeJoins
  <1>27. CASE SpuriousWakeup
    BY <1>27 DEF SpuriousWakeup, RequestSignalled, AnswerSignalled
  <1>28. ASSUME NEW f \in Files, NEW auto \in HeaderModes, NEW bpf \in RawBpf,
              ReadsfOpen(f, auto, bpf)
        PROVE  OpenInv'
    <2>1. gen \in Nat /\ cgen \in Nat /\ gen' = gen + 1 /\ cgen' = cgen
      BY <1>28, SizesAssumption DEF ReadsfOpen, IInv, TypeOK, Gens
    <2>2. cgen' # gen' /\ cgen' <= gen' /\ gen' # 0
      BY <2>1
    <2>3. xsf'.bpf \in FrameSizes /\ xsf'.auto \in HeaderModes
      BY <1>28 DEF ReadsfOpen, FrameSizes
    <2>4. cpc' = "opening" => cpc = "opening"
      BY <1>28 DEF ReadsfOpen, RequestSignalled
    <2> QED BY <1>28, <2>2, <2>3, <2>4 DEF ReadsfOpen
  <1>29. ASSUME NEW v \in VecSizes, ReadsfDsp(v) PROVE OpenInv'
    BY <1>29 DEF ReadsfDsp
  <1>30. CASE UNCHANGED vars
    BY <1>30 DEF vars
  <1> QED
    BY <1>1, <1>2, <1>3, <1>4, <1>5, <1>6, <1>7, <1>8, <1>9, <1>10,
       <1>11, <1>12, <1>13, <1>14, <1>15, <1>16, <1>17, <1>18, <1>19,
       <1>20, <1>21, <1>22, <1>23, <1>24, <1>25, <1>26, <1>27, <1>28,
       <1>29, <1>30
       DEF Next, Child, Message, ReadsfPerform

(* The parent advances the tail by whole ticks, the child the head by      *)
(* whole samples.                                                          *)
LEMMA AlignStep ==
  ASSUME NEW g \in Nat \ {0, 1}, WholeSamples(g), SteadyVectors,
         IInv, OpenInv, AlignInv(g), [Next]_vars
  PROVE  AlignInv(g)'
  <1>a. g \in Nat \ {0}
    OBVIOUS
  <1>b. Divides(g, 0)
    BY <1>a, DividesSelf
  <1> USE DEF AlignInv, Aligned, TickBytes, Arrived, Ahead, Serving,
      parentVars, fifoVars, readVars, history
  <1>1. CASE ChildIdles
    BY <1>1 DEF ChildIdles, AnswerSignalled
  <1>2. CASE ChildTakesOpen
    BY <1>2 DEF ChildTakesOpen
  <1>3. CASE ChildTakesClose
    BY <1>3 DEF ChildTakesClose, AnswerSignalled
  <1>4. CASE ChildTakesQuit
    BY <1>4 DEF ChildTakesQuit, AnswerSignalled
  <1>5. CASE ChildFailsToOpen
    BY <1>5 DEF ChildFailsToOpen
  <1>6. CASE ChildOpens
    <2> DEFINE bpf == OpenedSf.bpf
    <2>1. bpf \in FrameSizes /\ bpf \in Nat \ {0, 1}
      BY <1>6, FrameSizesType DEF ChildOpens, OpenedSf, FrameSizes, OpenInv,
         IInv, TypeOK
    <2>1b. csf.auto => TRUE \in HeaderModes
      BY DEF OpenInv
    <2>2. /\ OpenedSf.limit = IF csf.auto THEN FileLimit[cfile]
                                          ELSE FileLen[cfile] + HeaderBytes
          /\ FileLen[cfile] \in Nat /\ FileLimit[cfile] \in Nat
          /\ Divides(g, FileLen[cfile])
          /\ csf.auto => Divides(g, FileLimit[cfile])
          /\ HeaderBytes \in Nat
      BY <2>1b, FilesAssumption DEF OpenedSf, IInv, TypeOK, WholeSamples
    <2>3. /\ xsf' = OpenedSf /\ csf' = OpenedSf /\ fpos' = 0
          /\ UNCHANGED <<vec, gen, cgen, tail, cfile, rgot>>
          /\ cpc' \in {"loop", "lost"} /\ head' = 0 /\ tail' = 0
      BY <1>6 DEF ChildOpens, OpenInv
    <2> HIDE DEF OpenedSf
    <2>4. Divides(g, Ahead')
      BY <2>2, <2>3 DEF MinOf
    <2>5. cpc' \in Serving /\ cgen' = gen' => Aligned' /\ Divides(g, fifosize')
      <3> SUFFICES ASSUME cpc' = "loop", cgen = gen
                   PROVE  Aligned' /\ Divides(g, fifosize')
        BY <2>3
      <3>1. fifosize' = FifoSizeFor(bpf) /\ gen # 0
        BY <1>6 DEF ChildOpens, IInv, FdInv
      <3>2. Divides(MaxVecSize * bpf, fifosize') /\ fifosize' \in Nat
        BY <2>1, <3>1, FifoSizeMultiple, FifoSizeBound, SizesAssumption
      <3>3. Divides(g, MaxVecSize * bpf) /\ MaxVecSize * bpf \in Nat \ {0}
        BY <2>1, ProductPositive, SizesAssumption DEF WholeSamples
      <3>4. Divides(g, fifosize')
        <4> DEFINE m == MaxVecSize * bpf
        <4>1. Divides(m, fifosize') /\ fifosize' \in Nat /\ Divides(g, m)
              /\ m \in Nat \ {0}
          BY <3>2, <3>3
        <4> HIDE DEF m, AlignInv, Aligned, TickBytes, Arrived, Ahead
        <4> QED BY <1>a, <4>1, MultipleOfMultiple
      <3>5. /\ vec * bpf \in Nat \ {0}
            /\ Divides(vec * bpf, MaxVecSize * bpf)
        BY <2>1, TickDivides DEF IInv
      <3>6. Divides(vec * bpf, fifosize')
        BY <3>2, <3>3, <3>5, MultipleOfMultiple
      <3>7. Divides(vec * bpf, 0)
        BY <3>5, DividesSelf
      <3> QED BY <2>3, <3>1, <3>4, <3>6, <3>7
    <2>6. Divides(g, fifosize')
      <3>1. fifosize' = fifosize \/ (cpc' = "loop" /\ cgen = gen)
        BY <1>6 DEF ChildOpens, OpenInv
      <3>2. Divides(g, fifosize) /\ (cpc' = "loop" => cpc' \in Serving)
        OBVIOUS
      <3> QED BY <2>3, <2>5, <3>1, <3>2
    <2> QED BY <1>b, <2>3, <2>4, <2>5, <2>6
  <1>7. CASE LoopEnds
    BY <1>7 DEF LoopEnds
  <1>8. CASE LoopWaits
    BY <1>8 DEF LoopWaits, AnswerSignalled, LoopRuns
  <1>9. CASE LoopReads
    <2>1. /\ head \in Nat /\ fifosize \in Nat /\ ReadSize \in Nat
          /\ fpos \in Nat
          /\ csf.limit \in Nat /\ FileLen[cfile] \in Nat
          /\ Divides(g, ReadSize)
          /\ Divides(g, head) /\ Divides(g, fifosize)
      BY SizesAssumption, FilesAssumption DEF IInv, TypeOK, Sf, WholeSamples
    <2>2. fifosize - head \in Int /\ Divides(g, fifosize - head)
      <3> HIDE DEF AlignInv, Aligned, TickBytes, Arrived, Ahead
      <3> QED BY <1>a, <2>1, MultipleSum
    <2>3. Arrived = 0 /\ Divides(g, MinOf(csf.limit, FileLen[cfile] - fpos))
      BY <1>9, <2>1 DEF LoopReads, LoopRuns
    <2> DEFINE room == IF head >= tail THEN MinOf(fifosize - head, ReadSize)
                                       ELSE ReadSize
    <2>4. room \in Int /\ Divides(g, room)
      BY <2>1, <2>2 DEF MinOf
    <2>5. MinOf(WantBytes, FileLen[cfile] - fpos)
            = MinOf(room, MinOf(csf.limit, FileLen[cfile] - fpos))
      BY <2>1, <2>4 DEF WantBytes, MinOf
    <2>6. Divides(g, MinOf(WantBytes, FileLen[cfile] - fpos))
      BY <2>3, <2>4, <2>5 DEF MinOf
    <2> QED BY <1>9, <2>3, <2>6 DEF LoopReads, LoopRuns
  <1>10. CASE ReadReturns
    <2> DEFINE n == MinOf(rwant, FileLen[cfile] - fpos)
    <2>1. /\ rwant \in Nat /\ fpos \in Nat /\ FileLen[cfile] \in Nat
          /\ csf.limit \in Nat /\ fpos <= FileLen[cfile] /\ rwant <= csf.limit
      BY <1>10, FilesAssumption DEF ReadReturns, IInv, FifoInv, TypeOK, Sf
    <2>2. n \in Nat /\ Divides(g, n)
      BY <1>10, <2>1 DEF ReadReturns, MinOf
    <2>3. Arrived = 0 /\ Divides(g, MinOf(csf.limit, FileLen[cfile] - fpos))
      BY <1>10, <2>1 DEF ReadReturns
    <2>4. cpc' = "readdone"
          /\ UNCHANGED <<csf, cfile, head, tail, fifosize, gen, cgen, xsf, vec>>
      BY <1>10 DEF ReadReturns
    <2>5. CASE rgot' = n /\ fpos' = fpos + n
      <3>1. Arrived' = n
        BY <2>2, <2>4, <2>5
      <3>2. Ahead' = MinOf(csf.limit, FileLen[cfile] - fpos) - n
        BY <2>1, <2>2, <2>4, <2>5, <3>1 DEF MinOf
      <3>3. MinOf(csf.limit, FileLen[cfile] - fpos) \in Int
        BY <2>1 DEF MinOf
      <3>4. Divides(g, Ahead')
        BY <2>2, <2>3, <3>2, <3>3, MultipleSum
      <3> QED BY <1>10, <2>2, <2>4, <3>1, <3>4 DEF ReadReturns
    <2>6. CASE rgot' = -1 /\ fpos' = fpos
      <3>1. Arrived' = 0
        BY <2>6
      <3>2. Divides(g, Ahead')
        BY <2>1, <2>3, <2>4, <2>6, <3>1
      <3> QED BY <1>10, <2>4, <3>1, <3>2 DEF ReadReturns
    <2> QED BY <1>10, <2>5, <2>6 DEF ReadReturns
  <1>11. CASE ReadOvertaken
    BY <1>11 DEF ReadOvertaken, ReadIsCurrent
  <1>12. CASE ReadFails
    BY <1>12 DEF ReadFails, ReadIsCurrent
  <1>13. CASE ReadArrives
    <2>1. /\ head \in Nat /\ rgot \in Nat \ {0} /\ fifosize \in Nat
          /\ fpos \in Nat
          /\ csf.limit \in Nat /\ FileLen[cfile] \in Nat
      <3>1. rgot \in Int /\ rgot > 0
        BY <1>13 DEF ReadArrives, IInv, TypeOK
      <3>2. head \in Nat /\ fifosize \in Nat /\ fpos \in Nat /\ cfile \in Files
        BY SizesAssumption DEF IInv, TypeOK
      <3>3. csf.limit \in Nat
        BY DEF IInv, TypeOK, Sf
      <3> QED BY <3>1, <3>2, <3>3, FilesAssumption
    <2>2. Arrived = rgot /\ Divides(g, rgot) /\ Divides(g, Ahead)
          /\ Divides(g, head)
      BY <1>13 DEF ReadArrives
    <2>3. Divides(g, head + rgot)
      <3> HIDE DEF AlignInv, Aligned, TickBytes, Arrived, Ahead
      <3> QED BY <1>a, <2>1, <2>2, MultipleSum
    <2>4. Divides(g, head')
      BY <1>13, <1>b, <2>1, <2>3 DEF ReadArrives
    <2>5. csf'.limit = csf.limit - rgot
      BY <1>13 DEF ReadArrives, IInv, TypeOK, Sf
    <2>6. cpc' \in {"loop", "lost"}
          /\ UNCHANGED <<cfile, fpos, tail, fifosize, gen, cgen, xsf, vec>>
      BY <1>13 DEF ReadArrives
    <2>7. Divides(g, Ahead')
      BY <2>1, <2>2, <2>5, <2>6
    <2>8. Aligned
      BY <1>13 DEF ReadArrives, ReadIsCurrent, OpenInv
    <2> QED BY <1>b, <2>4, <2>6, <2>7, <2>8
  <1>14. CASE LostWithFile
    BY <1>14 DEF LostWithFile, RequestAfterLoss
  <1>15. CASE LostWithoutFile
    BY <1>15 DEF LostWithoutFile, RequestAfterLoss, AnswerSignalled
  <1>16. CASE LostCloses
    BY <1>16 DEF LostCloses, AnswerSignalled, CloseFile
  <1>17. CASE ChildWakes
    BY <1>17 DEF ChildWakes
  <1>18. CASE ReadsfStart
    BY <1>18 DEF ReadsfStart
  <1>19. CASE ReadsfStop
    BY <1>19 DEF ReadsfStop, RequestSignalled
  <1>20. CASE ReadsfTick
    BY <1>20 DEF ReadsfTick
  <1>21. CASE ReadsfFree
    BY <1>21 DEF ReadsfFree, RequestSignalled
  <1>22. CASE PerformWaits
    BY <1>22 DEF PerformWaits, RequestSignalled, Performing
  <1>23. CASE PerformEnds
    BY <1>23 DEF PerformEnds, Performing
  <1>24. CASE PerformPlays
    <2>1. TickBytes \in Nat \ {0, 1} /\ TickBytes \in Nat \ {0}
          /\ tail \in Nat /\ fifosize \in Nat
      BY TickType, SizesAssumption DEF IInv, TypeOK
    <2>2. Aligned
      BY <1>24, <2>1 DEF PerformPlays, Short
    <2> HIDE DEF TickBytes
    <2>3. /\ Divides(TickBytes, TickBytes) /\ Divides(TickBytes, 0)
          /\ Divides(TickBytes, tail)
      BY <2>1, <2>2, DividesSelf
    <2>4. Divides(TickBytes, tail + TickBytes)
      <3> HIDE DEF AlignInv, Aligned, Arrived, Ahead
      <3> QED BY <2>1, <2>3, MultipleSum
    <2>5. Divides(TickBytes, tail')
      BY <1>24, <2>3, <2>4 DEF PerformPlays
    <2>6. TickBytes' = TickBytes
          /\ UNCHANGED <<gen, cgen, fifosize, head, rgot, csf, cfile, fpos,
                         rwant>>
      BY <1>24 DEF PerformPlays, TickBytes
    <2>7. cpc' = cpc \/ (cpc = "topwait" /\ cpc' = "topwake")
            \/ (cpc = "loopwait" /\ cpc' = "loopwake")
      BY <1>24 DEF PerformPlays, RequestSignalled
    <2> QED BY <2>2, <2>5, <2>6, <2>7
  <1>25. CASE FreeResumes
    BY <1>25 DEF FreeResumes, RequestSignalled
  <1>26. CASE FreeJoins
    BY <1>26 DEF FreeJoins
  <1>27. CASE SpuriousWakeup
    BY <1>27 DEF SpuriousWakeup, RequestSignalled, AnswerSignalled
  <1>28. ASSUME NEW f \in Files, NEW auto \in HeaderModes, NEW bpf \in RawBpf,
              ReadsfOpen(f, auto, bpf)
        PROVE  AlignInv(g)'
    <2>1. gen \in Nat /\ cgen \in Nat /\ gen' = gen + 1 /\ cgen' = cgen
          /\ cgen <= gen
      BY <1>28, SizesAssumption DEF ReadsfOpen, IInv, TypeOK, Gens, OpenInv
    <2>2. cgen' # gen' /\ Divides(g, 0)
      BY <1>a, <2>1, DividesSelf
    <2>3. cpc' = cpc \/ (cpc = "topwait" /\ cpc' = "topwake")
            \/ (cpc = "loopwait" /\ cpc' = "loopwake")
      BY <1>28 DEF ReadsfOpen, RequestSignalled
    <2>4. UNCHANGED <<csf, cfile, fpos, rwant, rgot, fifosize>>
          /\ head' = 0 /\ tail' = 0
      BY <1>28 DEF ReadsfOpen
    <2> QED BY <2>2, <2>3, <2>4
  <1>29. ASSUME NEW v \in VecSizes, ReadsfDsp(v) PROVE AlignInv(g)'
    <2>1. v \in Nat \ {0} /\ VecSizes = {v} /\ Divides(v, MaxVecSize)
      BY <1>29, SizesAssumption DEF SteadyVectors
    <2>2. /\ TickBytes' = v * xsf.bpf /\ xsf.bpf \in Nat \ {0}
          /\ TickBytes \in Nat \ {0} /\ fifosize \in Nat /\ tail \in Nat
      BY <1>29, TickType, SizesAssumption DEF ReadsfDsp, IInv, TypeOK, Sf
    <2>3. v * xsf.bpf \in Nat \ {0}
      BY <2>1, <2>2, ProductPositive
    <2>4. Divides(TickBytes', TickBytes)
      <3>1. CASE vec = v
        BY <2>1, <2>2, <2>3, <3>1, DividesSelf
      <3>2. CASE vec = MaxVecSize
        <4>1. Divides(v * xsf.bpf, MaxVecSize * xsf.bpf)
          <5> HIDE DEF AlignInv, Aligned, TickBytes, Arrived, Ahead
          <5> QED BY <2>1, <2>2, ProductDivides, SizesAssumption
        <4> QED BY <2>2, <3>2, <4>1
      <3> QED BY <2>1, <3>1, <3>2 DEF OpenInv
    <2> HIDE DEF TickBytes
    <2>5. ASSUME Aligned PROVE Aligned'
      <3>1. Divides(TickBytes', fifosize) /\ Divides(TickBytes', tail)
        BY <2>2, <2>3, <2>4, <2>5, MultipleOfMultiple
      <3> QED BY <1>29, <2>5, <3>1 DEF ReadsfDsp
    <2>6. UNCHANGED <<cpc, gen, cgen, csf, cfile, fpos, rwant, rgot,
                      fifosize, head, tail>>
      BY <1>29 DEF ReadsfDsp
    <2> QED BY <2>5, <2>6
  <1>30. CASE UNCHANGED vars
    BY <1>30 DEF vars
  <1> QED
    BY <1>1, <1>2, <1>3, <1>4, <1>5, <1>6, <1>7, <1>8, <1>9, <1>10,
       <1>11, <1>12, <1>13, <1>14, <1>15, <1>16, <1>17, <1>18, <1>19,
       <1>20, <1>21, <1>22, <1>23, <1>24, <1>25, <1>26, <1>27, <1>28,
       <1>29, <1>30
       DEF Next, Child, Message, ReadsfPerform

(* A tick that is not short lies in the fifo and in front of the head,     *)
(* although the test of lines 2035 and 2051 is one byte too weak: bytes    *)
(* come in multiples of g, and one byte less than a tick is none.          *)
LEMMA TickFits ==
  ASSUME NEW g \in Nat \ {0, 1}, WholeSamples(g),
         IInv, OpenInv, AlignInv(g), ~Short
  PROVE  \/ head >= tail + TickBytes /\ head < fifosize
         \/ head < tail /\ tail + TickBytes <= fifosize
  <1>1. /\ head \in Nat /\ tail \in Nat /\ fifosize \in Nat
        /\ TickBytes \in Nat \ {0, 1} /\ TickBytes \in Nat \ {0}
        /\ g \in Nat \ {0}
    BY TickType, SizesAssumption DEF IInv, TypeOK
  <1>2. ~(head = 0 /\ tail = 0)
    BY <1>1 DEF Short
  <1>3. gen # 0 /\ Divides(TickBytes, fifosize) /\ Divides(TickBytes, tail)
    BY <1>2 DEF AlignInv, Aligned
  <1>4. Divides(g, TickBytes)
    BY <1>3 DEF OpenInv, WholeSamples, TickBytes
  <1>5. tail = 0 \/ tail < fifosize
    BY DEF IInv, FifoInv
  <1>6. CASE head < tail
    <2>1. tail + TickBytes <= fifosize
      BY <1>1, <1>3, <1>5, <1>6, MultiplesApart
    <2> QED BY <1>6, <2>1
  <1>7. CASE head >= tail
    <2>1. Divides(g, tail + TickBytes) /\ Divides(g, head)
      <3>1. Divides(g, tail)
        BY <1>1, <1>3, <1>4, MultipleOfMultiple
      <3> QED BY <1>1, <1>4, <3>1, MultipleSum DEF AlignInv
    <2>2. head >= tail + TickBytes - 1
      BY <1>1, <1>7 DEF Short
    <2>3. head >= tail + TickBytes
      <3> SUFFICES ASSUME head < tail + TickBytes PROVE FALSE
        BY <1>1
      <3>1. head + g <= tail + TickBytes
        BY <1>1, <2>1, MultiplesApart
      <3> QED BY <1>1, <2>2, <3>1
    <2>4. head < fifosize
      BY <1>1, <2>3 DEF OpenInv
    <2> QED BY <2>3, <2>4
  <1> QED BY <1>1, <1>6, <1>7

(* Playing a tick takes it from the unread part, which begins at the new   *)
(* tail.                                                                   *)
LEMMA UnreadAfterTick ==
  ASSUME NEW g \in Nat \ {0, 1}, WholeSamples(g),
         IInv, OpenInv, AlignInv(g), PerformPlays
  PROVE  /\ Unread \in Nat /\ TickBytes \in Nat \ {0} /\ tail \in Nat
         /\ fifosize \in Nat
         /\ Unread' = Unread - TickBytes /\ TickBytes <= Unread
         /\ tail' = IF tail + TickBytes = fifosize THEN 0 ELSE tail + TickBytes
         /\ tail + TickBytes <= fifosize
  <1>1. /\ head \in Nat /\ tail \in Nat /\ fifosize \in Nat
        /\ TickBytes \in Nat \ {0, 1}
    BY TickType, SizesAssumption DEF IInv, TypeOK
  <1>2. \/ head >= tail + TickBytes /\ head < fifosize
        \/ head < tail /\ tail + TickBytes <= fifosize
    BY TickFits DEF PerformPlays
  <1>3. /\ tail' = IF tail + TickBytes >= fifosize THEN 0 ELSE tail + TickBytes
        /\ head' = head /\ fifosize' = fifosize
    BY DEF PerformPlays
  <1>4. tail = 0 \/ tail < fifosize
    BY DEF IInv, FifoInv
  <1> QED BY <1>1, <1>2, <1>3, <1>4 DEF Unread

(* The unread part fits the fifo with a byte to spare.                     *)
LEMMA UnreadFits ==
  ASSUME IInv, OpenInv
  PROVE  /\ head \in Nat /\ tail \in Nat /\ fifosize \in Nat
         /\ Unread \in Nat /\ (Unread = 0 \/ Unread < fifosize)
         /\ head = 0 /\ tail = 0 => Unread = 0
         /\ tail = 0 \/ tail < fifosize
         /\ head = 0 \/ head < fifosize
  <1>1. /\ head \in Nat /\ tail \in Nat /\ fifosize \in Nat
        /\ tail = 0 \/ tail < fifosize
        /\ head = 0 \/ head < fifosize
    BY SizesAssumption DEF IInv, TypeOK, FifoInv, OpenInv
  <1> QED BY <1>1 DEF Unread

(* No cells hold anything.                                                 *)
LEMMA HoldsNone ==
  ASSUME NEW b, NEW t, NEW size, NEW gn, NEW p
  PROVE  Holds(b, t, 0, size, gn, p)
  BY DEF Holds

(* What is left when the first m cells are played.                         *)
LEMMA HoldsRest ==
  ASSUME NEW b, NEW t \in Nat, NEW n \in Nat, NEW m \in Nat, NEW size \in Nat,
         NEW gn, NEW p \in Nat,
         Holds(b, t, n, size, gn, p), m <= n, n <= size, t + m <= size
  PROVE  Holds(b, IF t + m = size THEN 0 ELSE t + m, n - m, size, gn, p + m)
  <1> DEFINE u == IF t + m = size THEN 0 ELSE t + m
  <1> SUFFICES ASSUME NEW k \in 0..n - m - 1
               PROVE  b[Cell(u, k, size)] = [gen |-> gn, pos |-> p + m + k]
    BY DEF Holds
  <1>1. m + k \in 0..n - 1 /\ p + (m + k) = p + m + k
    OBVIOUS
  <1>2. Cell(u, k, size) = Cell(t, m + k, size)
    BY <1>1 DEF Cell
  <1>3. b[Cell(t, m + k, size)] = [gen |-> gn, pos |-> p + (m + k)]
    BY <1>1 DEF Holds
  <1> QED BY <1>1, <1>2, <1>3

(* Two runs of cells, the second where the first one ends.                 *)
LEMMA HoldsMore ==
  ASSUME NEW b, NEW t \in Nat, NEW n \in Nat, NEW m \in Nat, NEW size \in Nat,
         NEW h \in Nat, NEW gn, NEW p \in Nat,
         Holds(b, t, n, size, gn, p), Holds(b, h, m, size, gn, p + n),
         h = Cell(t, n, size), h + m <= size, n + m <= size
  PROVE  Holds(b, t, n + m, size, gn, p)
  <1> SUFFICES ASSUME NEW k \in 0..n + m - 1
               PROVE  b[Cell(t, k, size)] = [gen |-> gn, pos |-> p + k]
    BY DEF Holds
  <1>1. CASE k < n
    BY <1>1 DEF Holds
  <1>2. CASE k >= n
    <2>1. k - n \in 0..m - 1 /\ p + n + (k - n) = p + k
      BY <1>2
    <2>2. Cell(t, k, size) = Cell(h, k - n, size)
      BY <1>2 DEF Cell
    <2>3. b[Cell(h, k - n, size)] = [gen |-> gn, pos |-> p + n + (k - n)]
      BY <2>1 DEF Holds
    <2> QED BY <2>1, <2>2, <2>3
  <1> QED BY <1>1, <1>2

(* Writing free cells behind a run leaves the run as it is.                *)
LEMMA HoldsStill ==
  ASSUME NEW b, NEW c, NEW t \in Nat, NEW n \in Nat, NEW m \in Nat,
         NEW size \in Nat, NEW h \in Nat, NEW gn, NEW p \in Nat,
         Holds(b, t, n, size, gn, p), t = 0 \/ t < size,
         h = Cell(t, n, size), h + m <= size, n + m < size,
         \A i \in 0..size - 1 : i \notin h..h + m - 1 => c[i] = b[i]
  PROVE  Holds(c, t, n, size, gn, p)
  <1> SUFFICES ASSUME NEW k \in 0..n - 1
               PROVE  c[Cell(t, k, size)] = [gen |-> gn, pos |-> p + k]
    BY DEF Holds
  <1>1. /\ Cell(t, k, size) \in 0..size - 1
        /\ Cell(t, k, size) \notin h..h + m - 1
    BY DEF Cell
  <1> QED BY <1>1 DEF Holds

(* The unread part ends at the head.                                       *)
LEMMA HeadIsBehind ==
  ASSUME IInv, OpenInv
  PROVE  head = Cell(tail, Unread, fifosize)
  BY UnreadFits DEF Cell, Unread

(* The bytes that arrive become unread ones.                               *)
LEMMA UnreadAfterRead ==
  ASSUME IInv, OpenInv, PlaceInv, ReadArrives, Streaming
  PROVE  /\ rgot \in Nat \ {0} /\ Unread' = Unread + rgot
         /\ head + rgot <= fifosize /\ Unread + rgot < fifosize
         /\ played + Unread = fpos - rgot /\ Unread \in Nat
         /\ Holds(buf, head, rgot, fifosize, gen, fpos - rgot)
  <1>1. /\ cpc = "readdone" /\ rgot > 0 /\ request = "BUSY" /\ cpc \in Serving
        /\ head' = IF head + rgot = fifosize THEN 0 ELSE head + rgot
        /\ tail' = tail /\ fifosize' = fifosize
    BY DEF ReadArrives, ReadIsCurrent, Serving
  <1>2. Arrived = rgot
    BY <1>1 DEF Arrived
  <1>3. /\ rhead = head /\ Unread + rwant < fifosize
        /\ played + Unread = fpos - rgot
        /\ Holds(buf, head, rgot, fifosize, gen, fpos - rgot)
    BY <1>1, <1>2 DEF PlaceInv
  <1>4. rgot <= rwant /\ rhead + rwant <= fifosize
    BY <1>1 DEF IInv, FifoInv
  <1>5. rgot \in Nat \ {0} /\ rwant \in Nat
    BY <1>1 DEF IInv, TypeOK
  <1>6. head + rgot <= fifosize /\ Unread + rgot < fifosize /\ Unread \in Nat
    BY <1>3, <1>4, <1>5, UnreadFits
  <1>7. Unread' = Unread + rgot
    BY <1>1, <1>5, <1>6, UnreadFits DEF Unread
  <1> QED BY <1>3, <1>5, <1>6, <1>7

(* A read is told to write right behind the unread part, and lands there.  *)
LEMMA PlaceStep ==
  ASSUME NEW g \in Nat \ {0, 1}, WholeSamples(g), SteadyVectors,
         IInv, StreamInv(g), [Next]_vars
  PROVE  PlaceInv'
  <1>a. OpenInv /\ AlignInv(g) /\ PlaceInv /\ CellInv
    BY DEF StreamInv
  <1> USE <1>a
  <1> USE DEF PlaceInv, Streaming, Arrived, Unread, Serving, parentVars,
      fifoVars, readVars, history
  <1>1. CASE ChildIdles
    BY <1>1 DEF ChildIdles, AnswerSignalled
  <1>2. CASE ChildTakesOpen
    BY <1>2 DEF ChildTakesOpen
  <1>3. CASE ChildTakesClose
    BY <1>3 DEF ChildTakesClose, AnswerSignalled
  <1>4. CASE ChildTakesQuit
    BY <1>4 DEF ChildTakesQuit, AnswerSignalled
  <1>5. CASE ChildFailsToOpen
    BY <1>5 DEF ChildFailsToOpen
  <1>6. CASE ChildOpens
    <2>1. /\ cpc' \in {"loop", "lost"} /\ head' = 0 /\ tail' = 0 /\ fpos' = 0
          /\ UNCHANGED <<state, gen, played, rgot>>
          /\ state # "IDLE" => played = 0
      BY <1>6 DEF ChildOpens, OpenInv
    <2> QED BY <2>1, HoldsNone
  <1>7. CASE LoopEnds
    BY <1>7 DEF LoopEnds
  <1>8. CASE LoopWaits
    BY <1>8 DEF LoopWaits, AnswerSignalled, LoopRuns
  <1>9. CASE LoopReads
    <2>1. /\ cpc = "loop" /\ ~FifoFed /\ rhead' = head /\ rwant' = WantBytes
          /\ cpc' = "reading"
          /\ UNCHANGED <<state, gen, cgen, played, head, tail, fifosize, buf,
                         rgot, fpos>>
      BY <1>9 DEF LoopReads, LoopRuns
    <2>2. ReadSize \in Nat /\ csf.limit \in Nat
      BY SizesAssumption DEF IInv, TypeOK, Sf
    <2>3. Unread + WantBytes < fifosize
      BY <2>1, <2>2, UnreadFits DEF FifoFed, WantBytes, MinOf
    <2> QED BY <2>1, <2>3, HoldsNone
  <1>10. CASE ReadReturns
    <2> SUFFICES ASSUME Streaming
                 PROVE  /\ played + Unread = fpos' - Arrived'
                        /\ rhead = head /\ Unread + rwant < fifosize
                        /\ Holds(buf', rhead, Arrived', fifosize, gen,
                                 fpos' - Arrived')
      BY <1>10 DEF ReadReturns
    <2> DEFINE n == MinOf(rwant, FileLen[cfile] - fpos)
    <2>0. fpos \in Nat
      BY DEF IInv, TypeOK
    <2>1. /\ rhead = head /\ Unread + rwant < fifosize /\ cpc' = "readdone"
          /\ played + Unread = fpos
      BY <1>10, <2>0 DEF ReadReturns
    <2>2. /\ n \in Nat /\ fpos \in Nat /\ rhead \in Nat /\ n <= rwant
          /\ rhead + n <= fifosize /\ fifosize \in 0..BufSize
      BY SMTT(20), <1>10, FilesAssumption DEF ReadReturns, IInv, TypeOK, FifoInv,
         Serving, MinOf
    <2>3. CASE /\ rgot' = n /\ fpos' = fpos + n
               /\ buf' = [i \in DOMAIN buf |->
                            IF i \in rhead..rhead + n - 1
                              THEN [gen |-> cgen, pos |-> fpos + (i - rhead)]
                              ELSE buf[i]]
      <3>1. Arrived' = n /\ fpos' - Arrived' = fpos
        BY <2>1, <2>2, <2>3
      <3> HIDE DEF n
      <3>2. ASSUME NEW k \in 0..n - 1
            PROVE  buf'[Cell(rhead, k, fifosize)] = [gen |-> gen, pos |-> fpos + k]
        <4>1. /\ Cell(rhead, k, fifosize) = rhead + k
              /\ rhead + k \in 0..BufSize - 1
              /\ rhead + k \in rhead..rhead + n - 1
          BY <2>2, SizesAssumption DEF Cell
        <4>2. DOMAIN buf = 0..BufSize - 1
          BY DEF IInv, TypeOK
        <4>3. PICK j \in 0..BufSize - 1 : j = rhead + k
          BY <4>1
        <4>4. j \in DOMAIN buf /\ j \in rhead..rhead + n - 1
          BY <4>1, <4>2, <4>3
        <4>5. buf'[j] = [gen |-> cgen, pos |-> fpos + (j - rhead)]
          BY <2>3, <4>4
        <4>6. fpos + (j - rhead) = fpos + k
          BY <2>2, <4>3
        <4> QED BY <4>1, <4>3, <4>5, <4>6
      <3>3. Holds(buf', rhead, n, fifosize, gen, fpos)
        BY <3>2 DEF Holds
      <3> QED BY <2>1, <3>1, <3>3
    <2>4. CASE rgot' = -1 /\ UNCHANGED <<fpos, buf>>
      <3>1. Arrived' = 0
        BY <2>4
      <3> QED BY <2>1, <2>2, <2>4, <3>1, HoldsNone
    <2> HIDE DEF Arrived
    <2> QED BY <1>10, <2>3, <2>4 DEF ReadReturns
  <1>11. CASE ReadOvertaken
    BY <1>11 DEF ReadOvertaken, ReadIsCurrent
  <1>12. CASE ReadFails
    BY <1>12 DEF ReadFails, ReadIsCurrent
  <1>13. CASE ReadArrives
    <2>1. cpc' \in {"loop", "lost"}
          /\ UNCHANGED <<state, gen, cgen, played, fpos, rgot>>
      BY <1>13 DEF ReadArrives
    <2>2. Arrived' = 0 /\ fpos' - 0 = fpos
      BY <2>1 DEF IInv, TypeOK
    <2> HIDE DEF Arrived
    <2> SUFFICES ASSUME Streaming
                 PROVE  played + Unread' = fpos
      BY <2>1, <2>2, HoldsNone
    <2> HIDE DEF Unread
    <2>3. played \in Nat /\ fpos \in Nat
      BY DEF IInv, TypeOK
    <2> QED BY <1>13, <2>3, UnreadAfterRead
  <1>14. CASE LostWithFile
    BY <1>14 DEF LostWithFile, RequestAfterLoss
  <1>15. CASE LostWithoutFile
    BY <1>15 DEF LostWithoutFile, RequestAfterLoss, AnswerSignalled
  <1>16. CASE LostCloses
    BY <1>16 DEF LostCloses, AnswerSignalled, CloseFile
  <1>17. CASE ChildWakes
    BY <1>17 DEF ChildWakes
  <1>18. CASE ReadsfStart
    BY <1>18 DEF ReadsfStart
  <1>19. CASE ReadsfStop
    BY <1>19 DEF ReadsfStop, RequestSignalled
  <1>20. CASE ReadsfTick
    BY <1>20 DEF ReadsfTick
  <1>21. CASE ReadsfFree
    BY <1>21 DEF ReadsfFree, RequestSignalled
  <1>22. CASE PerformWaits
    BY <1>22 DEF PerformWaits, RequestSignalled, Performing
  <1>23. CASE PerformEnds
    BY <1>23 DEF PerformEnds, Performing
  <1>24. CASE PerformPlays
    <2>1. cpc' = cpc \/ (cpc = "topwait" /\ cpc' = "topwake")
            \/ (cpc = "loopwait" /\ cpc' = "loopwake")
      BY <1>24 DEF PerformPlays, RequestSignalled
    <2>2. /\ played' = played + TickBytes
          /\ UNCHANGED <<state, gen, cgen, head, fifosize, buf, rhead, rwant,
                         rgot, fpos>>
      BY <1>24 DEF PerformPlays
    <2>3. /\ Unread' = Unread - TickBytes /\ TickBytes \in Nat
          /\ Unread \in Nat /\ fifosize \in Nat
      BY <1>24, UnreadAfterTick
    <2>4. played \in Nat /\ rwant \in Nat
      BY DEF IInv, TypeOK
    <2> HIDE DEF Unread, TickBytes
    <2>5. /\ played' + Unread' = played + Unread
          /\ Unread + rwant < fifosize => Unread' + rwant < fifosize
      BY <2>2, <2>3, <2>4
    <2> QED BY <2>1, <2>2, <2>5
  <1>25. CASE FreeResumes
    BY <1>25 DEF FreeResumes, RequestSignalled
  <1>26. CASE FreeJoins
    BY <1>26 DEF FreeJoins
  <1>27. CASE SpuriousWakeup
    BY <1>27 DEF SpuriousWakeup, RequestSignalled, AnswerSignalled
  <1>28. ASSUME NEW f \in Files, NEW auto \in HeaderModes, NEW bpf \in RawBpf,
              ReadsfOpen(f, auto, bpf)
        PROVE  PlaceInv'
    <2>1. gen \in Nat /\ cgen \in Nat /\ gen' = gen + 1 /\ cgen' = cgen
          /\ cgen <= gen
      BY <1>28, SizesAssumption DEF ReadsfOpen, IInv, TypeOK, Gens, OpenInv
    <2>2. cgen' # gen'
      BY <2>1
    <2> QED BY <2>2
  <1>29. ASSUME NEW v \in VecSizes, ReadsfDsp(v) PROVE PlaceInv'
    BY <1>29 DEF ReadsfDsp
  <1>30. CASE UNCHANGED vars
    BY <1>30 DEF vars
  <1> QED
    BY <1>1, <1>2, <1>3, <1>4, <1>5, <1>6, <1>7, <1>8, <1>9, <1>10,
       <1>11, <1>12, <1>13, <1>14, <1>15, <1>16, <1>17, <1>18, <1>19,
       <1>20, <1>21, <1>22, <1>23, <1>24, <1>25, <1>26, <1>27, <1>28,
       <1>29, <1>30
       DEF Next, Child, Message, ReadsfPerform

(* The unread bytes are untouched by reads and grow by what is read.       *)
LEMMA CellStep ==
  ASSUME NEW g \in Nat \ {0, 1}, WholeSamples(g), SteadyVectors,
         IInv, StreamInv(g), [Next]_vars
  PROVE  CellInv'
  <1>a. OpenInv /\ AlignInv(g) /\ PlaceInv /\ CellInv
    BY DEF StreamInv
  <1> USE <1>a
  <1> USE DEF CellInv, Unread, parentVars, fifoVars, readVars, history
  <1>1. CASE ChildIdles
    BY <1>1 DEF ChildIdles, AnswerSignalled
  <1>2. CASE ChildTakesOpen
    BY <1>2 DEF ChildTakesOpen
  <1>3. CASE ChildTakesClose
    BY <1>3 DEF ChildTakesClose, AnswerSignalled
  <1>4. CASE ChildTakesQuit
    BY <1>4 DEF ChildTakesQuit, AnswerSignalled
  <1>5. CASE ChildFailsToOpen
    BY <1>5 DEF ChildFailsToOpen
  <1>6. CASE ChildOpens
    <2>1. head' = 0 /\ tail' = 0
      BY <1>6 DEF ChildOpens, OpenInv
    <2> QED BY <2>1, HoldsNone
  <1>7. CASE LoopEnds
    BY <1>7 DEF LoopEnds
  <1>8. CASE LoopWaits
    BY <1>8 DEF LoopWaits, AnswerSignalled, LoopRuns
  <1>9. CASE LoopReads
    BY <1>9 DEF LoopReads, LoopRuns
  <1>10. CASE ReadReturns
    <2> DEFINE n == MinOf(rwant, FileLen[cfile] - fpos)
    <2>1. /\ n \in Nat /\ rhead \in Nat /\ n <= rwant /\ rwant \in Nat
          /\ rhead + rwant <= fifosize /\ played \in Nat
          /\ DOMAIN buf = 0..BufSize - 1 /\ fifosize \in 0..BufSize
      BY <1>10, FilesAssumption DEF ReadReturns, IInv, TypeOK, FifoInv,
         Serving, MinOf
    <2>2. UNCHANGED <<state, head, tail, fifosize, gen, played>>
      BY <1>10 DEF ReadReturns
    <2>3. ASSUME state # "IDLE"
          PROVE  Holds(buf', tail, Unread, fifosize, gen, played)
      <3> HIDE DEF Unread
      <3>1. CASE cgen # gen
        <4>1. Unread = 0
          BY <3>1, UnreadFits DEF OpenInv
        <4> QED BY <4>1, HoldsNone
      <3>2. CASE cgen = gen
        <4>1. rhead = head /\ Unread + rwant < fifosize
          BY <1>10, <2>3, <3>2 DEF ReadReturns, PlaceInv, Streaming, Serving
        <4>2. \A i \in 0..fifosize - 1 :
                i \notin head..head + n - 1 => buf'[i] = buf[i]
          <5>1. CASE buf' = [i \in DOMAIN buf |->
                              IF i \in rhead..rhead + n - 1
                                THEN [gen |-> cgen, pos |-> fpos + (i - rhead)]
                                ELSE buf[i]]
            <6> HIDE DEF n
            <6> QED BY <2>1, <4>1, <5>1, SizesAssumption
          <5>2. CASE buf' = buf
            BY <5>2
          <5> QED BY <1>10, <5>1, <5>2 DEF ReadReturns
        <4>3. Holds(buf, tail, Unread, fifosize, gen, played)
          BY <2>3
        <4>4. /\ head = Cell(tail, Unread, fifosize) /\ head + n <= fifosize
              /\ Unread + n < fifosize /\ Unread \in Nat /\ tail \in Nat
              /\ tail = 0 \/ tail < fifosize
              /\ head \in Nat /\ fifosize \in Nat
          BY <2>1, <4>1, UnreadFits, HeadIsBehind
        <4> HIDE DEF n
        <4> QED BY <2>1, <4>2, <4>3, <4>4, HoldsStill
      <3> QED BY <3>1, <3>2
    <2> QED BY <2>2, <2>3
  <1>11. CASE ReadOvertaken
    BY <1>11 DEF ReadOvertaken, ReadIsCurrent
  <1>12. CASE ReadFails
    BY <1>12 DEF ReadFails, ReadIsCurrent
  <1>13. CASE ReadArrives
    <2>1. cgen = gen /\ UNCHANGED <<state, buf, tail, fifosize, gen, played>>
      BY <1>13 DEF ReadArrives, ReadIsCurrent, OpenInv
    <2>2. ASSUME state # "IDLE"
          PROVE  Holds(buf, tail, Unread', fifosize, gen, played)
      <3> HIDE DEF Unread
      <3>1. /\ rgot \in Nat \ {0} /\ Unread' = Unread + rgot
            /\ head + rgot <= fifosize /\ Unread + rgot < fifosize
            /\ played + Unread = fpos - rgot /\ Unread \in Nat
            /\ Holds(buf, head, rgot, fifosize, gen, fpos - rgot)
        BY <1>13, <2>1, <2>2, UnreadAfterRead DEF Streaming
      <3>2. Holds(buf, head, rgot, fifosize, gen, played + Unread)
        BY <3>1
      <3>3. /\ head = Cell(tail, Unread, fifosize) /\ played \in Nat
            /\ head \in Nat /\ tail \in Nat /\ fifosize \in Nat /\ rgot \in Nat
        BY <3>1, UnreadFits, HeadIsBehind DEF IInv, TypeOK
      <3>4. Holds(buf, tail, Unread, fifosize, gen, played)
        BY <2>2
      <3>5. Unread + rgot <= fifosize
        BY <3>1, <3>3
      <3>6. Holds(buf, tail, Unread + rgot, fifosize, gen, played)
        BY <3>1, <3>2, <3>3, <3>4, <3>5, HoldsMore
      <3> QED BY <3>1, <3>6
    <2> QED BY <2>1, <2>2
  <1>14. CASE LostWithFile
    BY <1>14 DEF LostWithFile, RequestAfterLoss
  <1>15. CASE LostWithoutFile
    BY <1>15 DEF LostWithoutFile, RequestAfterLoss, AnswerSignalled
  <1>16. CASE LostCloses
    BY <1>16 DEF LostCloses, AnswerSignalled, CloseFile
  <1>17. CASE ChildWakes
    BY <1>17 DEF ChildWakes
  <1>18. CASE ReadsfStart
    BY <1>18 DEF ReadsfStart
  <1>19. CASE ReadsfStop
    BY <1>19 DEF ReadsfStop, RequestSignalled
  <1>20. CASE ReadsfTick
    BY <1>20 DEF ReadsfTick
  <1>21. CASE ReadsfFree
    BY <1>21 DEF ReadsfFree, RequestSignalled
  <1>22. CASE PerformWaits
    BY <1>22 DEF PerformWaits, RequestSignalled, Performing
  <1>23. CASE PerformEnds
    BY <1>23 DEF PerformEnds, Performing
  <1>24. CASE PerformPlays
    <2>1. /\ played' = played + TickBytes
          /\ UNCHANGED <<state, gen, fifosize, buf>>
      BY <1>24 DEF PerformPlays
    <2>2. ASSUME state # "IDLE"
          PROVE  Holds(buf, tail', Unread', fifosize, gen, played + TickBytes)
      <3> HIDE DEF Unread
      <3>1. /\ Unread \in Nat /\ TickBytes \in Nat \ {0} /\ tail \in Nat
            /\ fifosize \in Nat
            /\ Unread' = Unread - TickBytes /\ TickBytes <= Unread
            /\ tail' = IF tail + TickBytes = fifosize THEN 0 ELSE tail + TickBytes
            /\ tail + TickBytes <= fifosize
        BY <1>24, UnreadAfterTick
      <3>2. Unread <= fifosize /\ played \in Nat /\ TickBytes \in Nat
        BY <3>1, UnreadFits DEF IInv, TypeOK
      <3>3. Holds(buf, tail, Unread, fifosize, gen, played)
        BY <2>2
      <3> QED BY <3>1, <3>2, <3>3, HoldsRest
    <2> QED BY <2>1, <2>2
  <1>25. CASE FreeResumes
    BY <1>25 DEF FreeResumes, RequestSignalled
  <1>26. CASE FreeJoins
    BY <1>26 DEF FreeJoins
  <1>27. CASE SpuriousWakeup
    BY <1>27 DEF SpuriousWakeup, RequestSignalled, AnswerSignalled
  <1>28. ASSUME NEW f \in Files, NEW auto \in HeaderModes, NEW bpf \in RawBpf,
              ReadsfOpen(f, auto, bpf)
        PROVE  CellInv'
    <2>1. head' = 0 /\ tail' = 0
      BY <1>28 DEF ReadsfOpen
    <2> QED BY <2>1, HoldsNone
  <1>29. ASSUME NEW v \in VecSizes, ReadsfDsp(v) PROVE CellInv'
    BY <1>29 DEF ReadsfDsp
  <1>30. CASE UNCHANGED vars
    BY <1>30 DEF vars
  <1> QED
    BY <1>1, <1>2, <1>3, <1>4, <1>5, <1>6, <1>7, <1>8, <1>9, <1>10,
       <1>11, <1>12, <1>13, <1>14, <1>15, <1>16, <1>17, <1>18, <1>19,
       <1>20, <1>21, <1>22, <1>23, <1>24, <1>25, <1>26, <1>27, <1>28,
       <1>29, <1>30
       DEF Next, Child, Message, ReadsfPerform
-----------------------------------------------------------------------------
(* The end of a stream, for frames that are whole numbers of samples.      *)
WholeFrames(g) == \A b \in FrameSizes : Divides(g, b)

(* The bytes the child may read from the file of the newest open.          *)
LimitAsked == IF asked THEN FileLimit[cfile] ELSE FileLen[cfile] + HeaderBytes

Leaving == {"freewait", "freewake", "joining", "freed"}

(* What the child's copy has left to read, and what end-of-file and an     *)
(* error mean for the stream that plays, unless an older open has written  *)
(* its outcome over what the newest one stored.                            *)
EofInv ==
  /\ cpc \in Serving \cup {"opening"} => request # "NOTHING"
  /\ cgen # gen /\ state # "IDLE" /\ ppc \notin Leaving => request = "OPEN"
  /\ request = "OPEN" /\ ~overruled => ~eof /\ xsf.auto = asked
  /\ cpc \in Serving \cup {"opening"} /\ Streaming => cfile = xfile
  /\ cpc \in Serving \cup {"opening"} /\ Streaming /\ ~overruled => ~eof
  /\ cpc = "opening" /\ Streaming /\ ~overruled => csf.auto = asked
  /\ cpc \in Serving /\ Streaming /\ ~overruled =>
       csf.limit = LimitAsked - fpos + Arrived
  /\ cpc \in {"reading", "readdone"} /\ rwant = 0 => csf.limit = 0
  /\ cpc = "readdone" => rgot = -1 \/ rgot = rwant \/ fpos = FileLen[cfile]
  /\ cpc = "lost" /\ ppc \notin Leaving /\ Streaming => eof \/ fileerror
  /\ eof /\ ~fileerror /\ ~overruled /\ state # "IDLE" /\ ppc \notin Leaving =>
       cgen = gen /\ played + Unread = StreamBytes
  /\ state # "IDLE" => Divides(xsf.bpf, played)

(* A request that overtakes a stream that plays comes from the destructor.  *)
LEMMA OnlyQuitOvertakes ==
  ASSUME IInv, OpenInv, Streaming, request \notin {"BUSY", "NOTHING"}
  PROVE  ppc \in Leaving
  <1>1. request \in {"OPEN", "CLOSE", "QUIT"}
    BY DEF IInv, TypeOK, Requests
  <1> QED BY <1>1 DEF OpenInv, Streaming, IInv, MailInv, Freeing, Leaving

(* End-of-file is only reported when all of the file is in the fifo.       *)
LEMMA EofStep ==
  ASSUME NEW g \in Nat \ {0, 1}, WholeSamples(g), SteadyVectors,
         IInv, StreamInv(g), EofInv, [Next]_vars
  PROVE  EofInv'
  <1>a. OpenInv /\ AlignInv(g) /\ PlaceInv /\ MailInv
    BY DEF StreamInv, IInv
  <1> USE <1>a
  <1> USE DEF EofInv, Streaming, Arrived, Unread, Serving, Leaving,
      LimitAsked, StreamBytes, parentVars, fifoVars, readVars, history
  <1>1. CASE ChildIdles
    BY <1>1 DEF ChildIdles, AnswerSignalled
  <1>2. CASE ChildTakesOpen
    <2>1. csf.fd = NoFd
      BY <1>2 DEF ChildTakesOpen, IInv, FdInv
    <2> QED BY <1>2, <2>1 DEF ChildTakesOpen
  <1>3. CASE ChildTakesClose
    BY <1>3 DEF ChildTakesClose, AnswerSignalled
  <1>4. CASE ChildTakesQuit
    BY <1>4 DEF ChildTakesQuit, AnswerSignalled
  <1>5. CASE ChildFailsToOpen
    BY <1>5 DEF ChildFailsToOpen, OverrulesNewer
  <1>6. CASE ChildOpens
    <2>1. /\ xsf' = OpenedSf /\ csf' = OpenedSf /\ fpos' = 0 /\ Arrived' = 0
          /\ head' = 0 /\ tail' = 0 /\ tail = 0 /\ head = 0
          /\ UNCHANGED <<state, request, gen, cgen, eof, fileerror, cfile,
                         xfile, asked, played, ppc>>
          /\ cpc' = IF request = "BUSY" THEN "loop" ELSE "lost"
          /\ state # "IDLE" => played = 0
      BY <1>6 DEF ChildOpens, OpenInv
    <2>7. ~overruled' => ~overruled /\ request # "OPEN"
      BY <1>6 DEF ChildOpens, OverrulesNewer
    <2>2. OpenedSf.bpf \in Nat \ {0}
      BY FilesAssumption DEF OpenedSf, IInv, TypeOK, Sf
    <2>3. Divides(OpenedSf.bpf, 0)
      BY <2>2, DividesSelf
    <2>4. cpc' = "lost" /\ Streaming => ppc \in Leaving
      BY <2>1, <1>6, OnlyQuitOvertakes DEF ChildOpens
    <2>5. cpc' = "loop" /\ Streaming /\ ~overruled =>
            csf'.limit = LimitAsked' - fpos' + Arrived'
      <3>1. ASSUME Streaming, ~overruled
            PROVE  OpenedSf.limit = LimitAsked
        BY <1>6, <3>1 DEF ChildOpens, OpenedSf
      <3>2. LimitAsked \in Nat /\ LimitAsked' = LimitAsked
        BY <2>1, FilesAssumption DEF IInv, TypeOK
      <3> HIDE DEF OpenedSf, LimitAsked, Arrived
      <3> QED BY <2>1, <3>1, <3>2
    <2>6. ~(eof' /\ ~fileerror' /\ ~overruled' /\ state' # "IDLE"
              /\ ppc' \notin Leaving)
      BY <2>1, <2>7, <1>6 DEF ChildOpens
    <2> HIDE DEF OpenedSf, Arrived, Unread, LimitAsked
    <2> QED
      BY <2>1, <2>2, <2>3, <2>4, <2>5, <2>6, <2>7, <1>6 DEF ChildOpens
  <1>7. CASE LoopEnds
    <2>1. request # "BUSY" /\ Streaming => ppc \in Leaving
      BY <1>7, OnlyQuitOvertakes DEF LoopEnds
    <2> QED BY <1>7, <2>1 DEF LoopEnds
  <1>8. CASE LoopWaits
    BY <1>8 DEF LoopWaits, AnswerSignalled, LoopRuns
  <1>9. CASE LoopReads
    <2>1. /\ csf.limit \in Nat /\ ReadSize \in Nat \ {0}
      BY SizesAssumption DEF IInv, TypeOK, Sf
    <2>2. WantBytes = 0 => csf.limit = 0
      BY <1>9, <2>1, UnreadFits DEF LoopReads, FifoFed, WantBytes, MinOf
    <2> QED BY <1>9, <2>2 DEF LoopReads, LoopRuns
  <1>10. CASE ReadReturns
    <2> DEFINE n == MinOf(rwant, FileLen[cfile] - fpos)
    <2>1. /\ rwant \in Nat /\ fpos \in Nat /\ FileLen[cfile] \in Nat
          /\ fpos <= FileLen[cfile] /\ LimitAsked \in Nat
      BY <1>10, FilesAssumption DEF ReadReturns, IInv, TypeOK, FifoInv, Serving
    <2>2. /\ n \in Nat /\ (n = rwant \/ fpos + n = FileLen[cfile])
          /\ Streaming /\ ~overruled => csf.limit = LimitAsked - fpos
      <3> HIDE DEF LimitAsked
      <3> QED BY <1>10, <2>1 DEF ReadReturns, MinOf
    <2>3. /\ Streaming /\ ~overruled =>
               csf'.limit = LimitAsked' - fpos' + Arrived'
          /\ rgot' = -1 \/ rgot' = rwant' \/ fpos' = FileLen[cfile']
      <3> HIDE DEF n
      <3>0. /\ cpc' = "readdone" /\ csf' = csf /\ cfile' = cfile
            /\ rwant' = rwant /\ LimitAsked' = LimitAsked
        BY <1>10 DEF ReadReturns
      <3> HIDE <1>a DEF EofInv, LimitAsked
      <3>1. CASE rgot' = n /\ fpos' = fpos + n
        <4>2. Arrived' = n
          BY <2>2, <3>0, <3>1
        <4> HIDE DEF Arrived
        <4>3. Streaming /\ ~overruled =>
                csf.limit = LimitAsked - (fpos + n) + n
          BY <2>1, <2>2
        <4> QED BY <2>2, <3>0, <3>1, <4>2, <4>3
      <3>2. CASE rgot' = -1 /\ fpos' = fpos
        <4>1. Arrived' = 0
          BY <3>0, <3>2
        <4> HIDE DEF Arrived
        <4> QED BY <2>1, <2>2, <3>0, <3>2, <4>1
      <3> QED BY <1>10, <3>1, <3>2 DEF ReadReturns, n
    <2>4. /\ cpc' = "readdone"
          /\ UNCHANGED <<xsf, csf, asked, overruled, request, cgen, gen, state,
                         ppc, eof, fileerror, cfile, xfile, rwant, played, head,
                         tail, fifosize>>
      BY <1>10 DEF ReadReturns
    <2> HIDE DEF Arrived, LimitAsked
    <2> QED BY <1>10, <2>3, <2>4 DEF ReadReturns
  <1>11. CASE ReadOvertaken
    <2>1. Streaming => ppc \in Leaving
      BY <1>11, OnlyQuitOvertakes DEF ReadOvertaken, ReadIsCurrent
    <2> QED BY <1>11, <2>1 DEF ReadOvertaken
  <1>12. CASE ReadFails
    <2>1. /\ cpc = "readdone" /\ request = "BUSY" /\ rgot <= 0 /\ cgen = gen
          /\ cpc \in Serving
      BY <1>12 DEF ReadFails, ReadIsCurrent, OpenInv
    <2>2. /\ rgot \in Nat \cup {-1} /\ rwant \in Nat /\ fpos \in Nat
          /\ FileLen[cfile] \in Nat /\ FileLimit[cfile] \in Nat
          /\ HeaderBytes \in Nat /\ fpos <= FileLen[cfile]
          /\ csf.limit \in Nat
      BY <2>1, FilesAssumption DEF IInv, TypeOK, FifoInv, Sf
    <2>3. ASSUME eof', ~fileerror', state # "IDLE", ~overruled
          PROVE  played + Unread = StreamBytes
      <3>1. cfile = xfile /\ ~eof /\ played + Unread = fpos - Arrived
        BY <2>1, <2>3 DEF PlaceInv
      <3>2. rgot = 0 /\ Arrived = 0
        BY <1>12, <2>3, <3>1, <2>2 DEF ReadFails
      <3>3. csf.limit = LimitAsked - fpos
        BY <2>1, <2>2, <2>3, <3>2
      <3>4. csf.limit = 0 \/ fpos = FileLen[cfile]
        BY <2>1, <3>2
      <3> HIDE <1>a DEF EofInv, Unread, Arrived
      <3>5. fpos = StreamBytes
        <4> DEFINE l == csf.limit
        <4>1. l \in Nat /\ l = LimitAsked - fpos
              /\ (l = 0 \/ fpos = FileLen[cfile])
          BY <2>2, <3>3, <3>4
        <4> HIDE DEF l
        <4>2. CASE asked
          BY <2>2, <3>1, <4>1, <4>2 DEF MinOf
        <4>3. CASE ~asked
          BY <2>2, <3>1, <4>1, <4>3 DEF MinOf
        <4> QED BY <4>2, <4>3
      <3> HIDE DEF StreamBytes
      <3> QED BY <2>2, <3>1, <3>2, <3>5
    <2>4. /\ cpc' = "lost"
          /\ UNCHANGED <<xsf, csf, asked, overruled, request, cgen, gen, state,
                         ppc, cfile, xfile, played, head, tail, fifosize>>
          /\ eof' = (eof \/ rgot = 0) /\ fileerror' = (fileerror \/ rgot < 0)
      BY <1>12 DEF ReadFails
    <2>5. eof' \/ fileerror'
      <3>1. rgot = 0 \/ rgot < 0
        BY <2>1, <2>2
      <3> QED BY <2>4, <3>1
    <2> QED BY <2>1, <2>3, <2>4, <2>5
  <1>13. CASE ReadArrives
    <2>1. /\ cpc = "readdone" /\ request = "BUSY" /\ rgot > 0 /\ cgen = gen
          /\ cpc \in Serving
      BY <1>13 DEF ReadArrives, ReadIsCurrent, OpenInv
    <2>2. /\ rgot \in Nat /\ fpos \in Nat /\ csf.limit \in Nat
          /\ FileLen[cfile] \in Nat /\ FileLimit[cfile] \in Nat
          /\ HeaderBytes \in Nat /\ fpos <= FileLen[cfile] /\ played \in Nat
          /\ rgot <= csf.limit
      <3>1. rgot <= rwant /\ rwant <= csf.limit /\ fpos <= FileLen[cfile]
        BY <2>1 DEF IInv, FifoInv
      <3> QED BY <2>1, <3>1, FilesAssumption DEF IInv, TypeOK, Sf
    <2>7. state # "IDLE" /\ ~overruled =>
            csf.limit = LimitAsked - fpos + rgot
      BY <2>1, <2>2
    <2>3. /\ csf'.limit = csf.limit - rgot /\ csf'.auto = csf.auto
      BY <1>13 DEF ReadArrives, IInv, TypeOK, Sf
    <2>4. /\ UNCHANGED <<xsf, asked, overruled, request, cgen, gen, state, cfile,
                         fpos, fileerror, xfile, played, tail, fifosize>>
          /\ \/ csf.limit - rgot <= 0 /\ eof' = TRUE /\ cpc' = "lost"
             \/ csf.limit - rgot > 0 /\ cpc' = "loop" /\ eof' = eof
          /\ ppc' \notin Leaving => ppc \notin Leaving
      BY <1>13, <2>2 DEF ReadArrives, AnswerSignalled
    <2>5. ASSUME eof', state # "IDLE", ~overruled
          PROVE  played + Unread' = StreamBytes
      <3>1. Streaming /\ cfile = xfile /\ ~eof
        BY <2>1, <2>5
      <3>2. csf.limit - rgot <= 0
        BY <2>4, <2>5, <3>1
      <3>3. fpos = StreamBytes
        <4>1. csf.limit = LimitAsked - fpos + rgot
          BY <2>5, <2>7
        <4> HIDE <1>a DEF EofInv
        <4>2. LimitAsked = fpos
          BY <2>2, <3>2, <4>1
        <4> QED BY <2>2, <3>1, <4>2 DEF MinOf
      <3> HIDE DEF Unread, Streaming, StreamBytes
      <3>4. /\ Unread' = Unread + rgot /\ Unread \in Nat
            /\ played + Unread = fpos - rgot
        BY <1>13, <3>1, UnreadAfterRead
      <3> QED BY <2>2, <3>1, <3>3, <3>4
    <2>6. /\ Arrived' = 0 /\ LimitAsked' = LimitAsked
          /\ state # "IDLE" /\ ~overruled => csf'.limit = LimitAsked' - fpos' + 0
      <3>1. LimitAsked \in Nat /\ LimitAsked' = LimitAsked /\ Arrived' = 0
        BY <2>2, <2>4
      <3> HIDE <1>a DEF LimitAsked, EofInv, Arrived
      <3> QED BY <2>2, <2>3, <2>4, <2>7, <3>1
    <2>8. StreamBytes' = StreamBytes
      BY <2>4
    <2> HIDE DEF Arrived, Unread, LimitAsked, StreamBytes
    <2> QED BY <2>1, <2>3, <2>4, <2>5, <2>6, <2>8
  <1>14. CASE LostWithFile
    <2>1. xsf'.auto = xsf.auto /\ xsf'.bpf = xsf.bpf
      BY <1>14 DEF LostWithFile, IInv, TypeOK, Sf
    <2>2. request' = (IF request = "BUSY" THEN "NOTHING" ELSE request)
      BY <1>14 DEF LostWithFile, RequestAfterLoss
    <2>3. eof' = (eof \/ request' # "OPEN")
      BY <1>14 DEF LostWithFile, EofAfterLoss
    <2>4. /\ cpc' = "lostclose" /\ cpc = "lost"
          /\ UNCHANGED <<csf, asked, overruled, cgen, gen, state, ppc, cfile,
                         fileerror, xfile, played, head, tail, fifosize>>
      BY <1>14 DEF LostWithFile
    <2>5. ASSUME eof', ~fileerror, ~overruled, state # "IDLE", ppc \notin Leaving
          PROVE  eof
      <3>1. CASE cgen = gen
        BY <2>4, <2>5, <3>1
      <3>2. CASE cgen # gen
        BY <2>2, <2>3, <2>5, <3>2
      <3> QED BY <3>1, <3>2
    <2> HIDE DEF Unread
    <2>6. Unread' = Unread
      BY <2>4 DEF Unread
    <2> QED BY <2>1, <2>2, <2>3, <2>4, <2>5, <2>6
  <1>15. CASE LostWithoutFile
    BY <1>15 DEF LostWithoutFile, RequestAfterLoss, AnswerSignalled
  <1>16. CASE LostCloses
    BY <1>16 DEF LostCloses, AnswerSignalled, CloseFile
  <1>17. CASE ChildWakes
    BY <1>17 DEF ChildWakes
  <1>18. CASE ReadsfStart
    BY <1>18 DEF ReadsfStart
  <1>19. CASE ReadsfStop
    BY <1>19 DEF ReadsfStop, RequestSignalled
  <1>20. CASE ReadsfTick
    BY <1>20 DEF ReadsfTick
  <1>21. CASE ReadsfFree
    BY <1>21 DEF ReadsfFree, RequestSignalled
  <1>22. CASE PerformWaits
    BY <1>22 DEF PerformWaits, RequestSignalled, Performing
  <1>23. CASE PerformEnds
    BY <1>23 DEF PerformEnds, Performing
  <1>24. CASE PerformPlays
    <2>1. /\ cpc' = cpc \/ (cpc = "topwait" /\ cpc' = "topwake")
               \/ (cpc = "loopwait" /\ cpc' = "loopwake")
          /\ ppc' \notin Leaving /\ ppc \notin Leaving
      BY <1>24 DEF PerformPlays, Performing, RequestSignalled
    <2>2. /\ played' = played + TickBytes
          /\ UNCHANGED <<xsf, csf, asked, overruled, request, cgen, gen, state,
                         cfile, fpos, eof, fileerror, xfile, rwant, rgot>>
      BY <1>24 DEF PerformPlays
    <2> HIDE DEF Unread
    <2>3. /\ Unread' = Unread - TickBytes /\ TickBytes \in Nat
          /\ Unread \in Nat
      BY <1>24, UnreadAfterTick
    <2>4. played \in Nat /\ vec \in Nat \ {0} /\ xsf.bpf \in Nat \ {0}
      BY DEF IInv, TypeOK, Sf
    <2>5. played' + Unread' = played + Unread
      BY <2>2, <2>3, <2>4
    <2>6. Divides(xsf.bpf, TickBytes)
      BY <2>4, MultipleIs DEF TickBytes
    <2>7. state # "IDLE" => Divides(xsf.bpf, played')
      <3> HIDE <1>a DEF EofInv, TickBytes
      <3>1. state # "IDLE" => Divides(xsf.bpf, played)
        BY DEF EofInv
      <3>2. ASSUME state # "IDLE" PROVE Divides(xsf.bpf, played + TickBytes)
        <4> DEFINE b == xsf.bpf
        <4>1. /\ b \in Nat \ {0} /\ played \in Int /\ TickBytes \in Int
              /\ Divides(b, played) /\ Divides(b, TickBytes)
          BY <2>3, <2>4, <2>6, <3>1, <3>2
        <4> HIDE DEF b
        <4>2. Divides(b, played + TickBytes)
          BY <4>1, MultipleSum
        <4> QED BY <4>2 DEF b
      <3> QED BY <2>2, <3>2
    <2> QED BY <2>1, <2>2, <2>5, <2>7
  <1>25. CASE FreeResumes
    BY <1>25 DEF FreeResumes, RequestSignalled
  <1>26. CASE FreeJoins
    BY <1>26 DEF FreeJoins
  <1>27. CASE SpuriousWakeup
    BY <1>27 DEF SpuriousWakeup, RequestSignalled, AnswerSignalled
  <1>28. ASSUME NEW f \in Files, NEW auto \in HeaderModes, NEW bpf \in RawBpf,
              ReadsfOpen(f, auto, bpf)
        PROVE  EofInv'
    <2>1. gen \in Nat /\ cgen \in Nat /\ gen' = gen + 1 /\ cgen' = cgen
          /\ cgen <= gen
      BY <1>28, SizesAssumption DEF ReadsfOpen, IInv, TypeOK, Gens, OpenInv
    <2>2. cgen' # gen'
      BY <2>1
    <2>3. bpf \in Nat \ {0} /\ Divides(bpf, 0)
      BY SizesAssumption, DividesSelf
    <2>4. /\ xsf' = [fd |-> NoFd, bpf |-> bpf, auto |-> auto, limit |-> 0]
          /\ request' = "OPEN" /\ eof' = FALSE /\ played' = 0 /\ asked' = auto
          /\ overruled' = FALSE
          /\ UNCHANGED <<csf, cfile, rwant, rgot, fpos>>
          /\ cpc' = cpc \/ (cpc = "topwait" /\ cpc' = "topwake")
               \/ (cpc = "loopwait" /\ cpc' = "loopwake")
      BY <1>28 DEF ReadsfOpen, RequestSignalled
    <2> QED BY <2>2, <2>3, <2>4
  <1>29. ASSUME NEW v \in VecSizes, ReadsfDsp(v) PROVE EofInv'
    BY <1>29 DEF ReadsfDsp
  <1>30. CASE UNCHANGED vars
    BY <1>30 DEF vars
  <1> QED
    BY <1>1, <1>2, <1>3, <1>4, <1>5, <1>6, <1>7, <1>8, <1>9, <1>10,
       <1>11, <1>12, <1>13, <1>14, <1>15, <1>16, <1>17, <1>18, <1>19,
       <1>20, <1>21, <1>22, <1>23, <1>24, <1>25, <1>26, <1>27, <1>28,
       <1>29, <1>30
       DEF Next, Child, Message, ReadsfPerform

(* Division with remainder, the only way a quotient is used here.          *)
LEMMA DivisionIs ==
  ASSUME NEW d \in Nat \ {0}, NEW q \in Int, NEW r \in 0..d - 1,
         NEW n \in Int, n = d * q + r
  PROVE  n \div d = q
  BY Z3

LEMMA RemainderIs ==
  ASSUME NEW d \in Nat \ {0}, NEW q \in Int, NEW r \in 0..d - 1,
         NEW n \in Int, n = d * q + r
  PROVE  n % d = r
  BY Z3

LEMMA Division ==
  ASSUME NEW d \in Nat \ {0}, NEW n \in Int
  PROVE  \E q \in Int, r \in 0..d - 1 : n = d * q + r
  <1>1. n = d * (n \div d) + (n % d) /\ n \div d \in Int /\ n % d \in 0..d - 1
    BY Z3
  <1> QED BY <1>1

(* The frames of the last tick: the byte too many that line 2053 counts    *)
(* never completes a frame.                                                *)
LEMMA LastFramesAreWhole ==
  ASSUME NEW g \in Nat \ {0, 1}, NEW d \in Nat \ {0}, NEW u \in Nat,
         NEW p \in Nat, Divides(g, d), Divides(g, u), Divides(d, p)
  PROVE  p + ((u + 1) \div d) * d = (p + u) - ((p + u) % d)
  <1>0. u \in Int
    OBVIOUS
  <1>1. PICK q \in Int, r \in 0..d - 1 : u = d * q + r
    BY <1>0, Division
  <1>2. PICK s \in Int : p = d * s
    BY MultipleIs
  <1>3. r + 1 < d
    <2> SUFFICES ASSUME r + 1 = d PROVE FALSE
      OBVIOUS
    <2>1. u + 1 = d * (q + 1)
      BY <1>1
    <2>2. Divides(d, u + 1) /\ u + 1 \in Int /\ g \in Nat \ {0}
          /\ q + 1 \in Int
      BY <2>1, MultipleIs
    <2>3. Divides(g, u + 1)
      BY <2>2, MultipleOfMultiple
    <2>4. u + g <= u + 1
      BY <2>2, <2>3, MultiplesApart
    <2> QED BY <2>4
  <1>4. r + 1 \in 0..d - 1 /\ u + 1 = d * q + (r + 1)
    BY <1>1, <1>3
  <1>5. (u + 1) \div d = q
    <2> DEFINE v == u + 1
    <2>1. PICK e \in 0..d - 1 : e = r + 1
      BY <1>4
    <2>2. v \in Int /\ v = d * q + e
      BY <1>4, <2>1
    <2> HIDE DEF v
    <2>3. v \div d = q
      BY <2>2, DivisionIs
    <2> QED BY <2>3 DEF v
  <1>6. PICK w \in Int : w = s + q
    OBVIOUS
  <1>7. (p + u) % d = r
    <2> DEFINE v == p + u
    <2>1. v \in Int /\ v = d * w + r
      BY <1>1, <1>2, <1>6
    <2> HIDE DEF v
    <2>2. v % d = r
      BY <2>1, RemainderIs
    <2> QED BY <2>2 DEF v
  <1>8. p + q * d = (p + u) - r
    BY <1>1, <1>2
  <1> QED BY <1>5, <1>7, <1>8

(* The stream invariant holds at the start ...                             *)
LEMMA InitStream ==
  ASSUME NEW g \in Nat \ {0, 1}, Init
  PROVE  StreamInv(g)
  <1>1. /\ head = 0 /\ tail = 0 /\ fifosize = 0 /\ state = "IDLE" /\ gen = 0
        /\ cgen = 0 /\ cpc = "top" /\ request = "NOTHING" /\ vec = MaxVecSize
    BY DEF Init
  <1>2. Divides(g, 0)
    BY DividesSelf
  <1>3. OpenInv
    <2>1. /\ xsf.auto \in HeaderModes \cup {FALSE}
          /\ csf.auto \in HeaderModes \cup {FALSE}
      BY DEF Init
    <2>2. cgen <= gen
      BY <1>1
    <2> QED BY <1>1, <2>1, <2>2 DEF OpenInv
  <1>4. AlignInv(g)
    BY <1>1, <1>2 DEF AlignInv, Serving
  <1>5. PlaceInv /\ CellInv
    BY <1>1 DEF PlaceInv, CellInv, Serving
  <1> QED BY <1>3, <1>4, <1>5 DEF StreamInv

(* ... and is kept by every step.                                          *)
LEMMA StreamInvariance ==
  ASSUME NEW g \in Nat \ {0, 1}, WholeSamples(g), SteadyVectors
  PROVE  Spec => [](IInv /\ StreamInv(g))
  <1>1. Init => IInv /\ StreamInv(g)
    BY InitIInv, InitStream
  <1>2. IInv /\ StreamInv(g) /\ [Next]_vars => (IInv /\ StreamInv(g))'
    <2> SUFFICES ASSUME IInv, StreamInv(g), [Next]_vars
                 PROVE  (IInv /\ StreamInv(g))'
      OBVIOUS
    <2>1. IInv'
      BY TypeStep, FdStep, MailStep, FifoStep DEF IInv
    <2>2. OpenInv'
      BY OpenStep DEF StreamInv
    <2>3. AlignInv(g)'
      BY AlignStep DEF StreamInv
    <2>4. PlaceInv' /\ CellInv'
      BY PlaceStep, CellStep
    <2> QED BY <2>1, <2>2, <2>3, <2>4 DEF StreamInv
  <1> QED BY <1>1, <1>2, PTL DEF Spec

(* The unread part of the fifo is the file just opened, from the next byte *)
(* to play on, for every buffer size, when all lengths are multiples of    *)
(* some g > 1 and the size of the signal vectors is fixed.                 *)
THEOREM FifoIsTheFile ==
  ASSUME NEW g \in Nat \ {0, 1}, WholeSamples(g), SteadyVectors
  PROVE  Spec => []FifoHoldsStream
  <1>1. IInv /\ StreamInv(g) => FifoHoldsStream
    <2> SUFFICES ASSUME IInv, StreamInv(g), state # "IDLE",
                        NEW k \in 0..Unread - 1
                 PROVE  buf[(tail + k) % fifosize]
                          = [gen |-> gen, pos |-> played + k]
      BY DEF FifoHoldsStream
    <2>1. /\ tail \in Nat /\ fifosize \in Nat \ {0} /\ k < fifosize
          /\ tail < fifosize
      BY UnreadFits DEF StreamInv
    <2>2. (tail + k) % fifosize = Cell(tail, k, fifosize)
      BY <2>1 DEF Cell
    <2>3. buf[Cell(tail, k, fifosize)] = [gen |-> gen, pos |-> played + k]
      BY DEF StreamInv, CellInv, Holds
    <2> QED BY <2>2, <2>3
  <1> QED BY <1>1, StreamInvariance, PTL

(* A stream that ends without an error has played every whole frame of the *)
(* file opened last, and nothing else, with its header detected or not and *)
(* whatever opens, failures and stops came before it (lines 2051-2074),    *)
(* unless an older open wrote its outcome over the newest one's fields.    *)
THEOREM PlaysAllFrames ==
  ASSUME NEW g \in Nat \ {0, 1}, WholeSamples(g), SteadyVectors, WholeFrames(g)
  PROVE  Spec => PlaysWholeFile
  <1> DEFINE Inv == IInv /\ StreamInv(g) /\ EofInv
  <1>1. Init => Inv
    <2>1. Init => EofInv
      BY DEF Init, EofInv, Serving
    <2> QED BY <2>1, InitIInv, InitStream
  <1>2. Inv /\ [Next]_vars => Inv'
    <2>1. IInv /\ StreamInv(g) /\ [Next]_vars => (IInv /\ StreamInv(g))'
      <3> SUFFICES ASSUME IInv, StreamInv(g), [Next]_vars
                   PROVE  (IInv /\ StreamInv(g))'
        OBVIOUS
      <3>1. IInv' /\ OpenInv' /\ AlignInv(g)'
        BY TypeStep, FdStep, MailStep, FifoStep, OpenStep, AlignStep
           DEF IInv, StreamInv
      <3> QED BY <3>1, PlaceStep, CellStep DEF StreamInv
    <2> QED BY <2>1, EofStep
  <1>3. Inv => (PerformEnds /\ ~fileerror /\ ~overruled =>
                  played' = StreamBytes - (StreamBytes % xsf.bpf))
    <2> SUFFICES ASSUME IInv, StreamInv(g), EofInv, PerformEnds, ~fileerror,
                        ~overruled
                 PROVE  played' = StreamBytes - (StreamBytes % xsf.bpf)
      OBVIOUS
    <2>1. /\ eof /\ state = "STREAM" /\ ppc \in {"run", "performwake"}
          /\ head >= tail /\ played' = played + LastFrames * xsf.bpf
      BY DEF PerformEnds, Performing, Short
    <2>2. /\ head \in Nat /\ tail \in Nat /\ played \in Nat
          /\ xsf.bpf \in Nat \ {0}
      BY DEF IInv, TypeOK, Sf
    <2>3. /\ played + (head - tail) = StreamBytes
          /\ Divides(xsf.bpf, played)
      BY <2>1 DEF EofInv, Leaving, Unread
    <2>4. StreamBytes = played + (head - tail)
      BY <2>3
    <2>5. gen # 0 /\ Divides(g, xsf.bpf)
      BY <2>1 DEF WholeFrames, StreamInv, OpenInv
    <2>6. Divides(g, head - tail)
      <3>1. g \in Nat \ {0} /\ TickBytes \in Nat \ {0} /\ head - tail \in Int
        BY <2>2, TickType DEF IInv
      <3>2. Divides(g, TickBytes)
        BY <2>5 DEF StreamInv, OpenInv, WholeSamples, TickBytes
      <3>3. Divides(g, tail)
        <4>1. CASE tail = 0
          BY <4>1, <3>1, DividesSelf
        <4>2. CASE Divides(TickBytes, tail)
          BY <2>2, <3>1, <3>2, <4>2, MultipleOfMultiple
        <4> QED BY <4>1, <4>2 DEF StreamInv, AlignInv, Aligned
      <3>4. Divides(g, head)
        BY DEF StreamInv, AlignInv
      <3> QED BY <2>2, <3>1, <3>3, <3>4, MultipleSum
    <2> DEFINE u == head - tail
    <2>7. u \in Nat /\ LastFrames = (u + 1) \div xsf.bpf
      BY <2>1, <2>2 DEF LastFrames
    <2> HIDE DEF u
    <2>8. played + ((u + 1) \div xsf.bpf) * xsf.bpf
            = (played + u) - ((played + u) % xsf.bpf)
      BY ZenonT(30), <2>2, <2>3, <2>5, <2>6, <2>7, LastFramesAreWhole DEF u
    <2> QED BY <2>1, <2>4, <2>7, <2>8 DEF u
  <1>4. Inv /\ [Next]_vars =>
          [PerformEnds /\ ~fileerror /\ ~overruled =>
             played' = StreamBytes - (StreamBytes % xsf.bpf)]_vars
    BY <1>3
  <1> QED BY <1>1, <1>2, <1>4, PTL DEF Spec, PlaysWholeFile
=============================================================================
