-------------------------------- MODULE ReadSf --------------------------------
(***************************************************************************)
(* The readsf~ object of Pure Data (src/src/d_soundfile.c): the DSP thread *)
(* (the "parent") plays a sound file out of a circular byte buffer that a  *)
(* "child" thread fills.  All shared fields are protected by x_mutex, two  *)
(* condition variables wake the two threads, and the parent talks to the   *)
(* child through the one-place mailbox x_requestcode.                      *)
(*                                                                         *)
(* One action is one critical section of the parent, or one stretch of the *)
(* child between two points where it gives the mutex up.  The child keeps  *)
(* the mutex while cpc is in Holding, and the parent cannot lock it then.  *)
(*                                                                         *)
(* The k-th call of the open method is called generation k.  A file        *)
(* descriptor is the generation that opened it (0 stands for -1), and byte *)
(* p of what generation g reads is the pair [gen |-> g, pos |-> p].        *)
(***************************************************************************)
EXTENDS Integers, FiniteSets

CONSTANTS
  BufSize,      \* x_bufsize, bytes
  ReadSize,     \* READSIZE, the most bytes asked of one read()
  MaxVecSize,   \* MAXVECSIZE, the vector size the fifo is rounded for
  SigFraction,  \* the 16 of "signaled 16 times per buffer"
  VecSizes,     \* vector sizes the DSP chain may run with
  RawBpf,       \* bytes per frame an "open" message may ask for
  HeaderModes,  \* whether an "open" message asks to detect the header
  Files,        \* the files an "open" message may name
  Missing,      \* those that cannot be opened
  FileBpf,      \* bytes per frame announced by the header of a file
  FileLen,      \* bytes that can be read from the data of a file
  FileLimit,    \* data bytes announced by the header of a file
  HeaderBytes,  \* size of a header, counted in the limit of a raw open
  ReadErrors,   \* TRUE when read() may fail
  MaxOpens      \* bound: calls of the open method

ASSUME SizesAssumption ==
  /\ BufSize \in Nat \ {0} /\ ReadSize \in Nat \ {0}
  /\ MaxVecSize \in Nat \ {0} /\ SigFraction \in Nat \ {0}
  /\ VecSizes \subseteq Nat \ {0} /\ RawBpf \subseteq Nat \ {0, 1}
  /\ HeaderModes \subseteq BOOLEAN
  /\ MaxOpens \in Nat

ASSUME FilesAssumption ==
  /\ Missing \subseteq Files /\ Files # {}
  /\ FileBpf \in [Files -> Nat \ {0, 1}]
  /\ FileLen \in [Files -> Nat]
  /\ FileLimit \in [Files -> Nat]
  /\ HeaderBytes \in Nat
  /\ ReadErrors \in BOOLEAN

NoFd == 0
Gens == 0..MaxOpens
Byte == [gen : Gens, pos : Nat]
Requests == {"NOTHING", "OPEN", "CLOSE", "QUIT", "BUSY"}
States == {"IDLE", "STARTUP", "STREAM"}

(* The part of t_soundfile that is read here: the descriptor, the frame    *)
(* size, whether the header is to be detected (sf_headersize = -1) and the *)
(* data bytes left to read (sf_bytelimit).  A sample has 2 bytes or more.  *)
Sf == [fd : Gens, bpf : Nat \ {0, 1}, auto : BOOLEAN, limit : Nat]

VARIABLES
  ppc,        \* where the parent is in a method that can block
  state,      \* x_state, parent only
  vec,        \* x_vecsize
  clock,      \* x_clock is set (the "done" bang is due)
  request,    \* x_requestcode
  xfile,      \* x_filename and x_onsetframes
  fileerror,  \* x_fileerror # 0
  xsf,        \* x_sf
  fifosize, head, tail, eof, sigcount, sigperiod,
  buf,        \* the bytes of x_buf
  cpc,        \* where the child is
  csf,        \* the child's own copy of the sound file, "sf"
  cfile,      \* the child's own copy of the file name
  rhead, rwant, rgot,   \* the read() under way: where to, how much, result
  fpos,       \* file position of the open descriptor
  openfds,    \* descriptors the process has open
  gen,        \* calls of the open method so far
  cgen,       \* the one the child is serving
  played,     \* bytes of generation gen the parent has played
  asked,      \* whether that call asked for header detection
  overruled   \* an older open's outcome was written over what it stored

parentVars == <<ppc, state, vec, clock>>
fifoVars   == <<fifosize, head, tail, eof, sigcount, sigperiod, buf>>
readVars   == <<rhead, rwant, rgot, fpos>>
history    == <<gen, played, asked, overruled>>
vars == <<ppc, state, vec, clock, request, xfile, fileerror, xsf, fifosize,
          head, tail, eof, sigcount, sigperiod, buf, cpc, csf, cfile, rhead,
          rwant, rgot, fpos, openfds, gen, cgen, played, asked, overruled>>

(* Points of the child where it holds the mutex between two actions.       *)
Holding == {"top", "loop", "lost"}
ParentPCs == {"run", "performwait", "performwake", "freewait", "freewake",
              "joining", "freed"}
ChildPCs == Holding \cup {"topwait", "topwake", "opening", "loopwait",
              "loopwake", "reading", "readdone", "lostclose", "stray", "exited"}

MutexFree == cpc \notin Holding

(* pthread_cond_signal: at most one thread waits on either condition, and  *)
(* a signal nobody waits for is lost.                                      *)
AnswerSignalled == IF ppc = "performwait" THEN "performwake"
                   ELSE IF ppc = "freewait" THEN "freewake" ELSE ppc
RequestSignalled == IF cpc = "topwait" THEN "topwake"
                    ELSE IF cpc = "loopwait" THEN "loopwake" ELSE cpc

MinOf(a, b) == IF a <= b THEN a ELSE b

Init ==
  /\ ppc = "run" /\ state = "IDLE" /\ vec = MaxVecSize /\ clock = FALSE
  /\ request = "NOTHING" /\ fileerror = FALSE
  /\ xfile \in Files /\ cfile = xfile
  /\ xsf = [fd |-> NoFd, bpf |-> 2, auto |-> FALSE, limit |-> 0]
  /\ fifosize = 0 /\ head = 0 /\ tail = 0 /\ eof = FALSE
  /\ sigcount = 0 /\ sigperiod = 0
  /\ buf = [i \in 0..BufSize - 1 |-> [gen |-> 0, pos |-> 0]]
  /\ cpc = "top" /\ csf = xsf
  /\ rhead = 0 /\ rwant = 0 /\ rgot = 0 /\ fpos = 0
  /\ openfds = {} /\ gen = 0 /\ cgen = 0 /\ played = 0 /\ asked = FALSE
  /\ overruled = FALSE

-----------------------------------------------------------------------------
(* The child thread, readsf_child_main.                                    *)

ChildIdles ==
  /\ cpc = "top" /\ request = "NOTHING"
  /\ ppc' = AnswerSignalled
  /\ cpc' = "topwait"
  /\ UNCHANGED <<state, vec, clock, request, xfile, fileerror, xsf, fifoVars,
                 csf, cfile, readVars, openfds, cgen, history>>

(* The code closes a file it still has open first; pc "stray" stands for   *)
(* that branch, here and in the CLOSE and QUIT branches.                   *)
ChildTakesOpen ==
  /\ cpc = "top" /\ request = "OPEN"
  /\ request' = "BUSY" /\ fileerror' = FALSE
  /\ cfile' = xfile /\ cgen' = gen
  /\ csf' = IF csf.fd = NoFd THEN xsf ELSE csf
  /\ cpc' = IF csf.fd = NoFd THEN "opening" ELSE "stray"
  /\ UNCHANGED <<parentVars, xfile, xsf, fifoVars, readVars, openfds, history>>

ChildTakesClose ==
  /\ cpc = "top" /\ request = "CLOSE"
  /\ IF csf.fd = NoFd
       THEN request' = "NOTHING" /\ ppc' = AnswerSignalled /\ cpc' = "top"
       ELSE cpc' = "stray" /\ UNCHANGED <<request, ppc>>
  /\ UNCHANGED <<state, vec, clock, xfile, fileerror, xsf, fifoVars, csf,
                 cfile, readVars, openfds, cgen, history>>

ChildTakesQuit ==
  /\ cpc = "top" /\ request = "QUIT"
  /\ IF csf.fd = NoFd
       THEN request' = "NOTHING" /\ ppc' = AnswerSignalled /\ cpc' = "exited"
       ELSE cpc' = "stray" /\ UNCHANGED <<request, ppc>>
  /\ UNCHANGED <<state, vec, clock, xfile, fileerror, xsf, fifoVars, csf,
                 cfile, readVars, openfds, cgen, history>>

(* The outcome of an open is written into the shared fields even when the  *)
(* next "open" has been posted while the mutex was free.                   *)
OverrulesNewer == overruled' = (overruled \/ request = "OPEN")

FailsWithoutEof ==                                              \* mutant
  /\ cpc = "opening" /\ cfile \in Missing
  /\ fileerror' = TRUE
  /\ cpc' = "lost" /\ OverrulesNewer
  /\ UNCHANGED <<parentVars, request, xfile, xsf, fifoVars, csf, cfile,
                 readVars, openfds, cgen, gen, played, asked>>

(* open_soundfile_via_path failed: the mutex is taken again and the error  *)
(* is recorded whatever was requested meanwhile.                           *)
ChildFailsToOpen ==
  /\ cpc = "opening" /\ cfile \in Missing
  /\ fileerror' = TRUE /\ eof' = TRUE
  /\ cpc' = "lost" /\ OverrulesNewer
  /\ UNCHANGED <<parentVars, request, xfile, xsf, fifosize, head, tail,
                 sigcount, sigperiod, buf, csf, cfile, readVars, openfds,
                 cgen, gen, played, asked>>

(* A header that was detected leaves its size in sf_headersize, so that    *)
(* the copy no longer asks for detection; a raw open takes its limit from  *)
(* the size of the file, header included.                                  *)
OpenedSf ==
  [fd |-> cgen, auto |-> FALSE,
   bpf   |-> IF csf.auto THEN FileBpf[cfile] ELSE csf.bpf,
   limit |-> IF csf.auto THEN FileLimit[cfile]
                         ELSE FileLen[cfile] + HeaderBytes]

FifoSizeFor(bpf) == BufSize - (BufSize % (bpf * MaxVecSize))

(* open_soundfile_via_path succeeded: the format is published, and then    *)
(* the child goes into its read loop unless a new request has come in.     *)
ChildOpens ==
  /\ cpc = "opening" /\ cfile \notin Missing
  /\ csf' = OpenedSf /\ xsf' = OpenedSf
  /\ openfds' = openfds \cup {cgen} /\ fpos' = 0 /\ OverrulesNewer
  /\ IF request = "BUSY"
       THEN /\ head' = 0
            /\ fifosize' = FifoSizeFor(OpenedSf.bpf)
            /\ sigperiod' = fifosize' \div (SigFraction * OpenedSf.bpf * vec)
            /\ sigcount' = sigperiod'
            /\ cpc' = "loop"
       ELSE cpc' = "lost" /\ UNCHANGED <<head, fifosize, sigperiod, sigcount>>
  /\ UNCHANGED <<parentVars, request, xfile, fileerror, tail, eof, buf, cfile,
                 rhead, rwant, rgot, cgen, gen, played, asked>>

LoopRuns == cpc = "loop" /\ request = "BUSY" /\ ~eof

(* Too little room to read: at most up to a tail of 0, which would fill    *)
(* the buffer completely, or less than a whole read up to the tail.        *)
FifoFed == IF head >= tail
             THEN tail = 0 /\ fifosize - head <= ReadSize
             ELSE tail - head - 1 < ReadSize

WantBytes == LET room == IF head >= tail THEN MinOf(fifosize - head, ReadSize)
                         ELSE ReadSize
             IN  MinOf(room, csf.limit)

LoopEnds ==
  /\ cpc = "loop" /\ (request # "BUSY" \/ eof)
  /\ cpc' = "lost"
  /\ UNCHANGED <<parentVars, request, xfile, fileerror, xsf, fifoVars, csf,
                 cfile, readVars, openfds, cgen, history>>

LoopWaits ==
  /\ LoopRuns /\ FifoFed
  /\ ppc' = AnswerSignalled
  /\ cpc' = "loopwait"
  /\ UNCHANGED <<state, vec, clock, request, xfile, fileerror, xsf, fifoVars,
                 csf, cfile, readVars, openfds, cgen, history>>

LoopReads ==
  /\ LoopRuns /\ ~FifoFed
  /\ rhead' = head /\ rwant' = WantBytes
  /\ cpc' = "reading"
  /\ UNCHANGED <<parentVars, request, xfile, fileerror, xsf, fifoVars, csf,
                 cfile, rgot, fpos, openfds, cgen, history>>

(* read() itself, with the mutex free: it is short at the end of the file. *)
ReadReturns ==
  /\ cpc = "reading"
  /\ \/ LET n == MinOf(rwant, FileLen[cfile] - fpos)
        IN  /\ rgot' = n /\ fpos' = fpos + n
            /\ buf' = [i \in DOMAIN buf |->
                         IF i \in rhead..rhead + n - 1
                           THEN [gen |-> cgen, pos |-> fpos + (i - rhead)]
                           ELSE buf[i]]
     \/ ReadErrors /\ rgot' = -1 /\ UNCHANGED <<fpos, buf>>
  /\ cpc' = "readdone"
  /\ UNCHANGED <<parentVars, request, xfile, fileerror, xsf, fifosize, head,
                 tail, eof, sigcount, sigperiod, csf, cfile, rhead, rwant,
                 openfds, cgen, history>>

ReadForAnyOpen == request \in {"BUSY", "OPEN"}                  \* mutant
ReadIsCurrent == request = "BUSY"

(* The mutex is taken again and the result is dropped when a new request   *)
(* has come in during the read.                                            *)
ReadOvertaken ==
  /\ cpc = "readdone" /\ ~ReadIsCurrent
  /\ cpc' = "lost"
  /\ UNCHANGED <<parentVars, request, xfile, fileerror, xsf, fifoVars, csf,
                 cfile, readVars, openfds, cgen, history>>

ReadFails ==
  /\ cpc = "readdone" /\ ReadIsCurrent /\ rgot <= 0
  /\ fileerror' = (fileerror \/ rgot < 0)
  /\ eof' = (eof \/ rgot = 0)
  /\ cpc' = "lost"
  /\ UNCHANGED <<parentVars, request, xfile, xsf, fifosize, head, tail,
                 sigcount, sigperiod, buf, csf, cfile, readVars, openfds,
                 cgen, history>>

ReadArrives ==
  /\ cpc = "readdone" /\ ReadIsCurrent /\ rgot > 0
  /\ head' = IF head + rgot = fifosize THEN 0 ELSE head + rgot
  /\ csf' = [csf EXCEPT !.limit = @ - rgot]
  /\ IF csf.limit - rgot <= 0
       THEN eof' = TRUE /\ cpc' = "lost" /\ UNCHANGED ppc
       ELSE cpc' = "loop" /\ ppc' = AnswerSignalled /\ UNCHANGED eof
  /\ UNCHANGED <<state, vec, clock, request, xfile, fileerror, xsf, fifosize,
                 tail, sigcount, sigperiod, buf, cfile, readVars, openfds,
                 cgen, history>>

RequestForgotten == "NOTHING"                                   \* mutant
RequestAfterLoss == IF request = "BUSY" THEN "NOTHING" ELSE request

EofAlways == TRUE                                               \* mutant
EofAfterLoss == eof \/ RequestAfterLoss # "OPEN"

(* Label lost with a file open: it is closed with the mutex free.          *)
LostWithFile ==
  /\ cpc = "lost" /\ csf.fd # NoFd
  /\ request' = RequestAfterLoss
  /\ eof' = EofAfterLoss
  /\ xsf' = [xsf EXCEPT !.fd = NoFd]
  /\ cpc' = "lostclose"
  /\ UNCHANGED <<parentVars, xfile, fileerror, fifosize, head, tail, sigcount,
                 sigperiod, buf, csf, cfile, readVars, openfds, cgen, history>>

LostWithoutFile ==
  /\ cpc = "lost" /\ csf.fd = NoFd
  /\ request' = RequestAfterLoss
  /\ ppc' = AnswerSignalled
  /\ cpc' = "top"
  /\ UNCHANGED <<state, vec, clock, xfile, fileerror, xsf, fifoVars, csf,
                 cfile, readVars, openfds, cgen, history>>

CloseButKeepFd == openfds' = openfds \ {csf.fd} /\ UNCHANGED csf  \* mutant
CloseFile == openfds' = openfds \ {csf.fd} /\ csf' = [csf EXCEPT !.fd = NoFd]

LostCloses ==
  /\ cpc = "lostclose"
  /\ CloseFile
  /\ ppc' = AnswerSignalled
  /\ cpc' = "top"
  /\ UNCHANGED <<state, vec, clock, request, xfile, fileerror, xsf, fifoVars,
                 cfile, readVars, cgen, history>>

(* A woken thread goes on once it has the mutex again.                     *)
ChildWakes ==
  /\ \/ cpc = "topwake" /\ cpc' = "top"
     \/ cpc = "loopwake" /\ cpc' = "loop"
  /\ UNCHANGED <<parentVars, request, xfile, fileerror, xsf, fifoVars, csf,
                 cfile, readVars, openfds, cgen, history>>

Child == \/ ChildIdles \/ ChildTakesOpen \/ ChildTakesClose \/ ChildTakesQuit
         \/ ChildFailsToOpen \/ ChildOpens
         \/ LoopEnds \/ LoopWaits \/ LoopReads
         \/ ReadReturns \/ ReadOvertaken \/ ReadFails \/ ReadArrives
         \/ LostWithFile \/ LostWithoutFile \/ LostCloses \/ ChildWakes

-----------------------------------------------------------------------------
(* The parent thread: messages, the DSP tick and the destructor.           *)

ReadsfOpen(f, auto, bpf) ==
  /\ ppc = "run" /\ MutexFree /\ gen < MaxOpens
  /\ xsf' = [fd |-> NoFd, bpf |-> bpf, auto |-> auto, limit |-> 0]
  /\ request' = "OPEN" /\ xfile' = f
  /\ head' = 0 /\ tail' = 0 /\ eof' = FALSE /\ fileerror' = FALSE
  /\ state' = "STARTUP"
  /\ cpc' = RequestSignalled
  /\ gen' = gen + 1 /\ played' = 0 /\ asked' = auto /\ overruled' = FALSE
  /\ UNCHANGED <<ppc, vec, clock, fifosize, sigcount, sigperiod, buf, csf,
                 cfile, readVars, openfds, cgen>>

(* x_state belongs to the parent, and the start method takes no mutex.     *)
ReadsfStart ==
  /\ ppc = "run" /\ state = "STARTUP"
  /\ state' = "STREAM"
  /\ UNCHANGED <<ppc, vec, clock, request, xfile, fileerror, xsf, fifoVars,
                 cpc, csf, cfile, readVars, openfds, cgen, history>>

ReadsfStop ==
  /\ ppc = "run" /\ MutexFree
  /\ state' = "IDLE" /\ request' = "CLOSE"
  /\ cpc' = RequestSignalled
  /\ UNCHANGED <<ppc, vec, clock, xfile, fileerror, xsf, fifoVars, csf, cfile,
                 readVars, openfds, cgen, history>>

ReadsfDsp(v) ==
  /\ ppc = "run" /\ MutexFree
  /\ vec' = v
  /\ sigperiod' = fifosize \div (xsf.bpf * v)
  /\ UNCHANGED <<ppc, state, clock, request, xfile, fileerror, xsf, fifosize,
                 head, tail, eof, sigcount, buf, cpc, csf, cfile, readVars,
                 openfds, cgen, history>>

Performing == ppc \in {"run", "performwake"} /\ state = "STREAM" /\ MutexFree

TickBytes == vec * xsf.bpf

(* Less than one tick's worth of bytes in the fifo (lines 2035 and 2051).  *)
Short == head >= tail /\ head < tail + TickBytes - 1

PerformWaits ==
  /\ Performing /\ ~eof /\ Short
  /\ cpc' = RequestSignalled
  /\ ppc' = "performwait"
  /\ UNCHANGED <<state, vec, clock, request, xfile, fileerror, xsf, fifoVars,
                 csf, cfile, readVars, openfds, cgen, history>>

LastFrames == (head - tail + 1) \div xsf.bpf

PerformEnds ==
  /\ Performing /\ eof /\ Short
  /\ played' = played + LastFrames * xsf.bpf
  /\ clock' = TRUE /\ state' = "IDLE" /\ ppc' = "run"
  /\ UNCHANGED <<vec, request, xfile, fileerror, xsf, fifoVars, cpc, csf,
                 cfile, readVars, openfds, gen, cgen, asked, overruled>>

PerformPlays ==
  /\ Performing /\ ~Short
  /\ played' = played + TickBytes
  /\ tail' = IF tail + TickBytes >= fifosize THEN 0 ELSE tail + TickBytes
  /\ IF sigcount - 1 <= 0
       THEN cpc' = RequestSignalled /\ sigcount' = sigperiod
       ELSE sigcount' = sigcount - 1 /\ UNCHANGED cpc
  /\ ppc' = "run"
  /\ UNCHANGED <<state, vec, clock, request, xfile, fileerror, xsf, fifosize,
                 head, eof, sigperiod, buf, csf, cfile, readVars, openfds,
                 gen, cgen, asked, overruled>>

ReadsfPerform == PerformWaits \/ PerformEnds \/ PerformPlays

(* The clock goes off and the object outputs its bang.                     *)
ReadsfTick ==
  /\ ppc = "run" /\ clock
  /\ clock' = FALSE
  /\ UNCHANGED <<ppc, state, vec, request, xfile, fileerror, xsf, fifoVars,
                 cpc, csf, cfile, readVars, openfds, cgen, history>>

FreeWithoutSignal ==                                            \* mutant
  /\ ppc = "run" /\ MutexFree
  /\ request' = "QUIT"
  /\ ppc' = "freewait"
  /\ UNCHANGED <<state, vec, clock, xfile, fileerror, xsf, fifoVars, cpc, csf,
                 cfile, readVars, openfds, cgen, history>>

ReadsfFree ==
  /\ ppc = "run" /\ MutexFree
  /\ request' = "QUIT"
  /\ cpc' = RequestSignalled
  /\ ppc' = "freewait"
  /\ UNCHANGED <<state, vec, clock, xfile, fileerror, xsf, fifoVars, csf,
                 cfile, readVars, openfds, cgen, history>>

FreeResumes ==
  /\ ppc = "freewake" /\ MutexFree
  /\ IF request = "NOTHING"
       THEN ppc' = "joining" /\ UNCHANGED cpc
       ELSE ppc' = "freewait" /\ cpc' = RequestSignalled
  /\ UNCHANGED <<state, vec, clock, request, xfile, fileerror, xsf, fifoVars,
                 csf, cfile, readVars, openfds, cgen, history>>

FreeJoins ==
  /\ ppc = "joining" /\ cpc = "exited"
  /\ ppc' = "freed" /\ clock' = FALSE
  /\ UNCHANGED <<state, vec, request, xfile, fileerror, xsf, fifoVars, cpc,
                 csf, cfile, readVars, openfds, cgen, history>>

Message == \/ \E f \in Files, auto \in HeaderModes, bpf \in RawBpf :
                 ReadsfOpen(f, auto, bpf)
           \/ ReadsfStart \/ ReadsfStop \/ ReadsfTick \/ ReadsfFree
           \/ \E v \in VecSizes : ReadsfDsp(v)

(* pthread_cond_wait may also return without a signal.                     *)
SpuriousWakeup ==
  /\ \/ /\ RequestSignalled # cpc /\ cpc' = RequestSignalled /\ UNCHANGED ppc
     \/ /\ AnswerSignalled # ppc /\ ppc' = AnswerSignalled /\ UNCHANGED cpc
  /\ UNCHANGED <<state, vec, clock, request, xfile, fileerror, xsf, fifoVars,
                 csf, cfile, readVars, openfds, cgen, history>>

Next == Child \/ Message \/ ReadsfPerform \/ FreeResumes \/ FreeJoins
        \/ SpuriousWakeup

Spec == Init /\ [][Next]_vars

(* The child thread runs and its file calls return; the scheduler calls    *)
(* the DSP tick again and again, and a thread that keeps asking for the    *)
(* mutex gets it in the end (strong fairness: the child may hold it now    *)
(* and then).  No message is ever owed.                                    *)
Fairness == /\ WF_vars(Child) /\ SF_vars(ReadsfPerform)
            /\ SF_vars(FreeResumes) /\ WF_vars(FreeJoins)

FairSpec == Spec /\ Fairness

-----------------------------------------------------------------------------
(* Properties.                                                             *)

(* Every variable keeps its type, the size of the fifo included, which is  *)
(* rounded down from x_bufsize (d_soundfile.c:1780).                       *)
TypeOK ==
  /\ ppc \in ParentPCs /\ state \in States /\ vec \in Nat \ {0}
  /\ clock \in BOOLEAN
  /\ request \in Requests /\ xfile \in Files /\ fileerror \in BOOLEAN
  /\ xsf \in Sf /\ csf \in Sf /\ cfile \in Files
  /\ fifosize \in 0..BufSize /\ eof \in BOOLEAN
  /\ sigperiod \in Nat /\ sigcount \in Nat
  /\ head \in Nat /\ tail \in Nat
  /\ buf \in [0..BufSize - 1 -> Byte]
  /\ cpc \in ChildPCs
  /\ rhead \in Nat /\ rwant \in Nat /\ rgot \in Nat \cup {-1} /\ fpos \in Nat
  /\ openfds \in SUBSET Gens
  /\ gen \in Gens /\ cgen \in Gens /\ played \in Nat
  /\ asked \in BOOLEAN /\ overruled \in BOOLEAN

(* A read() under way writes inside the fifo and inside x_buf, whatever    *)
(* the parent has done to the indices since it was started (1861-1863).    *)
ReadInBounds ==
  cpc \in {"reading", "readdone"} =>
    rhead + rwant <= fifosize /\ fifosize <= BufSize

(* The unread part of the fifo is the file just opened, from the next byte *)
(* to play on, without a gap, a repeat or a byte of an earlier file, while *)
(* the child writes new bytes with the mutex free (lines 1861-1890).       *)
Unread == IF head >= tail THEN head - tail ELSE fifosize - tail + head
FifoHoldsStream ==
  state # "IDLE" =>
    \A k \in 0..Unread - 1 :
      buf[(tail + k) % fifosize] = [gen |-> gen, pos |-> played + k]

(* The child never leaks a descriptor nor keeps one it no longer tracks:   *)
(* what is open is what its copy names, it is idle only with none open and *)
(* the branches that close a stray one (1733, 1925, 1940) are never taken. *)
OneFileOpen ==
  /\ cpc # "stray"
  /\ openfds = {csf.fd} \ {NoFd}
  /\ cpc \in {"top", "topwait", "topwake", "exited"} => openfds = {}

(* QUIT reaches the child: while the destructor waits, nothing but the     *)
(* child's acknowledgement takes the request out of the mailbox (line      *)
(* 1934), and the child never spins on BUSY with the mutex held (1953).    *)
QuitIsKept ==
  /\ ppc \in {"freewait", "freewake"} =>
       request = (IF cpc = "exited" THEN "NOTHING" ELSE "QUIT")
  /\ ppc = "joining" => cpc = "exited"
  /\ cpc \in {"top", "topwait", "topwake"} => request # "BUSY"

(* The two threads are never both asleep on the condition the other one    *)
(* is to signal (lines 1707-1708, 1821-1846, 2041, 2223).                  *)
NoMutualWait == ~(/\ ppc \in {"performwait", "freewait"}
                  /\ cpc \in {"topwait", "loopwait"})

(* A stream that ends without an error has played the whole frames of the  *)
(* file opened last, all of them (lines 2051-2074), opened the way it was  *)
(* asked for, whatever opens, stops and failures came before.  Only when   *)
(* an older open wrote its format or its failure over the newest one's     *)
(* fields (lines 1756-1766) is that not so.                                *)
StreamBytes == MinOf(FileLen[xfile],
                     IF asked THEN FileLimit[xfile] ELSE FileLen[xfile])
PlaysWholeFile ==
  [][PerformEnds /\ ~fileerror /\ ~overruled =>
       played' = StreamBytes - (StreamBytes % xsf.bpf)]_vars

(* A stream that is started ends: the child reports the end of the file or *)
(* an error, and perform notices (lines 1871-1913, 2051-2074).             *)
StreamEnds == state = "STREAM" ~> (state # "STREAM" \/ ppc = "freed")

(* The destructor comes to its end with the child gone (2214-2228).        *)
FreeCompletes == ppc = "freewait" ~> ppc = "freed"

(* Comment of lines 1909-1911: EOF is never left set while an "open" is    *)
(* pending, or the stream would fail silently.                             *)
NoEofOnPendingOpen == request = "OPEN" => ~eof

(* Comment of lines 2127-2128: without a header size the header is taken   *)
(* to be detected automatically when the child opens the file.             *)
OpensAsAsked ==
  cpc = "opening" /\ cgen = gen /\ request = "BUSY" => csf.auto = asked
===============================================================================
