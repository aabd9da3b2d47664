-------------------------------- MODULE WriteSf --------------------------------
(***************************************************************************)
(* The writesf~ object (src/src/d_soundfile.c): the DSP thread puts blocks *)
(* of samples in a circular byte buffer and a child thread writes them to  *)
(* a file.  It re-uses readsf~'s structure the other way round: the parent *)
(* moves the head, the child the tail.  See ReadSf for the conventions:    *)
(* generations, atomic critical sections, and Holding.                     *)
(*                                                                         *)
(* The histories spoilt and overtaken name the recordings that go wrong,   *)
(* each from the very step at which they do: the properties promise nothing*)
(* of those, and everything of all others.                                 *)
(***************************************************************************)
EXTENDS Integers, Sequences, FiniteSets

CONSTANTS
  BufSize,      \* x_bufsize
  WriteSize,    \* WRITESIZE and READSIZE, both 65536 in the code
  MaxVecSize,   \* MAXVECSIZE
  SigFraction,  \* the 16 of "signaled 16 times per buffer"
  VecSizes,     \* vector sizes the DSP chain may run with
  Bpfs,         \* bytes per frame an "open" message may ask for
  CreateErrors, \* TRUE when creating a file may fail
  WriteErrors,  \* TRUE when write() may fail or be short
  MaxPut,       \* bound: bytes the DSP thread puts in for one file
  MaxOpens      \* bound: calls of the open method

ASSUME WriteSizesAssumption ==
  /\ BufSize \in Nat \ {0} /\ WriteSize \in Nat \ {0}
  /\ MaxVecSize \in Nat \ {0} /\ SigFraction \in Nat \ {0}
  /\ VecSizes \subseteq Nat \ {0} /\ Bpfs \subseteq Nat \ {0} /\ Bpfs # {}
  /\ CreateErrors \in BOOLEAN /\ WriteErrors \in BOOLEAN
  /\ MaxPut \in Nat /\ MaxOpens \in Nat

NoFd == 0
Gens == 0..MaxOpens
Byte == [gen : Gens, pos : Nat]
Sf == [fd : Gens, bpf : Nat \ {0}]

VARIABLES
  ppc, state, vec,                \* parent: blocking point, x_state, x_vecsize
  request, fileerror, eof, xsf,   \* x_requestcode, x_fileerror, x_eof, x_sf
  fifosize, head, tail, sigcount, sigperiod, buf,
  frames,                         \* x_frameswritten
  cpc, csf,                       \* child: program point and its copy "sf"
  wlen, wgot,                     \* the write() under way: length and result
  quitting,                       \* the child's local "quit"
  openfds,                        \* descriptors the process has open
  disk,                           \* contents of the file of each generation
  header,                         \* frames in its header, -1 if not finished
  gen, cgen,                      \* opens so far; the one the child serves
  put,                            \* bytes the parent put in for gen
  spoilt,                         \* history: recordings that filled the fifo
                                  \* while the tail was 0, or ran over its end
  overtaken                       \* history: recordings stopped before the
                                  \* child had their file in x_sf

fifoVars  == <<fifosize, head, tail, sigcount, sigperiod, buf, frames>>
writeVars == <<wlen, wgot, quitting>>
fileVars  == <<openfds, disk, header>>
history   == <<gen, cgen, put, spoilt, overtaken>>
vars == <<ppc, state, vec, request, fileerror, eof, xsf, fifosize, head, tail,
          sigcount, sigperiod, buf, frames, cpc, csf, wlen, wgot, quitting,
          openfds, disk, header, gen, cgen, put, spoilt, overtaken>>

Holding == {"top", "loop"}
ParentPCs == {"run", "opencheck", "openwait", "openwake", "performwait",
              "performwake", "freewait", "freewake", "joining", "freed"}
ChildPCs == Holding \cup {"topwait", "topwake", "stray", "creating", "loopwait",
              "loopwake", "writing", "writedone", "bailclose", "finishing",
              "exited"}
MutexFree == cpc \notin Holding

AnswerSignalled == CASE ppc = "performwait" -> "performwake"
                     [] ppc = "openwait" -> "openwake"
                     [] ppc = "freewait" -> "freewake"
                     [] OTHER -> ppc
RequestSignalled == CASE cpc = "topwait" -> "topwake"
                      [] cpc = "loopwait" -> "loopwake"
                      [] OTHER -> cpc

MinOf(a, b) == IF a <= b THEN a ELSE b

Init ==
  /\ ppc = "run" /\ state = "IDLE" /\ vec = MaxVecSize
  /\ request = "NOTHING" /\ fileerror = FALSE /\ eof = FALSE
  /\ \E bpf \in Bpfs : xsf = [fd |-> NoFd, bpf |-> bpf]
  /\ fifosize = 0 /\ head = 0 /\ tail = 0 /\ sigcount = 0 /\ sigperiod = 0
  /\ buf = [i \in 0..BufSize - 1 |-> [gen |-> 0, pos |-> 0]]
  /\ frames = 0
  /\ cpc = "top" /\ csf = xsf
  /\ wlen = 0 /\ wgot = 0 /\ quitting = FALSE
  /\ openfds = {} /\ disk = [g \in Gens |-> <<>>]
  /\ header = [g \in Gens |-> -1]
  /\ gen = 0 /\ cgen = 0 /\ put = 0 /\ spoilt = {} /\ overtaken = {}

-----------------------------------------------------------------------------
(* The child thread, writesf_child_main.                                   *)

ChildIdles ==
  /\ cpc = "top" /\ request = "NOTHING"
  /\ ppc' = AnswerSignalled /\ cpc' = "topwait"
  /\ UNCHANGED <<state, vec, request, fileerror, eof, xsf, fifoVars, csf,
                 writeVars, fileVars, history>>

(* pc "stray" stands for lines 2310-2326, which ditch a file still open.   *)
ChildTakesOpen ==
  /\ cpc = "top" /\ request = "OPEN"
  /\ csf' = xsf
  /\ request' = "BUSY" /\ fileerror' = FALSE
  /\ cpc' = IF xsf.fd = NoFd THEN "creating" ELSE "stray"
  /\ cgen' = gen
  /\ UNCHANGED <<ppc, state, vec, eof, xsf, fifoVars, writeVars, fileVars, gen,
                 put, spoilt, overtaken>>

(* The first half of label bail; a file that is still open is closed with  *)
(* the mutex free in ChildBailsOut.                                        *)
Bail == /\ request' = IF request = "BUSY" THEN "NOTHING" ELSE request
        /\ IF csf.fd = NoFd
             THEN cpc' = "loop" /\ ppc' = AnswerSignalled
             ELSE cpc' = "bailclose" /\ UNCHANGED ppc

ChildFailsToCreate ==
  /\ cpc = "creating" /\ CreateErrors
  /\ xsf' = [xsf EXCEPT !.fd = NoFd]
  /\ eof' = TRUE /\ fileerror' = TRUE
  /\ Bail
  /\ UNCHANGED <<state, vec, fifoVars, csf, writeVars, fileVars, history>>

(* A request made meanwhile is fielded before the new descriptor has been  *)
(* stored in x_sf: nobody can close it any more (lines 2351, 2463).        *)
ChildCreates ==
  /\ cpc = "creating"
  /\ csf' = [csf EXCEPT !.fd = cgen]
  /\ openfds' = openfds \cup {cgen}
  /\ disk' = [disk EXCEPT ![cgen] = <<>>]
  /\ IF request = "BUSY"
       THEN /\ xsf' = csf' /\ tail' = 0 /\ frames' = 0 /\ cpc' = "loop"
            /\ UNCHANGED overtaken
       ELSE /\ cpc' = "top" /\ overtaken' = overtaken \cup {cgen}
            /\ UNCHANGED <<xsf, tail, frames>>
  /\ UNCHANGED <<ppc, state, vec, request, fileerror, eof, fifosize, head,
                 sigcount, sigperiod, buf, writeVars, header, gen, cgen, put,
                 spoilt>>

LoopIgnoringData == request = "BUSY"                            \* mutant
LoopGoesOn == request = "BUSY" \/ (request = "CLOSE" /\ head # tail)

WorthWriting == \/ head < tail
                \/ head >= tail + WriteSize
                \/ request = "CLOSE" /\ head # tail

WriteBytes == MinOf((IF head < tail THEN fifosize ELSE head) - tail, WriteSize)

LoopEnds ==
  /\ cpc = "loop" /\ ~LoopGoesOn
  /\ cpc' = "top"
  /\ UNCHANGED <<ppc, state, vec, request, fileerror, eof, xsf, fifoVars, csf,
                 writeVars, fileVars, history>>

LoopWaits ==
  /\ cpc = "loop" /\ LoopGoesOn /\ ~WorthWriting
  /\ ppc' = AnswerSignalled /\ cpc' = "loopwait"
  /\ UNCHANGED <<state, vec, request, fileerror, eof, xsf, fifoVars, csf,
                 writeVars, fileVars, history>>

LoopWrites ==
  /\ cpc = "loop" /\ LoopGoesOn /\ WorthWriting
  /\ wlen' = WriteBytes /\ csf' = xsf
  /\ cpc' = "writing"
  /\ UNCHANGED <<ppc, state, vec, request, fileerror, eof, xsf, fifoVars, wgot,
                 quitting, fileVars, history>>

(* write() itself, with the mutex free; on a descriptor of -1 it fails.    *)
(* The parent never touches the bytes under way, so they are read at once. *)
WriteReturns ==
  /\ cpc = "writing"
  /\ \/ \E n \in 0..wlen :
          /\ csf.fd # NoFd /\ (WriteErrors \/ n = wlen)
          /\ wgot' = n
          /\ disk' = [disk EXCEPT ![csf.fd] =
                        @ \o [i \in 1..n |-> buf[tail + i - 1]]]
     \/ /\ WriteErrors \/ csf.fd = NoFd
        /\ wgot' = -1 /\ UNCHANGED disk
  /\ cpc' = "writedone"
  /\ UNCHANGED <<ppc, state, vec, request, fileerror, eof, xsf, fifoVars, csf,
                 wlen, quitting, openfds, header, history>>

WriteOvertaken ==
  /\ cpc = "writedone" /\ request \notin {"BUSY", "CLOSE"}
  /\ cpc' = "top"
  /\ UNCHANGED <<ppc, state, vec, request, fileerror, eof, xsf, fifoVars, csf,
                 writeVars, fileVars, history>>

WriteFails ==
  /\ cpc = "writedone" /\ request \in {"BUSY", "CLOSE"} /\ wgot < wlen
  /\ fileerror' = TRUE
  /\ Bail
  /\ UNCHANGED <<state, vec, eof, xsf, fifoVars, csf, writeVars, fileVars,
                 history>>

TailAfterWrite == IF tail + wgot = fifosize THEN 0 ELSE tail + wgot

FramesAfterWrite == frames + wgot \div csf.bpf

WriteArrives ==
  /\ cpc = "writedone" /\ request \in {"BUSY", "CLOSE"} /\ wgot = wlen
  /\ tail' = TailAfterWrite
  /\ frames' = FramesAfterWrite
  /\ ppc' = AnswerSignalled /\ cpc' = "loop"
  /\ UNCHANGED <<state, vec, request, fileerror, eof, xsf, fifosize, head,
                 sigcount, sigperiod, buf, csf, writeVars, fileVars, history>>

BailLeavingOpen == UNCHANGED openfds                             \* mutant
BailCloses == openfds' = openfds \ {csf.fd}

ChildBailsOut ==
  /\ cpc = "bailclose"
  /\ BailCloses
  /\ csf' = [csf EXCEPT !.fd = NoFd] /\ xsf' = [xsf EXCEPT !.fd = NoFd]
  /\ cpc' = "loop" /\ ppc' = AnswerSignalled /\ eof' = TRUE
  /\ UNCHANGED <<state, vec, request, fileerror, fifoVars, writeVars, disk,
                 header, history>>

AcknowledgeOnly == /\ UNCHANGED request                          \* mutant
                   /\ ppc' = AnswerSignalled
                   /\ cpc' = IF quitting' THEN "exited" ELSE "top"
Acknowledge == /\ request' = "NOTHING"
               /\ ppc' = AnswerSignalled
               /\ cpc' = IF quitting' THEN "exited" ELSE "top"

ChildTakesClose ==
  /\ cpc = "top" /\ request \in {"CLOSE", "QUIT"}
  /\ quitting' = (request = "QUIT")
  /\ IF csf.fd # NoFd
       THEN csf' = xsf /\ cpc' = "finishing" /\ UNCHANGED <<request, ppc>>
       ELSE Acknowledge /\ UNCHANGED csf
  /\ UNCHANGED <<state, vec, fileerror, eof, xsf, fifoVars, wlen, wgot,
                 fileVars, history>>

(* soundfile_finishwrite and sys_close with the mutex free; then the       *)
(* mailbox is emptied, whatever it holds by now.                           *)
CloseFile == openfds' = openfds \ {csf.fd} /\ xsf' = [xsf EXCEPT !.fd = NoFd]

ChildFinishes ==
  /\ cpc = "finishing"
  /\ header' = IF csf.fd = NoFd THEN header
               ELSE [header EXCEPT ![csf.fd] = frames]
  /\ CloseFile
  /\ csf' = [csf EXCEPT !.fd = NoFd]
  /\ UNCHANGED quitting
  /\ Acknowledge
  /\ UNCHANGED <<state, vec, fileerror, eof, fifoVars, wlen, wgot, disk,
                 history>>

ChildWakes ==
  /\ \/ cpc = "topwake" /\ cpc' = "top"
     \/ cpc = "loopwake" /\ cpc' = "loop"
  /\ UNCHANGED <<ppc, state, vec, request, fileerror, eof, xsf, fifoVars, csf,
                 writeVars, fileVars, history>>

Child == \/ ChildIdles \/ ChildTakesOpen \/ ChildFailsToCreate \/ ChildCreates
         \/ LoopEnds \/ LoopWaits \/ LoopWrites \/ WriteReturns
         \/ WriteOvertaken \/ WriteFails \/ WriteArrives \/ ChildBailsOut
         \/ ChildTakesClose \/ ChildFinishes \/ ChildWakes

-----------------------------------------------------------------------------
(* The parent thread.                                                      *)

(* A stop overwrites an OPEN that the child has not taken yet.             *)
Stops == /\ MutexFree
         /\ state' = "IDLE" /\ request' = "CLOSE" /\ cpc' = RequestSignalled
         /\ overtaken' = IF request = "OPEN" THEN overtaken \cup {gen}
                                             ELSE overtaken

WritesfStop ==
  /\ ppc = "run" /\ Stops
  /\ UNCHANGED <<ppc, vec, fileerror, eof, xsf, fifoVars, csf, writeVars,
                 fileVars, gen, cgen, put, spoilt>>

(* The open method stops first when it is not idle, gives the mutex up, and*)
(* then waits until the mailbox is empty.                                  *)
WritesfOpen ==
  /\ ppc = "run" /\ gen < MaxOpens
  /\ IF state = "IDLE" THEN UNCHANGED <<state, request, cpc, overtaken>> ELSE Stops
  /\ ppc' = "opencheck"
  /\ UNCHANGED <<vec, fileerror, eof, xsf, fifoVars, csf, writeVars, fileVars,
                 gen, cgen, put, spoilt>>

OpenUnasked == TRUE                                             \* mutant
OpenMayProceed == request = "NOTHING"

OpenWaits ==
  /\ ppc \in {"opencheck", "openwake"} /\ MutexFree /\ ~OpenMayProceed
  /\ cpc' = RequestSignalled /\ ppc' = "openwait"
  /\ UNCHANGED <<state, vec, request, fileerror, eof, xsf, fifoVars, csf,
                 writeVars, fileVars, history>>

FifoSizeUnrounded(bpf) == BufSize                               \* mutant
FifoSizeFor(bpf) == BufSize - (BufSize % (bpf * MaxVecSize))

OpenGoesOn(bpf) ==
  /\ ppc \in {"opencheck", "openwake"} /\ MutexFree /\ OpenMayProceed
  /\ xsf' = [xsf EXCEPT !.bpf = bpf]
  /\ request' = "OPEN" /\ state' = "STARTUP" /\ ppc' = "run"
  /\ frames' = 0 /\ head' = 0 /\ tail' = 0
  /\ eof' = FALSE /\ fileerror' = FALSE
  /\ fifosize' = FifoSizeFor(bpf)
  /\ sigperiod' = fifosize' \div (SigFraction * bpf * vec)
  /\ sigcount' = sigperiod'
  /\ cpc' = RequestSignalled
  /\ gen' = gen + 1 /\ put' = 0
  /\ UNCHANGED <<vec, buf, csf, writeVars, fileVars, cgen, spoilt, overtaken>>

WritesfStart ==
  /\ ppc = "run" /\ state = "STARTUP"
  /\ state' = "STREAM"
  /\ UNCHANGED <<ppc, vec, request, fileerror, eof, xsf, fifoVars, cpc, csf,
                 writeVars, fileVars, history>>

WritesfDsp(v) ==
  /\ ppc = "run" /\ MutexFree
  /\ vec' = v
  /\ sigperiod' = fifosize \div (SigFraction * xsf.bpf * v)
  /\ UNCHANGED <<ppc, state, request, fileerror, eof, xsf, fifosize, head,
                 tail, sigcount, buf, frames, cpc, csf, writeVars, fileVars,
                 history>>

TickBytes == vec * xsf.bpf

(* roominfifo is a size_t: a negative difference is a huge number, and the *)
(* test "roominfifo <= 0" only catches 0 (lines 2543-2565).                *)
NoRoom == LET room == tail - head
          IN  /\ room >= 0
              /\ (IF room = 0 THEN fifosize ELSE room) < TickBytes + 1

(* The bound MaxPut ends the ticks that put bytes in; it never cuts a tick *)
(* that waits off from its end.                                            *)
Performing == ppc \in {"run", "performwake"} /\ state = "STREAM" /\ MutexFree

PerformWaits ==
  /\ Performing /\ ~eof /\ NoRoom
  /\ put + TickBytes <= MaxPut
  /\ cpc' = RequestSignalled /\ ppc' = "performwait"
  /\ UNCHANGED <<state, vec, request, fileerror, eof, xsf, fifoVars, csf,
                 writeVars, fileVars, history>>

PerformGivesUp ==
  /\ Performing /\ eof
  /\ state' = "IDLE" /\ ppc' = "run"
  /\ cpc' = RequestSignalled
  /\ UNCHANGED <<vec, request, fileerror, eof, xsf, fifoVars, csf, writeVars,
                 fileVars, history>>

(* A fifo that is filled up to its end while the tail is 0 is taken for an *)
(* empty one from then on.  A tick may run over the end of the fifo if its *)
(* vector is not a divisor of MAXVECSIZE, or if ticks of another size came *)
(* before it, so that it does although it divides the fifo.                *)
FillsUp == tail = 0 /\ head > 0 /\ head + TickBytes >= fifosize
RunsOver == /\ head + TickBytes > fifosize
            /\ MaxVecSize % vec # 0 \/ fifosize % TickBytes = 0

PerformPuts ==
  /\ Performing /\ ~eof /\ ~NoRoom
  /\ put + TickBytes <= MaxPut
  /\ buf' = [i \in DOMAIN buf |-> IF i \in head..head + TickBytes - 1
                THEN [gen |-> gen, pos |-> put + (i - head)] ELSE buf[i]]
  /\ head' = IF head + TickBytes >= fifosize THEN 0 ELSE head + TickBytes
  /\ put' = put + TickBytes
  /\ spoilt' = IF FillsUp \/ RunsOver THEN spoilt \cup {gen} ELSE spoilt
  /\ IF sigcount - 1 <= 0
       THEN cpc' = RequestSignalled /\ sigcount' = sigperiod
       ELSE sigcount' = sigcount - 1 /\ UNCHANGED cpc
  /\ ppc' = "run"
  /\ UNCHANGED <<state, vec, request, fileerror, eof, xsf, fifosize, tail,
                 sigperiod, frames, csf, writeVars, fileVars, gen, cgen, overtaken>>

WritesfPerform == PerformWaits \/ PerformGivesUp \/ PerformPuts

WritesfFree ==
  /\ ppc = "run" /\ MutexFree
  /\ request' = "QUIT"
  /\ cpc' = RequestSignalled /\ ppc' = "freewait"
  /\ UNCHANGED <<state, vec, fileerror, eof, xsf, fifoVars, csf, writeVars,
                 fileVars, history>>

FreeResumes ==
  /\ ppc = "freewake" /\ MutexFree
  /\ IF request = "NOTHING"
       THEN ppc' = "joining" /\ UNCHANGED cpc
       ELSE ppc' = "freewait" /\ cpc' = RequestSignalled
  /\ UNCHANGED <<state, vec, request, fileerror, eof, xsf, fifoVars, csf,
                 writeVars, fileVars, history>>

FreeJoins ==
  /\ ppc = "joining" /\ cpc = "exited"
  /\ ppc' = "freed"
  /\ UNCHANGED <<state, vec, request, fileerror, eof, xsf, fifoVars, cpc, csf,
                 writeVars, fileVars, history>>

Opening == OpenWaits \/ \E bpf \in Bpfs : OpenGoesOn(bpf)

Next == \/ Child \/ WritesfPerform \/ Opening
        \/ WritesfOpen \/ WritesfStart \/ WritesfStop
        \/ \E v \in VecSizes : WritesfDsp(v)
        \/ WritesfFree \/ FreeResumes \/ FreeJoins

Spec == Init /\ [][Next]_vars

(* As in ReadSf: the child runs, the mutex is fair.                        *)
FairSpec == Spec /\ WF_vars(Child) /\ SF_vars(Opening)
FairFreeSpec == FairSpec /\ SF_vars(FreeResumes) /\ WF_vars(FreeJoins)

-----------------------------------------------------------------------------
(* Properties.                                                             *)

(* Every variable keeps its type.                                          *)
TypeOK ==
  /\ ppc \in ParentPCs /\ cpc \in ChildPCs
  /\ state \in {"IDLE", "STARTUP", "STREAM"} /\ vec \in Nat \ {0}
  /\ request \in {"NOTHING", "OPEN", "CLOSE", "QUIT", "BUSY"}
  /\ fileerror \in BOOLEAN /\ eof \in BOOLEAN /\ quitting \in BOOLEAN
  /\ xsf \in Sf /\ csf \in Sf
  /\ fifosize \in 0..BufSize /\ head \in 0..BufSize - 1 /\ tail \in 0..BufSize - 1
  /\ sigcount \in Nat /\ sigperiod \in Nat /\ frames \in Nat
  /\ buf \in [0..BufSize - 1 -> Byte]
  /\ wlen \in Nat /\ wgot \in Nat \cup {-1}
  /\ openfds \subseteq Gens /\ disk \in [Gens -> Seq(Byte)]
  /\ header \in [Gens -> Nat \cup {-1}]
  /\ gen \in Gens /\ cgen \in Gens /\ put \in 0..MaxPut
  /\ spoilt \subseteq Gens /\ overtaken \subseteq Gens

(* The fifo holds exactly the bytes put in and not yet written, in order   *)
(* (lines 2551-2580 and 2422-2426); after an error the rest is lost.  A    *)
(* full fifo is taken for an empty one, and so breaks this, when a tick    *)
(* fills it while the tail is 0 (FillsUp, line 2552), and a fifo that does *)
(* not divide into ticks breaks it at its end (RunsOver): nothing is       *)
(* promised of a recording from there on (spoilt).                         *)
Unwritten == IF head >= tail THEN head - tail ELSE fifosize - tail + head
Written == Len(disk[gen]) - (IF cpc = "writedone" /\ wgot > 0 THEN wgot ELSE 0)
Serving == request \in {"OPEN", "BUSY"} \/ (request = "CLOSE" /\ xsf.fd # NoFd)
FifoHoldsInput ==
  Serving /\ ~fileerror /\ gen \notin spoilt =>
    /\ put = Written + Unwritten
    /\ \A k \in 0..Unwritten - 1 :
         buf[(tail + k) % fifosize] = [gen |-> gen, pos |-> Written + k]

(* The comment of lines 1802-1806, made of the same fifo in readsf~: the   *)
(* buffer is not filled completely, as a full one cannot be told from an   *)
(* empty one.  The DSP thread does not see to that: README, section 5.2.   *)
NeverFillsUp == [][PerformPuts => head' # tail]_vars

(* Whatever happens, errors, destruction and full fifos included, a file   *)
(* never has bytes meant for another file, and never a gap or a repeat     *)
(* unless its recording was spoilt.                                        *)
FileIsPrefix ==
  \A g \in Gens : \A i \in 1..Len(disk[g]) :
    /\ disk[g][i].gen = g
    /\ g \notin spoilt => disk[g][i].pos = i - 1

(* Stopping loses nothing: when a CLOSE takes effect, whether there is a   *)
(* file to close or not, every byte the DSP thread put in is in the file   *)
(* (lines 2362-2364, 2452-2469), unless the recording was spoilt or the    *)
(* stop overtook the creation of its file.  The header never announces     *)
(* more than there is, and all of it if frames divide WriteSize.           *)
ClosesIt == \/ ChildFinishes /\ ~quitting
            \/ ChildTakesClose /\ request = "CLOSE" /\ csf.fd = NoFd
AllOf(g) == g \notin spoilt \cup overtaken
StopKeepsEverything ==
  [][ClosesIt /\ ~fileerror /\ AllOf(gen) =>
       /\ Len(disk[gen]) = put
       /\ ChildFinishes => header'[gen] * xsf.bpf <= put
       /\ ChildFinishes /\ WriteSize % xsf.bpf = 0 => header'[gen] * xsf.bpf = put]_vars

(* The comment of line 1647, x_frameswritten is the number of "frames      *)
(* written", for every frame size.  It may be less: README, section 5.2.   *)
HeaderCountsFrames ==
  [][ChildFinishes /\ ~quitting /\ ~fileerror /\ AllOf(gen) =>
       header'[gen] * xsf.bpf = put]_vars

(* Comment of lines 2307-2309: an open never finds a file still open.      *)
DitchNeverHappens == cpc # "stray"

(* What is open is what the two copies of the descriptor say; an idle      *)
(* child has closed its file (lines 2440-2448, 2456-2468).  The one way a  *)
(* descriptor is lost is a stop, an open or a free during the creation of  *)
(* its file.                                                               *)
NoLeak == /\ openfds \subseteq {csf.fd, xsf.fd} \cup overtaken
          /\ cpc \in {"topwait", "exited"} => openfds \subseteq overtaken

(* Comment of line 2638: the open method waits until the child has         *)
(* finished, and then goes on.  It may not after a write has failed:       *)
(* README, section 5.2.                                                    *)
OpenReturns == ppc \in {"opencheck", "openwait", "openwake"} ~> ppc = "run"

(* The same as long as no write has failed.                                *)
OpenReturnsUnlessError ==
  ppc \in {"opencheck", "openwait", "openwake"} ~> (ppc = "run" \/ fileerror)

(* Comment of line 2699: the destructor gets its QUIT acknowledged.  It    *)
(* may not: README, section 5.2.                                           *)
FreeCompletes == ppc = "freewait" ~> ppc = "freed"
================================================================================
