--------------------------------- MODULE Pipe ---------------------------------
(***************************************************************************)
(* The pipe inside a stream (proxy/pipe/io_pipe.go) and its read deadline  *)
(* (proxy/pipe/deadline.go): a Write hands its bytes to Reads, which copy  *)
(* them out of the writer's buffer, until the pipe is closed.              *)
(*                                                                         *)
(* A select is a state of its goroutine, left by one of the cases that are *)
(* ready.  The two channels of the pipe are unbuffered, so that a send and *)
(* its receive are one step.  A closed channel has already woken all who   *)
(* wait for it: with done closed nobody meets any more.                    *)
(* The write deadline and closing from the writer's side, which nothing in *)
(* the repository uses (Stream has a write deadline of its own), are left  *)
(* out.                                                                    *)
(***************************************************************************)
EXTENDS Naturals, Sequences

CONSTANTS
    Writers, Readers,  \* goroutines in Write, and in Read
    Writes,            \* the byte sequences that are written
    ReadSizes,         \* the sizes of the buffers that are read into
    MaxSets            \* bound of the model: calls of SetReadDeadline

ASSUME PipeAssumption ==
    /\ Writes \subseteq Seq(Nat)
    /\ ReadSizes \subseteq Nat
    /\ MaxSets \in Nat

VARIABLES
    wr,         \* where write is: for wrMu, in its select, or at <-p.rdCh
    left,       \* the bytes it has yet to write
    rd,         \* where read is: between its selects, in the second, or copying
    want,       \* the size of its buffer
    done,       \* p.done is closed
    accepted,   \* history: the bytes of all writes since they got wrMu
    taken,      \* history: the bytes read
    timer,      \* d.timer: nil, running, or one that has gone off
    callbacks,  \* goroutines of timers about to close the cancel channel
    cancel,     \* the number of the present cancel channel
    closed,     \* the cancel channels that are closed
    waits,      \* the cancel channel a reader's select looks at
    due,        \* history: whether the deadline that was last set has passed
    sets        \* calls of SetReadDeadline that are to come

dataVars == << wr, left, rd, want, done, accepted, taken >>
timerVars == << timer, callbacks, cancel, closed, due, sets >>
pipeVars == << dataVars, timerVars, waits >>

Bytes == Seq(Nat)

PipeTypeOK ==
    /\ wr \in [Writers -> {"idle", "lock", "select", "await"}]
    /\ left \in [Writers -> Bytes]
    /\ rd \in [Readers -> {"idle", "enter", "select", "copy"}]
    /\ want \in [Readers -> Nat]
    /\ done \in BOOLEAN
    /\ accepted \in Bytes /\ taken \in Bytes
    /\ timer \in {"nil", "running", "over"}
    /\ callbacks \in Nat /\ cancel \in Nat /\ sets \in 0 .. MaxSets
    /\ closed \in SUBSET Nat
    /\ waits \in [Readers -> Nat]
    /\ due \in {"none", "future", "past"}

PipeInit ==
    /\ wr = [w \in Writers |-> "idle"] /\ left = [w \in Writers |-> << >>]
    /\ rd = [r \in Readers |-> "idle"] /\ want = [r \in Readers |-> 0]
    /\ done = FALSE
    /\ accepted = << >> /\ taken = << >>
    /\ timer = "nil" /\ callbacks = 0 /\ due = "none" /\ sets \in 0 .. MaxSets
    /\ cancel = 0 /\ closed = {} /\ waits = [r \in Readers |-> 0]

(***************************************************************************)
(* write                                                                   *)
(***************************************************************************)
\* The first select; a pipe that is closed fails the call at once.
StartWrite(w, b) ==
    /\ wr[w] = "idle"
    /\ IF done THEN UNCHANGED << wr, left >>
       ELSE wr' = [wr EXCEPT ![w] = "lock"] /\ left' = [left EXCEPT ![w] = b]
    /\ UNCHANGED << rd, want, done, accepted, taken, timerVars, waits >>

Inside(w) == wr[w] \in {"select", "await"}

LockWrites(w) ==
    /\ wr[w] = "lock" /\ \A v \in Writers : ~Inside(v)
    /\ wr' = [wr EXCEPT ![w] = "select"]
    /\ accepted' = accepted \o left[w]
    /\ UNCHANGED << left, rd, want, done, taken, timerVars, waits >>

\* The caller gets to know how much was written, and may reuse its buffer.
WriteFails(w) ==
    /\ wr[w] = "select" /\ done
    /\ wr' = [wr EXCEPT ![w] = "idle"] /\ left' = [left EXCEPT ![w] = << >>]
    /\ accepted' = SubSeq(accepted, 1, Len(accepted) - Len(left[w]))
    /\ UNCHANGED << rd, want, done, taken, timerVars, waits >>

(***************************************************************************)
(* read                                                                    *)
(***************************************************************************)
\* The first select, with what is closed before what could be read.
StartRead(r, n) ==
    /\ rd[r] = "idle"
    /\ IF done \/ cancel \in closed THEN UNCHANGED << rd, want >>
       ELSE rd' = [rd EXCEPT ![r] = "enter"] /\ want' = [want EXCEPT ![r] = n]
    /\ UNCHANGED << wr, left, done, accepted, taken, timerVars, waits >>

\* The second; Wait returns the cancel channel of this moment.
EnterSelect(r) ==
    /\ rd[r] = "enter"
    /\ rd' = [rd EXCEPT ![r] = "select"]
    /\ waits' = [waits EXCEPT ![r] = cancel]
    /\ UNCHANGED << wr, left, want, done, accepted, taken, timerVars >>

\* wrCh: the reader has the writer's buffer, the writer waits at rdCh.
Meet(w, r) ==
    /\ wr[w] = "select" /\ rd[r] = "select" /\ ~done
    /\ wr' = [wr EXCEPT ![w] = "await"] /\ rd' = [rd EXCEPT ![r] = "copy"]
    /\ UNCHANGED << left, want, done, accepted, taken, timerVars, waits >>

\* copy, and rdCh: the write goes on with what is left.
Copied(w, r) == IF want[r] < Len(left[w]) THEN want[r] ELSE Len(left[w])

\* Mutant: what a Read had no room for is lost.
RestForgotten(w, n) == << >>
Rest(w, n) == SubSeq(left[w], n + 1, Len(left[w]))

Transfer(w, r) ==
    /\ wr[w] = "await" /\ rd[r] = "copy"
    /\ taken' = taken \o SubSeq(left[w], 1, Copied(w, r))
    /\ left' = [left EXCEPT ![w] = Rest(w, Copied(w, r))]
    /\ wr' = [wr EXCEPT ![w] = IF left'[w] = << >> THEN "idle" ELSE "select"]
    /\ rd' = [rd EXCEPT ![r] = "idle"]
    /\ UNCHANGED << want, done, accepted, timerVars, waits >>

ReadEnds(r) ==
    /\ rd[r] = "select" /\ (done \/ waits[r] \in closed)
    /\ rd' = [rd EXCEPT ![r] = "idle"]
    /\ UNCHANGED << wr, left, want, done, accepted, taken, timerVars, waits >>

CloseRead ==
    /\ done' = TRUE
    /\ UNCHANGED << wr, left, rd, want, accepted, taken, timerVars, waits >>

(***************************************************************************)
(* PipeDeadline                                                            *)
(***************************************************************************)
\* Set, under d.mu, which keeps Wait out: with a timer that has gone off it
\* waits for the callback first.  A cancel channel that is not closed is kept.
\* Mutant: the callback of the timer before is not waited for.
CallbackUnawaited == TRUE
CallbackAwaited == timer = "over" => cancel \in closed

\* Mutant: a cancel channel that is not closed is replaced, too.
AlwaysNewChannel(t) == t # "past"
NewChannel(t) == t # "past" /\ cancel \in closed

SetReadDeadline(t) ==
    /\ ~done /\ sets > 0 /\ CallbackAwaited
    /\ sets' = sets - 1 /\ due' = t
    /\ timer' = IF t = "future" THEN "running" ELSE "nil"
    /\ cancel' = IF NewChannel(t) THEN cancel + 1 ELSE cancel
    /\ closed' = IF t = "past" THEN closed \cup {cancel} ELSE closed
    /\ UNCHANGED << dataVars, callbacks, waits >>

\* The time has come: the runtime starts the callback ...
TimerFires ==
    /\ timer = "running"
    /\ timer' = "over" /\ due' = "past"
    /\ callbacks' = callbacks + 1
    /\ UNCHANGED << dataVars, cancel, closed, waits, sets >>

\* ... which closes whatever cancel channel it finds.
Callback ==
    /\ callbacks > 0
    /\ callbacks' = callbacks - 1
    /\ closed' = closed \cup {cancel}
    /\ UNCHANGED << dataVars, timer, cancel, waits, due, sets >>

(***************************************************************************)
(* The specification of a pipe by itself                                   *)
(***************************************************************************)
PipeNext ==
    \/ \E w \in Writers : \/ \E b \in Writes : StartWrite(w, b)
                          \/ LockWrites(w) \/ WriteFails(w)
    \/ \E r \in Readers : \/ \E n \in ReadSizes : StartRead(r, n)
                          \/ EnterSelect(r) \/ ReadEnds(r)
    \/ \E w \in Writers, r \in Readers : Meet(w, r) \/ Transfer(w, r)
    \/ \E t \in {"none", "future", "past"} : SetReadDeadline(t)
    \/ CloseRead \/ TimerFires \/ Callback

PipeSpec == PipeInit /\ [][PipeNext]_pipeVars

(***************************************************************************)
(* Properties                                                              *)
(***************************************************************************)
\* Nothing is lost, doubled or mixed: what was read is what the writes that had
\* the lock wrote, each whole or up to where it failed, before the next.
PipeExact ==
    /\ \A w \in Writers : Inside(w) => accepted = taken \o left[w]
    /\ (\A w \in Writers : ~Inside(w)) => accepted = taken

\* A reader copies only from a buffer whose owner still waits inside Write, and
\* from one alone: recvLoop puts the buffer back into its pool when Write is over.
CopyInsideWrite ==
    \A r \in Readers : rd[r] = "copy" =>
        \E w \in Writers : wr[w] = "await" /\ \A q \in Readers : rd[q] = "copy" => q = r

\* The deadline is honest: the cancel channel in force is closed, or about to be,
\* only if the deadline that was last set has passed, and is closed only once (Set
\* waits for the callback of the timer before).  And it is heard: a Read that waits
\* looks at the channel in force or has been cancelled.
DeadlineHonest ==
    /\ cancel \in closed => due = "past" /\ callbacks = 0
    /\ callbacks > 0 => due = "past" /\ callbacks = 1
    /\ \A r \in Readers : rd[r] = "select" => waits[r] = cancel \/ waits[r] \in closed

(***************************************************************************)
(* The inductive invariant: the properties, wrMu, and how timer, deadline  *)
(* and channels go together.                                               *)
(***************************************************************************)
OneInside == \A v, w \in Writers : Inside(v) /\ Inside(w) => v = w

TimerInStep ==
    /\ closed \subseteq 0 .. cancel
    /\ timer = "running" => due = "future" /\ callbacks = 0
    /\ callbacks > 0 => timer = "over"
    /\ timer = "over" => cancel \in closed \/ callbacks = 1

PipeIInv ==
    /\ PipeTypeOK /\ OneInside /\ PipeExact /\ CopyInsideWrite
    /\ DeadlineHonest /\ TimerInStep
=============================================================================
