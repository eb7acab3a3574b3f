------------------------------- MODULE DataPath -------------------------------
(***************************************************************************)
(* The way of a stream's bytes from a client session to the reader of the  *)
(* stream on the server: the client's goroutines write frames              *)
(* (SessionWrite), the server's recvLoop cuts what arrives into frames and *)
(* writes the data of stream 1 into its pipe (Pipe), out of which the      *)
(* stream's owner reads with deadlines.                                    *)
(*                                                                         *)
(* io.ReadFull waits for all of a frame, so that a frame is taken in one   *)
(* step once it is there; the network holds at least one (Window).         *)
(* The frames that the server sends are in SessionLink.                    *)
(***************************************************************************)
EXTENDS Pipe, SessionWrite

CONSTANT Workloads  \* what is written, and how often the reader's deadline is set

ASSUME DataPathAssumption ==
    /\ Writers = {"recvLoop"}
    /\ Workloads \subseteq Work \X (0 .. MaxSets)
    /\ \A work \in Work, s \in Senders : \A i \in DOMAIN work[s] :
        /\ WireLen(work[s][i]) <= Window
        /\ work[s][i].cmd = "PSH" => work[s][i].data \in Writes
    /\ \A i \in DOMAIN Held : Held[i].cmd = "PSH" => Held[i].data \in Writes
    /\ \E k \in DOMAIN Held :
        /\ Held[k].cmd = "SYN" /\ Held[k].sid = 1
        /\ \A i \in 1 .. k - 1 : Held[i].cmd \in {"PSH", "FIN"} => Held[i].sid # 1

VARIABLES
    known,   \* s.streams of the server has stream 1
    parsed,  \* history: what recvLoop took for frames, the padding left out
    over     \* recvLoop has returned, and closed the session

recvVars == << known, parsed, over >>
vars == << pipeVars, writeVars, recvVars >>

Stream1 == 1
Garbage == [cmd |-> "garbage", sid |-> 0, data |-> << >>]

DataOf(frames) ==
    FlattenSeq([i \in DOMAIN frames |->
        IF frames[i].cmd = "PSH" /\ frames[i].sid = Stream1 THEN frames[i].data ELSE << >>])

TypeOK == PipeTypeOK /\ WriteTypeOK /\ known \in BOOLEAN /\ over \in BOOLEAN

Init ==
    /\ PipeInit /\ WriteInit /\ << todo, sets >> \in Workloads
    /\ known = FALSE /\ parsed = << >> /\ over = FALSE

(***************************************************************************)
(* recvLoop                                                                *)
(***************************************************************************)
\* The header says how many bytes follow, in 16 bits; what is in front need not
\* be a header.
FrameSize == HeaderLen + (Len(wire[1][1].data) % Width)
Arrived == wire # << >> /\ Len(wire) >= FrameSize
NextFrame ==
    LET bytes == SubSeq(wire, 1, FrameSize) IN
    IF bytes = WireBytes(wire[1][1]) THEN wire[1][1] ELSE Garbage

Ignore == UNCHANGED << pipeVars, known >>

Handle(f) ==
    CASE f.cmd = "PSH" ->
            /\ IF f.sid = Stream1 /\ known /\ f.data # << >>
               THEN StartWrite("recvLoop", f.data) ELSE UNCHANGED pipeVars
            /\ UNCHANGED known
      [] f.cmd = "SYN" /\ f.sid = Stream1 -> known' = TRUE /\ UNCHANGED pipeVars
      [] f.cmd = "FIN" /\ f.sid = Stream1 ->
            /\ known' = FALSE
            /\ IF known THEN CloseRead ELSE UNCHANGED pipeVars
      [] OTHER -> Ignore

ReadFrame ==
    /\ ~over /\ wr["recvLoop"] = "idle" /\ Arrived
    /\ wire' = SubSeq(wire, FrameSize + 1, Len(wire))
    /\ parsed' = IF NextFrame.cmd = "Waste" THEN parsed ELSE Append(parsed, NextFrame)
    /\ Handle(NextFrame)
    /\ UNCHANGED << snd, todo, out, plan, buffer, pkt, padding, deadline, broken, log, over >>

\* A connection that is broken may lose what is on its way.
RecvEnds ==
    /\ ~over /\ wr["recvLoop"] = "idle" /\ broken
    /\ over' = TRUE /\ known' = FALSE
    /\ IF known THEN CloseRead ELSE UNCHANGED pipeVars
    /\ UNCHANGED << writeVars, parsed >>

(***************************************************************************)
(* The composition                                                         *)
(***************************************************************************)
SendStep(s) ==
    \/ ClearDeadline(s) \/ LockConn(s) \/ PassCheckMark(s)
    \/ WritePacket(s) \/ WritePacketFails(s) \/ WriteDone(s)

PipeStep ==
    \/ \E w \in Writers : LockWrites(w) \/ WriteFails(w)
    \/ \E r \in Readers : EnterSelect(r) \/ ReadEnds(r)
    \/ \E w \in Writers, r \in Readers : Meet(w, r) \/ Transfer(w, r)
    \/ Callback

\* The stream's owner, whom the first frame of the stream brought to life, and who
\* may close it at any time.
Owner ==
    /\ \E i \in DOMAIN parsed : parsed[i].cmd = "SYN" /\ parsed[i].sid = Stream1
    /\ \/ \E r \in Readers, n \in ReadSizes : StartRead(r, n)
       \/ \E t \in {"none", "future", "past"} : SetReadDeadline(t)
       \/ CloseRead

Next ==
    \/ (\E s \in Senders : StartFrame(s) \/ SendStep(s)) /\ UNCHANGED << pipeVars, recvVars >>
    \/ (DeadlineOver \/ ConnBreaks) /\ UNCHANGED << pipeVars, recvVars >>
    \/ ReadFrame \/ RecvEnds
    \/ (PipeStep \/ Owner \/ TimerFires) /\ UNCHANGED << writeVars, recvVars >>

Spec == Init /\ [][Next]_vars

\* What has begun goes on, time passes, and recvLoop takes what has come; nobody
\* has to write, to read, or to break the connection.
Fairness ==
    /\ \A s \in Senders :
        WF_vars(SendStep(s) /\ UNCHANGED << pipeVars, recvVars >>)
    /\ WF_vars(DeadlineOver /\ UNCHANGED << pipeVars, recvVars >>)
    /\ WF_vars(PipeStep /\ UNCHANGED << writeVars, recvVars >>)
    /\ WF_vars(ReadFrame) /\ WF_vars(RecvEnds)

FairSpec == Spec /\ Fairness

(***************************************************************************)
(* Properties                                                              *)
(***************************************************************************)
Idle == \A s \in Senders : snd[s] # "packets"
Quiet == Idle /\ wire = << >> /\ ~broken

\* What the client wrote to stream 1 before it closed it.
Written ==
    DataOf(SubSeq(log, 1,
        LET fin == SelectInSeq(log, LAMBDA f : f.cmd = "FIN" /\ f.sid = Stream1)
        IN  IF fin = 0 THEN Len(log) ELSE fin - 1))

\* However frames are cut into packets, padded, and written by whom, recvLoop finds
\* the frames that were written, each whole and in the order of connLock.
FramesIntact == IsPrefix(parsed, log) /\ (Quiet => IsPrefix(log, parsed))

\* The owner of a stream reads what was written to it, and when it has read all
\* that is on its way and nothing was closed, all of it.
EndToEnd ==
    /\ IsPrefix(taken, Written)
    /\ Quiet /\ ~done /\ wr["recvLoop"] = "idle" => taken = Written

\* From the write on that every scheme has as its stop, frames go out as they are:
\* in one packet without padding, whichever scheme was in force before (the first
\* write apart, which takes the buffer along).
Number == Len(log) - Len(Held)
PaddingStops ==
    [][/\ Number > 1 /\ \A scheme \in Schemes : Number >= scheme.stop
       /\ Len(wire') > Len(wire) /\ ~broken'
       => wire' = wire \o WireBytes(Last(log))]_vars

\* A Read that waits comes back if the stream is closed, if its deadline is over,
\* even when that is then set anew, or if there are bytes for it on their way.
ReadReturns ==
    \A r \in Readers :
        (rd[r] = "select" /\ (done \/ due = "past" \/ Len(taken) < Len(Written)))
            ~> rd[r] = "idle"

\* The first control frame after the handshake ends, even if nobody reads at the
\* other end, unless another one ends before it and takes the deadline with it.
FirstControl(s) ==
    /\ snd[s] \in {"lock", "packets"} /\ IsControl(Head(todo[s]))
    /\ Len(SelectSeq(log, IsControl)) =
        IF snd[s] = "packets" THEN Len(Held) + 1 ELSE IF log = << >> THEN 0 ELSE Len(Held)
ControlEnds ==
    \A s \in Senders :
        FirstControl(s) ~> \/ snd[s] \in {"idle", "clear"}
                           \/ \E t \in Senders : snd[t] = "clear"
=============================================================================
