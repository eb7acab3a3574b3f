----------------------------- MODULE SessionLink -----------------------------
(***************************************************************************)
(* One connection between a client session and a server session            *)
(* (proxy/session/session.go, stream.go, frame.go): the frames, the two    *)
(* receive loops, the streams with their users on the client and their     *)
(* handlers on the server, the SYN watchdog, and the ways all of it ends.  *)
(*                                                                         *)
(* A receive loop takes a frame in one step and acts on it in later ones,  *)
(* so that every other goroutine may act in between.  Frame payloads are   *)
(* numbered per stream and direction; item 1 from the client is the        *)
(* address of the proxy request; the n of a FIN is for the properties only.   *)
(* Padding (cmdWaste, the padding update) and heartbeats, which nothing    *)
(* sends, are left out.                                                    *)
(***************************************************************************)
EXTENDS Naturals, SequencesExt

CONSTANTS
    MaxStream,    \* bound of the model: streams opened on the session
    ClientItems,  \* bound of the model: items the client writes per stream
    ServerItems,  \* the same for the server
    Cap           \* frames the network holds before a Write blocks

Ends == {"client", "server"}
Peer(e) == IF e = "client" THEN "server" ELSE "client"
Sids == 1 .. MaxStream
MaxData == [e \in Ends |-> IF e = "client" THEN ClientItems ELSE ServerItems]

ASSUME LinkAssumption ==
    /\ MaxStream \in Nat /\ ClientItems \in Nat /\ ServerItems \in Nat
    /\ Cap \in Nat \ {0}

VARIABLES
    up,        \* the network still carries frames
    inbox,     \* the frames on their way to either end
    life,      \* Session.Close: not called, s.die closed, done
    rcv,       \* the receive loop: reading, stopped, or the frame it acts on
    streams,   \* s.streams
    strm,      \* every stream: not made, open, or how far its closing got
    sent,      \* history: items written so far by the end's owner of the stream
    read,      \* history: the items it has read
    writing,   \* who is inside Stream.Write, past the look at dieErr
    user,      \* the client's goroutine for a stream
    hand,      \* the server's goroutine for a stream
    buffering, \* the client's s.buffering ...
    buffer,    \* ... and s.buffer
    settled,   \* server: receivedSettingsFromClient; client: peerVersion >= 2
    dog        \* the stream whose SYN the armed watchdog waits for, or 0

vars == << up, inbox, life, rcv, streams, strm, sent, read, writing, user, hand,
           buffering, buffer, settled, dog >>

netVars == << up, inbox, buffering, buffer >>
dataVars == << sent, read, writing >>
streamVars == << streams, strm >>
taskVars == << user, hand >>

SessionCmds == {"Settings", "ServerSettings"}
StreamCmds == {"SYN", "SYNACK", "Refuse", "PSH", "FIN"}
LoopStates == {"reading", "stopped"}
Stages == {"none", "open", "fin", "unmap", "dead"}
Frame(cmd, k, n) == [cmd |-> cmd, sid |-> k, n |-> n]
Frames == [cmd : SessionCmds, sid : {0}, n : {0}] \cup [cmd : StreamCmds, sid : Sids, n : Nat]
Marks == [cmd : LoopStates, sid : {0}, n : {0}] \cup [cmd : {"closing"}, sid : Sids, n : Nat]

TypeOK ==
    /\ up \in BOOLEAN /\ buffering \in BOOLEAN
    /\ inbox \in [Ends -> Seq(Frames)] /\ buffer \in Seq(Frames)
    /\ life \in [Ends -> {"open", "died", "closed"}]
    /\ rcv \in [Ends -> Frames \cup Marks]
    /\ streams \in [Ends -> SUBSET Sids]
    /\ strm \in [Ends -> [Sids -> Stages]]
    /\ sent \in [Ends -> [Sids -> Nat]] /\ read \in [Ends -> [Sids -> Seq(Nat)]]
    /\ \A e \in Ends, k \in Sids :
         sent[e][k] <= MaxData[e] /\ Len(read[e][k]) <= MaxData[Peer(e)]
    /\ writing \in SUBSET (Ends \X Sids)
    /\ user \in [Sids -> {"idle", "syn", "register", "relay", "done"}]
    /\ hand \in [Sids -> {"none", "address", "dial", "relay", "return", "done"}]
    /\ settled \in [Ends -> BOOLEAN]
    /\ dog \in 0 .. MaxStream

\* The client has run: its Settings wait in the buffer for the first write.
Init ==
    /\ up = TRUE
    /\ inbox = [e \in Ends |-> << >>]
    /\ life = [e \in Ends |-> "open"]
    /\ rcv = [e \in Ends |-> Frame("reading", 0, 0)]
    /\ streams = [e \in Ends |-> {}]
    /\ strm = [e \in Ends |-> [k \in Sids |-> "none"]]
    /\ sent = [e \in Ends |-> [k \in Sids |-> 0]]
    /\ read = [e \in Ends |-> [k \in Sids |-> << >>]]
    /\ writing = {}
    /\ user = [k \in Sids |-> "idle"] /\ hand = [k \in Sids |-> "none"]
    /\ buffering = TRUE /\ buffer = << Frame("Settings", 0, 0) >>
    /\ settled = [e \in Ends |-> FALSE]
    /\ dog = 0

(***************************************************************************)
(* Writing and closing                                                     *)
(***************************************************************************)
IsClosed(e) == life[e] # "open"

Close(e) == life' = [life EXCEPT ![e] = IF @ = "open" THEN "died" ELSE @]

Gone(e) == life[e] = "closed" \/ life[Peer(e)] = "closed" \/ ~up

\* Mutant: the first write forgets what is in the buffer ...
PutLosesBuffer(e, f) ==
    IF e = "client" /\ buffering
    THEN buffer' = Append(buffer, f) /\ UNCHANGED inbox
    ELSE /\ life[e] # "closed" /\ Len(inbox[Peer(e)]) < Cap
         /\ inbox' = IF Gone(e) THEN inbox
                     ELSE [inbox EXCEPT ![Peer(e)] = Append(@, f)]
         /\ buffer' = IF e = "client" THEN << >> ELSE buffer

\* ... or frames are put before it instead of behind.
PutBeforeBuffer(e, f) ==
    LET held == IF e = "client" THEN << f >> \o buffer ELSE << f >> IN
    IF e = "client" /\ buffering
    THEN buffer' = held /\ UNCHANGED inbox
    ELSE /\ life[e] # "closed" /\ Len(inbox[Peer(e)]) < Cap
         /\ inbox' = IF Gone(e) THEN inbox
                     ELSE [inbox EXCEPT ![Peer(e)] = @ \o held]
         /\ buffer' = IF e = "client" THEN << >> ELSE buffer

\* writeConn, under connLock: the buffered frames go first.  What is written
\* to a connection that is gone may be accepted, and is lost.
Put(e, f) ==
    LET held == IF e = "client" THEN Append(buffer, f) ELSE << f >> IN
    IF e = "client" /\ buffering
    THEN buffer' = held /\ UNCHANGED inbox
    ELSE /\ life[e] # "closed"
         /\ Len(inbox[Peer(e)]) < Cap
         /\ inbox' = IF Gone(e) THEN inbox
                     ELSE [inbox EXCEPT ![Peer(e)] = @ \o held]
         /\ buffer' = IF e = "client" THEN << >> ELSE buffer

\* writeControlFrame gives up after 5 seconds and closes the session.
ControlFails(e) ==
    /\ ~(e = "client" /\ buffering)
    /\ Gone(e) \/ Len(inbox[Peer(e)]) >= Cap
    /\ Close(e)
    /\ UNCHANGED << inbox, buffer >>

Control(e, f) == (Put(e, f) /\ UNCHANGED life) \/ ControlFails(e)

\* Mutant: the map is emptied, the streams in it are not closed.
CloseStreamsKeepsThem(e) ==
    /\ life[e] = "died"
    /\ life' = [life EXCEPT ![e] = "closed"]
    /\ streams' = [streams EXCEPT ![e] = {}]
    /\ inbox' = [inbox EXCEPT ![e] = << >>]
    /\ UNCHANGED << up, rcv, strm, dataVars, taskVars, buffering, buffer, settled, dog >>

\* The rest of Session.Close: closeLocally on all streams, a fresh map, and
\* conn.Close, after which nothing more is read here.
CloseStreams(e) ==
    /\ life[e] = "died"
    /\ life' = [life EXCEPT ![e] = "closed"]
    /\ strm' = [strm EXCEPT ![e] = [k \in Sids |->
                  IF k \in streams[e] /\ @[k] = "open" THEN "dead" ELSE @[k]]]
    /\ streams' = [streams EXCEPT ![e] = {}]
    /\ inbox' = [inbox EXCEPT ![e] = << >>]
    /\ UNCHANGED << up, rcv, dataVars, taskVars, buffering, buffer, settled, dog >>

\* The watchdog's three seconds are over.
WatchdogFires ==
    /\ dog # 0
    /\ dog' = 0
    /\ Close("client")
    /\ UNCHANGED << netVars, rcv, streamVars, dataVars, taskVars, settled >>

LinkFails ==
    /\ up
    /\ up' = FALSE
    /\ inbox' = [e \in Ends |-> << >>]
    /\ UNCHANGED << life, rcv, streamVars, dataVars, taskVars, buffering, buffer,
                    settled, dog >>

(***************************************************************************)
(* recvLoop                                                                *)
(***************************************************************************)
ReadFrame(e) ==
    /\ rcv[e].cmd = "reading" /\ inbox[e] # << >>
    /\ rcv' = [rcv EXCEPT ![e] = Head(inbox[e])]
    /\ inbox' = [inbox EXCEPT ![e] = Tail(@)]
    /\ UNCHANGED << up, life, streamVars, dataVars, taskVars, buffering, buffer,
                    settled, dog >>

Stop(e) == rcv' = [rcv EXCEPT ![e] = Frame("stopped", 0, 0)]

\* Mutant: recvLoop ends without closing the session.
ReadFailsNoClose(e) ==
    /\ rcv[e].cmd = "reading" /\ Gone(e)
    /\ Stop(e)
    /\ UNCHANGED << netVars, life, streamVars, dataVars, taskVars, settled, dog >>

\* The connection is closed or reset, here, there or in between.
ReadFails(e) ==
    /\ rcv[e].cmd = "reading" /\ Gone(e)
    /\ Stop(e)
    /\ Close(e)
    /\ UNCHANGED << netVars, streamVars, dataVars, taskVars, settled, dog >>

\* The next round of the loop begins with a look at s.die.
NextRound(e) ==
    IF life'[e] = "open" THEN rcv' = [rcv EXCEPT ![e] = Frame("reading", 0, 0)]
    ELSE Stop(e)

On(e, cmd) == rcv[e].cmd = cmd

\* The loop has taken the stream of a FIN out of the map and goes on to close it.
Closing(e) == rcv' = [rcv EXCEPT ![e] = Frame("closing", @.sid, @.n)]

\* The stream's goroutine is at, or will get to, its next Read.
Reads(e, k) ==
    IF e = "client" THEN user[k] = "relay" /\ sent[e][k] > 0
    ELSE hand[k] \in {"address", "relay"}

\* pipeW.Write meets the stream's Read, which for the server's handler may be
\* the one in ReadAddrPort ...
OnPSH(e) ==
    LET k == rcv[e].sid IN
    /\ On(e, "PSH") /\ strm[e][k] = "open" /\ Reads(e, k)
    /\ read' = [read EXCEPT ![e][k] = Append(@, rcv[e].n)]
    /\ hand' = IF e = "server" /\ hand[k] = "address"
               THEN [hand EXCEPT ![k] = "dial"] ELSE hand
    /\ UNCHANGED life /\ NextRound(e)
    /\ UNCHANGED << netVars, streamVars, sent, writing, user, settled, dog >>

\* Mutant: data that nobody waits for is dropped.
OnPSHDropUnread(e) ==
    /\ On(e, "PSH") /\ (strm[e][rcv[e].sid] # "open" \/ ~Reads(e, rcv[e].sid))
    /\ UNCHANGED life /\ NextRound(e)
    /\ UNCHANGED << netVars, streamVars, dataVars, taskVars, settled, dog >>

\* ... or there is no such stream, or it dies first.
OnPSHDrop(e) ==
    /\ On(e, "PSH") /\ strm[e][rcv[e].sid] # "open"
    /\ UNCHANGED life /\ NextRound(e)
    /\ UNCHANGED << netVars, streamVars, dataVars, taskVars, settled, dog >>

\* Mutant: the dial, and its answer, do not wait for the address.
OnSYNDials ==
    LET k == rcv["server"].sid IN
    /\ On("server", "SYN")
    /\ streams' = [streams EXCEPT !["server"] = @ \cup {k}]
    /\ strm' = [strm EXCEPT !["server"][k] = "open"]
    /\ hand' = [hand EXCEPT ![k] = "dial"]
    /\ UNCHANGED life /\ NextRound("server")
    /\ UNCHANGED << netVars, dataVars, user, settled, dog >>

\* A SYN before the Settings ends the session.  SettingsFirst: this never
\* happens, so the alert that goes before is left out.
OnSYN ==
    LET k == rcv["server"].sid IN
    /\ On("server", "SYN")
    /\ IF ~settled["server"]
       THEN Close("server") /\ Stop("server") /\ UNCHANGED << streamVars, hand >>
       ELSE /\ IF k \in streams["server"] THEN UNCHANGED << streamVars, hand >>
               ELSE /\ streams' = [streams EXCEPT !["server"] = @ \cup {k}]
                    /\ strm' = [strm EXCEPT !["server"][k] = "open"]
                    /\ hand' = [hand EXCEPT ![k] = "address"]
            /\ UNCHANGED life /\ NextRound("server")
    /\ UNCHANGED << netVars, dataVars, user, settled, dog >>

\* Whichever stream a SYNACK belongs to, it disarms the watchdog.  One with
\* data reports an error: closeWithError, which goes on to send a FIN.
OnSYNACK ==
    LET k == rcv["client"].sid IN
    /\ On("client", "SYNACK") \/ On("client", "Refuse")
    /\ dog' = 0
    /\ strm' = IF On("client", "Refuse") /\ k \in streams["client"]
                  /\ strm["client"][k] = "open"
               THEN [strm EXCEPT !["client"][k] = "fin"] ELSE strm
    /\ UNCHANGED life /\ NextRound("client")
    /\ UNCHANGED << netVars, streams, dataVars, taskVars, settled >>

\* Mutant: a FIN leaves the stream in the map.
OnFINKeepsEntry(e) ==
    /\ On(e, "FIN")
    /\ IF rcv[e].sid \in streams[e] THEN Closing(e) /\ UNCHANGED life
       ELSE UNCHANGED life /\ NextRound(e)
    /\ UNCHANGED << netVars, streamVars, dataVars, taskVars, settled, dog >>

\* A FIN takes the stream out of the map, under streamLock ...
OnFIN(e) ==
    LET k == rcv[e].sid IN
    /\ On(e, "FIN")
    /\ streams' = [streams EXCEPT ![e] = @ \ {k}]
    /\ UNCHANGED life
    /\ IF k \in streams[e] THEN Closing(e) ELSE NextRound(e)
    /\ UNCHANGED << netVars, strm, dataVars, taskVars, settled, dog >>

\* ... and closes it afterwards, without the lock: closeLocally.
CloseFINed(e) ==
    /\ On(e, "closing")
    /\ strm' = [strm EXCEPT ![e][rcv[e].sid] = IF @ = "open" THEN "dead" ELSE @]
    /\ UNCHANGED life /\ NextRound(e)
    /\ UNCHANGED << netVars, streams, dataVars, taskVars, settled, dog >>

OnSettings ==
    /\ On("server", "Settings")
    /\ settled' = [settled EXCEPT !["server"] = TRUE]
    /\ Control("server", Frame("ServerSettings", 0, 0))
    /\ NextRound("server")
    /\ UNCHANGED << up, buffering, streamVars, dataVars, taskVars, dog >>

OnServerSettings ==
    /\ On("client", "ServerSettings")
    /\ settled' = [settled EXCEPT !["client"] = TRUE]
    /\ UNCHANGED life /\ NextRound("client")
    /\ UNCHANGED << netVars, streamVars, dataVars, taskVars, dog >>

RecvStep(e) ==
    \/ ReadFrame(e) \/ ReadFails(e)
    \/ OnPSH(e) \/ OnPSHDrop(e) \/ OnFIN(e) \/ CloseFINed(e)
    \/ e = "server" /\ (OnSYN \/ OnSettings)
    \/ e = "client" /\ (OnSYNACK \/ OnServerSettings)

(***************************************************************************)
(* Stream                                                                  *)
(***************************************************************************)
\* Write looks at dieErr first, and its frame may go out after the stream died.
StartWrite(e, k) ==
    /\ IF e = "client" THEN user[k] = "relay" ELSE hand[k] = "relay"
    /\ strm[e][k] = "open" /\ << e, k >> \notin writing
    /\ sent[e][k] < MaxData[e]
    /\ writing' = writing \cup {<< e, k >>}
    /\ UNCHANGED << netVars, life, rcv, streamVars, sent, read, taskVars, settled, dog >>

\* Mutant: a write that went well is done once more.
FinishWriteAgain(e, k) ==
    /\ << e, k >> \in writing
    /\ Put(e, Frame("PSH", k, sent[e][k] + 1))
    /\ sent' = [sent EXCEPT ![e][k] = @ + 1]
    /\ UNCHANGED << up, buffering, life, rcv, streamVars, read, writing, taskVars,
                    settled, dog >>

FinishWrite(e, k) ==
    /\ << e, k >> \in writing
    /\ writing' = writing \ {<< e, k >>}
    /\ \/ /\ Put(e, Frame("PSH", k, sent[e][k] + 1))
          /\ sent' = [sent EXCEPT ![e][k] = @ + 1]
       \/ Gone(e) /\ UNCHANGED << sent, inbox, buffer >>
    /\ UNCHANGED << up, buffering, life, rcv, streamVars, read, taskVars, settled, dog >>

\* streamClosed, by whoever closed the stream: the FIN, then the map.
SendFIN(e, k) ==
    /\ strm[e][k] = "fin"
    /\ IF IsClosed(e)
       THEN /\ strm' = [strm EXCEPT ![e][k] = "dead"]
            /\ UNCHANGED << life, inbox, buffer >>
       ELSE /\ strm' = [strm EXCEPT ![e][k] = "unmap"]
            /\ Control(e, Frame("FIN", k, sent[e][k]))
    /\ UNCHANGED << up, buffering, rcv, streams, dataVars, taskVars, settled, dog >>

Unmap(e, k) ==
    /\ strm[e][k] = "unmap"
    /\ strm' = [strm EXCEPT ![e][k] = "dead"]
    /\ streams' = [streams EXCEPT ![e] = @ \ {k}]
    /\ UNCHANGED << netVars, life, rcv, dataVars, taskVars, settled, dog >>

\* Stream.Close by the goroutine that owns it.
CloseStream(e, k) ==
    strm' = [strm EXCEPT ![e][k] = IF @ = "open" THEN "fin" ELSE @]

(***************************************************************************)
(* The client's user of a stream: CreateStream, CreateProxy, the relay.    *)
(***************************************************************************)
UserGoto(k, step) == user' = [user EXCEPT ![k] = step]

\* The pool gives the session out again when the die hook of the stream before
\* has run (SessionPool).  From the second stream on a watchdog is armed.
OpenStream(k) ==
    /\ user[k] = "idle"
    /\ k > 1 => user[k - 1] = "done" \/ strm["client"][k - 1] \notin {"none", "open"}
    /\ UserGoto(k, IF IsClosed("client") THEN "done" ELSE "syn")
    /\ dog' = IF ~IsClosed("client") /\ k >= 2 /\ settled["client"] THEN k ELSE dog
    /\ UNCHANGED << netVars, life, rcv, streamVars, dataVars, hand, settled >>

\* Mutant: buffering is never switched off.
SendSYNKeepsBuffering(k) ==
    /\ user[k] = "syn"
    /\ \/ Put("client", Frame("SYN", k, 0)) /\ UserGoto(k, "register") /\ UNCHANGED life
       \/ ControlFails("client") /\ UserGoto(k, "done")
    /\ UNCHANGED << up, buffering, rcv, streamVars, dataVars, hand, settled, dog >>

\* The SYN of the first stream stays in the buffer, which is then opened.
SendSYN(k) ==
    /\ user[k] = "syn"
    /\ \/ /\ Put("client", Frame("SYN", k, 0))
          /\ UserGoto(k, "register")
          /\ buffering' = FALSE
          /\ UNCHANGED life
       \/ ControlFails("client") /\ UserGoto(k, "done") /\ UNCHANGED buffering
    /\ UNCHANGED << up, rcv, streamVars, dataVars, hand, settled, dog >>

\* Mutant: the stream is registered without a look at s.die.
RegisterAnyway(k) ==
    /\ user[k] = "register"
    /\ UserGoto(k, "relay")
    /\ streams' = [streams EXCEPT !["client"] = @ \cup {k}]
    /\ strm' = [strm EXCEPT !["client"][k] = "open"]
    /\ UNCHANGED << netVars, life, rcv, dataVars, hand, settled, dog >>

Register(k) ==
    /\ user[k] = "register"
    /\ IF IsClosed("client") THEN UserGoto(k, "done") /\ UNCHANGED streamVars
       ELSE /\ UserGoto(k, "relay")
            /\ streams' = [streams EXCEPT !["client"] = @ \cup {k}]
            /\ strm' = [strm EXCEPT !["client"][k] = "open"]
    /\ UNCHANGED << netVars, life, rcv, dataVars, hand, settled, dog >>

\* The user closes when its relay ends; before that it writes the address.
UserCloses(k) ==
    /\ user[k] = "relay" /\ (sent["client"][k] > 0 \/ strm["client"][k] # "open" \/ Gone("client"))
    /\ UserGoto(k, "done")
    /\ CloseStream("client", k)
    /\ UNCHANGED << netVars, life, rcv, streams, dataVars, hand, settled, dog >>

(***************************************************************************)
(* The server's handler of a stream (handleConnection's onNewStream)       *)
(***************************************************************************)
HandGoto(k, step) == hand' = [hand EXCEPT ![k] = step]

\* The dial ends, well or not, and the client is told: HandshakeSuccess,
\* HandshakeFailure.  Neither looks whether the stream still lives.
Answer(k) ==
    /\ hand[k] = "dial"
    /\ \/ Put("server", Frame("SYNACK", k, 0)) /\ UNCHANGED life /\ HandGoto(k, "relay")
       \/ Put("server", Frame("Refuse", k, 0)) /\ UNCHANGED life /\ HandGoto(k, "return")
       \/ ControlFails("server") /\ HandGoto(k, "return")
    /\ UNCHANGED << up, buffering, rcv, streamVars, dataVars, user, settled, dog >>

\* The handler returns when reading fails, or its relay is over, and closes
\* the stream.
HandlerReturns(k) ==
    /\ \/ hand[k] \in {"relay", "return"}
       \/ hand[k] = "address" /\ strm["server"][k] # "open"
    /\ HandGoto(k, "done")
    /\ CloseStream("server", k)
    /\ UNCHANGED << netVars, life, rcv, streams, dataVars, user, settled, dog >>

(***************************************************************************)
(* The specification                                                       *)
(***************************************************************************)
StreamStep(e, k) == FinishWrite(e, k) \/ SendFIN(e, k) \/ Unmap(e, k)

Next ==
    \/ LinkFails \/ WatchdogFires
    \/ \E e \in Ends : RecvStep(e) \/ CloseStreams(e)
    \/ \E e \in Ends, k \in Sids : StartWrite(e, k) \/ StreamStep(e, k)
    \/ \E k \in Sids : \/ OpenStream(k) \/ SendSYN(k) \/ Register(k) \/ UserCloses(k)
                       \/ Answer(k) \/ HandlerReturns(k)

Spec == Init /\ [][Next]_vars

\* A goroutine that can go on does; local applications and dialled targets
\* take what is read for them; TCP keep-alive notices a connection that is
\* gone.  Nobody need open a stream, write more than the address, or close.
Fairness ==
    /\ \A e \in Ends : WF_vars(RecvStep(e)) /\ WF_vars(CloseStreams(e))
    /\ \A e \in Ends, k \in Sids : WF_vars(StreamStep(e, k))
    /\ \A k \in Sids :
         /\ WF_vars(SendSYN(k) \/ Register(k))
         /\ WF_vars(sent["client"][k] = 0 /\ StartWrite("client", k))
         /\ WF_vars(strm["client"][k] # "open" /\ UserCloses(k))
         /\ WF_vars(Answer(k))
         /\ WF_vars((hand[k] = "return" \/ strm["server"][k] # "open") /\ HandlerReturns(k))

FairSpec == Spec /\ Fairness

(***************************************************************************)
(* Properties                                                              *)
(***************************************************************************)
Carries(f, k) == f.cmd = "PSH" /\ f.sid = k

InOrder(q, k) ==
    \A i, j \in 1 .. Len(q) :
        i < j /\ Carries(q[i], k) /\ Carries(q[j], k) => q[i].n < q[j].n

Items(q, k) == {f.n : f \in {g \in Range(q) : Carries(g, k)}}

Written(e, k) == [i \in 1 .. sent[e][k] |-> i]

\* The frames on their way to an end, the one its receive loop is at first.
Rest(e) == IF e = "server" THEN inbox[e] \o buffer ELSE inbox[e]
Coming(e) == << rcv[e] >> \o Rest(e)

\* A stream is a FIFO: as long as it and its session live, what was read and
\* what is coming is exactly what was written, in order.  However it ends, what was
\* read is what was written first.
StreamIsFifo ==
    \A e \in Ends, k \in Sids :
        /\ up /\ ~IsClosed(e) /\ strm[e][k] \in {"none", "open"} =>
              /\ InOrder(Coming(e), k)
              /\ Items(Coming(e), k) = Len(read[e][k]) + 1 .. sent[Peer(e)][k]
        /\ IsPrefix(read[e][k], Written(Peer(e), k))

\* A FIN truncates nothing: when it closes a stream, all that was written
\* before it has been read (recvLoop waits in pipeW.Write).
FinDrains ==
    \A e \in Ends :
        (On(e, "FIN") \/ On(e, "closing")) /\ strm[e][rcv[e].sid] = "open" =>
            Len(read[e][rcv[e].sid]) = rcv[e].n

\* The server never meets a SYN before the Settings and so never rejects this
\* client (s.buffering holds both back until the first write).
SettingsFirst == On("server", "SYN") => settled["server"]

\* Nothing comes back on a stream before its address was written, hence not
\* before CreateStream has set the die hook that returns the session.
NoEarlyReply ==
    rcv["client"].sid # 0 => sent["client"][rcv["client"].sid] > 0

\* Between the two steps of a FIN the stream is in the hands of recvLoop alone.
Unlisted(e, k) == On(e, "closing") /\ rcv[e].sid = k

\* In a session that is not closing, s.streams holds every open stream, but for the
\* one that recvLoop is about to close for a FIN, and forgets every closed one
\* (streamClosed, cmdFIN): no owner of a stream is out of reach of Session.Close.
MapInStep ==
    \A e \in Ends, k \in Sids : ~IsClosed(e) =>
        /\ strm[e][k] = "open" => k \in streams[e] \/ Unlisted(e, k)
        /\ k \in streams[e] => strm[e][k] \in {"open", "fin", "unmap"}

\* What the comment on Session.Close says: it closes all streams.  The one that
\* recvLoop has taken out of s.streams for a FIN it does not see, and need not.
ClosesAllStreams(e) ==
    life[e] = "closed" => \A k \in Sids : strm[e][k] = "open" => Unlisted(e, k)
ClientClosesAll == ClosesAllStreams("client")
ServerClosesAll == ClosesAllStreams("server")

\* What the protocol says of SYNACK: the client can expect an answer to every
\* SYN; the watchdog for one stream does not take another's for it.
OwnAnswerDisarms ==
    [][OnSYNACK /\ dog # 0 => rcv["client"].sid = dog]_vars

\* A session that ends takes the other end with it.
CloseSpreads ==
    (\E e \in Ends : IsClosed(e)) ~>
        \A e \in Ends : life[e] = "closed" /\ rcv[e].cmd = "stopped"

\* No user is left behind by a session that ends.
UsersReleased ==
    IsClosed("client") ~> \A k \in Sids : user[k] \in {"idle", "done"}

\* What is written is read in the end, unless the stream or the session ends:
\* however full the network, the two receive loops never block each other.
Delivered ==
    \A e \in Ends, k \in Sids : \A i \in 1 .. MaxData[e] :
        sent[e][k] >= i ~> \/ Len(read[Peer(e)][k]) >= i
                           \/ strm[e][k] # "open" \/ strm[Peer(e)][k] = "dead"
=============================================================================
