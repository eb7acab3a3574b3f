----------------------------- MODULE SessionWrite -----------------------------
(***************************************************************************)
(* How the goroutines of a client session write frames to its connection   *)
(* (writeDataFrame, writeControlFrame and writeConn in                     *)
(* proxy/session/session.go, proxy/padding): one at a time, the first      *)
(* together with what was buffered, cut into packets and padded as the     *)
(* padding scheme says; the deadline that control frames set is the        *)
(* connection's and hence everybody's.                                     *)
(*                                                                         *)
(* The connection is external: it carries bytes in order, blocks a write   *)
(* while the network is full, and after a write that failed fails all that *)
(* follow, as TLS does.  A byte is its frame and its place there.          *)
(***************************************************************************)
EXTENDS Integers, SequencesExt

CONSTANTS
    Senders,    \* the goroutines that write
    Work,       \* what they may have to write: for each, frames one after the other
    Held,       \* what s.buffer holds when buffering ends: Settings, the first SYN
    Schemes,    \* the padding schemes: stop, and per packet a list of ranges
    HeaderLen,  \* headerOverHeadSize
    Width,      \* 2^16: the length of a frame is taken modulo this
    Window      \* bytes the network holds before a write blocks

Commands ==
    {"Waste", "SYN", "PSH", "FIN", "Settings", "Alert", "UpdatePaddingScheme",
     "SYNACK", "HeartRequest", "HeartResponse", "ServerSettings"}

\* The data of a frame fit its length field.  Frames of padding are made here only.
Frames == {f \in [cmd : Commands, sid : Nat, data : Seq(Nat)] : Len(f.data) < Width}
Given == {f \in Frames : f.cmd # "Waste"}

\* What a scheme says of a packet: a check mark, or a range; a packet of padding, too,
\* must fit a frame, which nothing in the code makes sure of.
Items == {<< >>} \cup (Int \X Int)

ASSUME WriteAssumption ==
    /\ HeaderLen \in Nat \ {0} /\ Width \in Nat \ {0} /\ Window \in Nat \ {0}
    /\ Held \in Seq(Given) /\ Work \subseteq [Senders -> Seq(Given)]
    /\ Schemes \subseteq [stop : Nat, sizes : Seq(Seq(Items))]
    /\ \A scheme \in Schemes : \A n \in DOMAIN scheme.sizes :
        \A i \in DOMAIN scheme.sizes[n] : LET item == scheme.sizes[n][i] IN
            item # << >> => item[1] < Width /\ item[2] < Width

VARIABLES
    snd,       \* where each sender is
    todo,      \* the frames it has yet to write
    out,       \* b: the bytes the one inside writeConn has yet to write
    plan,      \* the sizes of the packets it has yet to make
    buffer,    \* s.buffer
    pkt,       \* s.pktCounter
    padding,   \* s.sendPadding
    deadline,  \* the write deadline of the connection
    broken,    \* a write has failed: the connection takes no more
    wire,      \* the bytes on their way
    log        \* history: the frames of writeConn's calls, in their order

writeVars == << snd, todo, out, plan, buffer, pkt, padding, deadline, broken, wire, log >>

CheckMark == -1

WireLen(f) == HeaderLen + Len(f.data)
WireBytes(f) == [i \in 1 .. WireLen(f) |-> << f, i >>]
Waste(n) == WireBytes([cmd |-> "Waste", sid |-> 0, data |-> [i \in 1 .. n |-> 0]])

WriteTypeOK ==
    /\ snd \in [Senders -> {"idle", "lock", "packets", "clear"}]
    /\ \E work \in Work : \A s \in Senders : IsSuffix(todo[s], work[s])
    /\ plan \in Seq((Nat \ {0}) \cup {CheckMark})
    /\ pkt \in Nat /\ padding \in BOOLEAN /\ broken \in BOOLEAN
    /\ deadline \in {"none", "armed", "over"}
    /\ buffer = << >> \/ log = << >>
    /\ IsPrefix(Held, log) \/ log = << >>

WriteInit ==
    /\ snd = [s \in Senders |-> "idle"] /\ todo \in Work
    /\ out = << >> /\ plan = << >>
    /\ buffer = FlattenSeq([i \in DOMAIN Held |-> WireBytes(Held[i])])
    /\ pkt = 0 /\ padding = TRUE
    /\ deadline = "none" /\ broken = FALSE
    /\ wire = << >> /\ log = << >>

SndGoto(s, step) == snd' = [snd EXCEPT ![s] = step]

IsControl(f) == f.cmd # "PSH"

(***************************************************************************)
(* GenerateRecordPayloadSizes                                              *)
(***************************************************************************)
\* Mutant: the ends of a range are not looked at.
DrawnUnchecked(item) ==
    IF item = << >> THEN {<< CheckMark >>}
    ELSE {<< n >> : n \in {item[1]} \cup item[1] .. item[2] - 1}

\* An item is << >> for a check mark or a range, whose upper end is never drawn
\* unless it is the lower; a range with an end that is not positive is left out.
Drawn(item) ==
    IF item = << >> THEN {<< CheckMark >>}
    ELSE LET lo == IF item[1] < item[2] THEN item[1] ELSE item[2]
             hi == IF item[1] < item[2] THEN item[2] ELSE item[1]
         IN  IF lo <= 0 THEN {<< >>}
             ELSE {<< n >> : n \in IF lo = hi THEN {lo} ELSE lo .. hi - 1}

\* Mutant: the packet that has the number of the stop is still padded.
PaddedAtStop(scheme, n) == n <= scheme.stop
Padded(scheme, n) == n < scheme.stop

PayloadSizes(scheme, n) ==
    IF n \notin DOMAIN scheme.sizes THEN {<< >>}
    ELSE LET items == scheme.sizes[n]
             draws == [DOMAIN items -> UNION {Drawn(items[i]) : i \in DOMAIN items}]
         IN  {FlattenSeq(d) :
                d \in {d \in draws : \A i \in DOMAIN items : d[i] \in Drawn(items[i])}}

(***************************************************************************)
(* writeControlFrame, writeDataFrame                                       *)
(***************************************************************************)
\* Mutant: no deadline is set.
StartFrameUntimed(s) ==
    /\ snd[s] = "idle" /\ todo[s] # << >>
    /\ SndGoto(s, "lock")
    /\ UNCHANGED << todo, out, plan, buffer, pkt, padding, deadline, broken, wire, log >>

StartFrame(s) ==
    /\ snd[s] = "idle" /\ todo[s] # << >>
    /\ SndGoto(s, "lock")
    /\ deadline' = IF IsControl(Head(todo[s])) THEN "armed" ELSE deadline
    /\ UNCHANGED << todo, out, plan, buffer, pkt, padding, broken, wire, log >>

ClearDeadline(s) ==
    /\ snd[s] = "clear"
    /\ SndGoto(s, "idle")
    /\ deadline' = "none"
    /\ UNCHANGED << todo, out, plan, buffer, pkt, padding, broken, wire, log >>

DeadlineOver ==
    /\ deadline = "armed"
    /\ deadline' = "over"
    /\ UNCHANGED << snd, todo, out, plan, buffer, pkt, padding, broken, wire, log >>

(***************************************************************************)
(* writeConn                                                               *)
(***************************************************************************)
\* Mutant: writeConn takes no lock.
UnlockedAlways == TRUE
Unlocked == \A t \in Senders : snd[t] # "packets"

\* connLock; the buffered bytes come first; the padding factory is loaded, whose
\* scheme may have been replaced since the write before.
LockConn(s) ==
    /\ snd[s] = "lock" /\ Unlocked
    /\ SndGoto(s, "packets")
    /\ out' = buffer \o WireBytes(Head(todo[s])) /\ buffer' = << >>
    /\ log' = Append(IF log = << >> THEN Held ELSE log, Head(todo[s]))
    /\ IF ~padding THEN plan' = << >> /\ UNCHANGED << pkt, padding >>
       ELSE /\ pkt' = pkt + 1
            /\ \E scheme \in Schemes :
                 IF Padded(scheme, pkt')
                 THEN plan' \in PayloadSizes(scheme, pkt') /\ UNCHANGED padding
                 ELSE plan' = << >> /\ padding' = FALSE
    /\ UNCHANGED << todo, deadline, broken, wire >>

\* At a check mark nothing more is made once the payload is out.
PassCheckMark(s) ==
    /\ snd[s] = "packets" /\ plan # << >> /\ Head(plan) = CheckMark
    /\ plan' = IF out = << >> THEN << >> ELSE Tail(plan)
    /\ UNCHANGED << snd, todo, out, buffer, pkt, padding, deadline, broken, wire, log >>

\* The next packet: all payload, the end of it and padding, or all padding; what
\* is left after the last one goes out as it is.
Packet ==
    LET l == Head(plan)
        room == l - Len(out) - HeaderLen IN
    IF plan = << >> THEN out
    ELSE IF Len(out) > l THEN SubSeq(out, 1, l)
    ELSE IF out = << >> THEN Waste(l)
    ELSE IF room > 0 THEN out \o Waste(room) ELSE out

Pending(s) == snd[s] = "packets" /\ (plan = << >> => out # << >>)
                                 /\ (plan # << >> => Head(plan) # CheckMark)

WritePacket(s) ==
    /\ Pending(s) /\ ~broken /\ deadline # "over" /\ Len(wire) < Window
    /\ wire' = wire \o Packet
    /\ out' = SubSeq(out, Len(Packet) + 1, Len(out))
    /\ plan' = IF plan = << >> THEN << >> ELSE Tail(plan)
    /\ UNCHANGED << snd, todo, buffer, pkt, padding, deadline, broken, log >>

\* The deadline is over, or the connection broken: part of the packet may be on
\* its way.  A control frame closes the session; the user of a stream gives up.
WritePacketFails(s) ==
    /\ Pending(s) /\ (broken \/ deadline = "over")
    /\ broken' = TRUE
    /\ \/ UNCHANGED wire
       \/ ~broken /\ \E n \in 1 .. Len(Packet) - 1 : wire' = wire \o SubSeq(Packet, 1, n)
    /\ SndGoto(s, "idle") /\ todo' = [todo EXCEPT ![s] = << >>]
    /\ out' = << >> /\ plan' = << >>
    /\ UNCHANGED << buffer, pkt, padding, deadline, log >>

WriteDone(s) ==
    /\ snd[s] = "packets" /\ plan = << >> /\ out = << >>
    /\ SndGoto(s, IF IsControl(Head(todo[s])) THEN "clear" ELSE "idle")
    /\ todo' = [todo EXCEPT ![s] = Tail(@)]
    /\ UNCHANGED << out, plan, buffer, pkt, padding, deadline, broken, wire, log >>

ConnBreaks ==
    /\ ~broken
    /\ broken' = TRUE
    /\ UNCHANGED << snd, todo, out, plan, buffer, pkt, padding, deadline, wire, log >>
=============================================================================
