-------------------------- MODULE SessionLinkProofs --------------------------
(***************************************************************************)
(* The link of SessionLink for any number of streams, items and frames     *)
(* that the network holds: its safety invariants, from one inductive       *)
(* invariant LinkInv.                                                      *)
(*                                                                         *)
(* The frames that an end has still to act on are a queue: the one its     *)
(* loop is at, then Rest(e).  The invariant says which frame may be ahead  *)
(* of which (MayPrecede), what every frame says of its two ends (Fits),    *)
(* and which frames must be there (DueInv); a queue changes only as        *)
(* QueueMove says.  Mutations of the rest of the state are summed up in    *)
(* StageMove, UserMove, HandMove and MapMove, and each part of the         *)
(* invariant has a lemma that a step keeps it.                             *)
(***************************************************************************)
EXTENDS SessionLink, TLAPS, SequenceTheorems

(***************************************************************************)
(* The inductive invariant                                                 *)
(***************************************************************************)
\* Frame f may be ahead of g on the way to one end.
MayPrecede(f, g) ==
    /\ f.cmd \in {"SYN", "Settings"} => g.cmd # "Settings"
    /\ f.sid = g.sid =>
         /\ f.cmd \in {"SYN", "PSH", "FIN"} => g.cmd # "SYN"
         /\ f.cmd \in {"PSH", "FIN"} /\ g.cmd = "PSH" => f.n < g.n
         /\ f.cmd = "PSH" /\ g.cmd = "FIN" => f.n <= g.n
         /\ ~(f.cmd = "FIN" /\ g.cmd = "FIN")

Ordered(q) == \A i, j \in 1 .. Len(q) : i < j => MayPrecede(q[i], q[j])

\* The frames behind the one that the loop is at, and all of them.
Behind(e) == Range(Rest(e))
Wire(e) == {rcv[e]} \cup Behind(e)

\* Frames can still arrive at the end.
Reachable(e) == up /\ life[e] # "closed"

\* The buffer is ahead of everything, and nothing is left where nothing can arrive.
BufferInv ==
    /\ buffering => /\ buffer # << >>
                    /\ \A k \in Sids : user[k] \in {"idle", "syn", "done"}
                                       /\ strm["client"][k] = "none"
    /\ buffer # << >> => inbox["server"] = << >>
    /\ \A e \in Ends : ~Reachable(e) => inbox[e] = << >>

\* How far a stream is for its owners agrees with what they have done.
StageInv ==
    \A k \in Sids :
        /\ user[k] \in {"idle", "syn", "register"} => strm["client"][k] = "none"
        /\ user[k] \in {"idle", "syn"} => strm["server"][k] = "none"
        /\ user[k] = "relay" => strm["client"][k] # "none"
        /\ strm["server"][k] = "none" => hand[k] = "none"
        /\ \A e \in Ends :
             /\ strm[e][k] = "none" =>
                  k \notin streams[e] /\ << e, k >> \notin writing /\ sent[e][k] = 0
             /\ << e, k >> \in writing => sent[e][k] < MaxData[e]
        /\ \/ hand[k] \in {"dial", "relay", "return"} \/ << "server", k >> \in writing
           \/ strm["server"][k] \in {"fin", "unmap"}
           => sent["client"][k] > 0

\* What a frame on its way says of the two ends.
Fits(e, f) ==
    LET k == f.sid IN
    /\ f.cmd = "PSH" => Len(read[e][k]) < f.n /\ f.n <= sent[Peer(e)][k]
    /\ f.cmd = "FIN" => /\ Len(read[e][k]) <= f.n /\ f.n <= sent[Peer(e)][k]
                        /\ strm[Peer(e)][k] \in {"unmap", "dead"}
    /\ e = "client" /\ k # 0 => sent["client"][k] > 0
    /\ e = "server" /\ f.cmd = "SYN" =>
         strm["server"][k] = "none" /\ user[k] \notin {"idle", "syn"}
    /\ e = "server" /\ f.cmd = "Settings" => ~settled["server"]

WireInv ==
    \A e \in Ends : /\ Ordered(Rest(e))
                    /\ \A f \in Behind(e) : MayPrecede(rcv[e], f)
                    /\ \A f \in Wire(e) : Fits(e, f)

\* What must still be on its way: the Settings before all, the SYN before the
\* rest of a stream, all items not yet read.
DueInv ==
    /\ ~settled["server"] /\ (\/ Reachable("server") \/ buffering
                              \/ \E f \in Wire("server") : f.cmd = "SYN")
         => Frame("Settings", 0, 0) \in Wire("server")
    /\ \A k \in Sids :
         strm["server"][k] = "none"
         /\ (\/ Reachable("server") /\ (user[k] = "register" \/ strm["client"][k] # "none")
             \/ \E f \in Wire("server") : f.sid = k /\ f.cmd \in {"PSH", "FIN"})
         => Frame("SYN", k, 0) \in Wire("server")
    /\ \A e \in Ends, k \in Sids : Reachable(e) /\ strm[e][k] \in {"none", "open"} =>
         \A m \in Len(read[e][k]) + 1 .. sent[Peer(e)][k] : Frame("PSH", k, m) \in Wire(e)

\* The frame the loop is at comes next for its stream, also when everything
\* behind it is lost; a FIN is still in step when it gets to closing the stream.
HeadInv ==
    \A e \in Ends, k \in Sids : strm[e][k] = "open" /\ rcv[e].sid = k =>
        /\ On(e, "PSH") => rcv[e].n = Len(read[e][k]) + 1
        /\ On(e, "FIN") \/ On(e, "closing") => rcv[e].n = Len(read[e][k])

ReadInv ==
    \A e \in Ends, k \in Sids :
        /\ Len(read[e][k]) <= sent[Peer(e)][k]
        /\ \A i \in 1 .. Len(read[e][k]) : read[e][k][i] = i

MapInv ==
    \A e \in Ends, k \in Sids :
        /\ life[e] # "closed" /\ strm[e][k] = "open" => k \in streams[e] \/ Unlisted(e, k)
        /\ Unlisted(e, k) => k \notin streams[e]
        /\ ~IsClosed(e) /\ k \in streams[e] => strm[e][k] \in {"open", "fin", "unmap"}

LinkInv ==
    /\ TypeOK /\ BufferInv /\ StageInv /\ WireInv /\ DueInv /\ HeadInv /\ ReadInv
    /\ MapInv /\ ClientClosesAll

(***************************************************************************)
(* Lemmas on queues                                                        *)
(***************************************************************************)
Message == Frames \cup Marks

LEMMA EmptyQueue == Ordered(<< >>) /\ Range(<< >>) = {}
BY DEF Ordered, Range

\* A frame joins the queue at its end.
LEMMA QueueAppend ==
    ASSUME NEW q \in Seq(Frames), NEW f \in Frames
    PROVE  /\ Append(q, f) \in Seq(Frames)
           /\ Range(Append(q, f)) = Range(q) \cup {f}
           /\ Ordered(q) /\ (\A g \in Range(q) : MayPrecede(g, f)) => Ordered(Append(q, f))
<1> DEFINE p == Append(q, f)
<1>1. /\ p \in Seq(Frames) /\ Len(p) = Len(q) + 1 /\ Len(q) \in Nat
      /\ \A i \in 1 .. Len(q) : p[i] = q[i]
      /\ p[Len(q) + 1] = f
  BY AppendProperties, LenProperties
<1>2. Range(q) = {q[i] : i \in 1 .. Len(q)} /\ Range(p) = {p[i] : i \in 1 .. Len(p)}
  BY <1>1, RangeEquality
<1>3. Range(p) = Range(q) \cup {f}
  <2>1. ASSUME NEW x \in Range(p) PROVE x \in Range(q) \cup {f}
    BY <1>1, <1>2, <2>1
  <2>2. ASSUME NEW x \in Range(q) PROVE x \in Range(p)
    BY <1>1, <1>2, <2>2
  <2>3. f \in Range(p)
    BY <1>1, <1>2
  <2>. QED
    BY <2>1, <2>2, <2>3
<1>4. ASSUME Ordered(q), \A g \in Range(q) : MayPrecede(g, f)
      PROVE  Ordered(p)
  <2> SUFFICES ASSUME NEW i \in 1 .. Len(p), NEW j \in 1 .. Len(p), i < j
               PROVE  MayPrecede(p[i], p[j])
    BY DEF Ordered
  <2>1. i \in 1 .. Len(q) /\ p[i] = q[i] /\ q[i] \in Range(q)
    BY <1>1, <1>2
  <2>2. CASE j = Len(q) + 1
    BY <1>1, <1>4, <2>1, <2>2
  <2>3. CASE j # Len(q) + 1
    <3>1. j \in 1 .. Len(q) /\ p[j] = q[j]
      BY <1>1, <2>3
    <3>. QED
      BY <1>4, <2>1, <3>1 DEF Ordered
  <2>. QED
    BY <2>2, <2>3
<1>. QED
  BY <1>1, <1>3, <1>4

\* A frame leaves the queue at its head.
LEMMA QueueTail ==
    ASSUME NEW q \in Seq(Frames), q # << >>
    PROVE  /\ Head(q) \in Frames /\ Tail(q) \in Seq(Frames)
           /\ Range(q) = {Head(q)} \cup Range(Tail(q))
           /\ Ordered(q) => /\ Ordered(Tail(q))
                            /\ \A g \in Range(Tail(q)) : MayPrecede(Head(q), g)
<1> DEFINE p == Tail(q)
<1>1. /\ p \in Seq(Frames) /\ Len(p) = Len(q) - 1 /\ Len(q) \in Nat \ {0}
      /\ \A i \in 1 .. Len(p) : p[i] = q[i + 1]
      /\ Head(q) = q[1] /\ Head(q) \in Frames
  BY HeadTailProperties, LenProperties, EmptySeq
<1>2. Range(q) = {q[i] : i \in 1 .. Len(q)} /\ Range(p) = {p[i] : i \in 1 .. Len(p)}
  BY <1>1, RangeEquality, ZenonT(60)
<1>3. Range(q) = {Head(q)} \cup Range(p)
  <2>1. ASSUME NEW x \in Range(q) PROVE x \in {Head(q)} \cup Range(p)
    <3>1. PICK i \in 1 .. Len(q) : x = q[i]
      BY <1>2
    <3>2. CASE i = 1
      BY <1>1, <3>1, <3>2
    <3>3. CASE i # 1
      <4>1. i - 1 \in 1 .. Len(p) /\ p[i - 1] = q[i]
        BY <1>1, <3>3
      <4>. QED
        BY <1>2, <3>1, <4>1
    <3>. QED
      BY <3>2, <3>3
  <2>2. ASSUME NEW x \in Range(p) PROVE x \in Range(q)
    <3>1. PICK i \in 1 .. Len(p) : x = p[i]
      BY <1>2
    <3>2. i + 1 \in 1 .. Len(q) /\ x = q[i + 1]
      BY <1>1, <3>1
    <3>. QED
      BY <1>2, <3>2
  <2>3. Head(q) \in Range(q)
    BY <1>1, <1>2
  <2>. QED
    BY <2>1, <2>2, <2>3
<1>4. ASSUME Ordered(q)
      PROVE  Ordered(p) /\ \A g \in Range(p) : MayPrecede(Head(q), g)
  <2>1. ASSUME NEW i \in 1 .. Len(p), NEW j \in 1 .. Len(p), i < j
        PROVE  MayPrecede(p[i], p[j])
    <3>1. /\ i + 1 \in 1 .. Len(q) /\ j + 1 \in 1 .. Len(q) /\ i + 1 < j + 1
          /\ p[i] = q[i + 1] /\ p[j] = q[j + 1]
      BY <1>1, <2>1
    <3>. QED
      BY <1>4, <3>1 DEF Ordered
  <2>2. ASSUME NEW g \in Range(p) PROVE MayPrecede(Head(q), g)
    <3>1. PICK i \in 1 .. Len(p) : g = p[i]
      BY <1>2
    <3>2. 1 \in 1 .. Len(q) /\ i + 1 \in 1 .. Len(q) /\ 1 < i + 1 /\ g = q[i + 1]
      BY <1>1, <3>1
    <3>. QED
      BY <1>1, <1>4, <3>2 DEF Ordered
  <2>. QED
    BY <2>1, <2>2 DEF Ordered
<1>. QED
  BY <1>1, <1>3, <1>4

LEMMA Regroup ==
    ASSUME NEW q \in Seq(Frames), NEW r \in Seq(Frames), NEW s \in Seq(Frames)
    PROVE  q \o (r \o s) = (q \o r) \o s
BY ConcatAssociative

\* What StreamIsFifo says of a queue follows from its order.
LEMMA QueueInOrder ==
    ASSUME NEW q \in Seq(Frames), NEW r \in Message, NEW k, Ordered(q),
           \A g \in Range(q) : MayPrecede(r, g)
    PROVE  InOrder(<< r >> \o q, k) /\ Range(<< r >> \o q) = {r} \cup Range(q)
<1> DEFINE p == << r >> \o q
<1>1. << r >> \in Seq(Message) /\ q \in Seq(Message) /\ Len(<< r >>) = 1 /\ << r >>[1] = r
  BY SeqMonotonic DEF Message
<1>2. /\ p \in Seq(Message) /\ Len(p) = Len(q) + 1 /\ Len(q) \in Nat /\ p[1] = r
      /\ \A i \in 2 .. Len(q) + 1 : p[i] = q[i - 1]
  BY <1>1, ConcatProperties, LenProperties
<1>3. Range(q) = {q[i] : i \in 1 .. Len(q)} /\ Range(p) = {p[i] : i \in 1 .. Len(p)}
  BY <1>2, RangeEquality
<1>4. ASSUME NEW i \in 1 .. Len(p), NEW j \in 1 .. Len(p), i < j
      PROVE  MayPrecede(p[i], p[j])
  <2>1. j - 1 \in 1 .. Len(q) /\ p[j] = q[j - 1] /\ q[j - 1] \in Range(q)
    BY <1>2, <1>3, <1>4
  <2>2. CASE i = 1
    BY <1>2, <2>1, <2>2
  <2>3. CASE i # 1
    <3>1. i - 1 \in 1 .. Len(q) /\ p[i] = q[i - 1] /\ i - 1 < j - 1
      BY <1>2, <1>4, <2>3
    <3>. QED
      BY <2>1, <3>1 DEF Ordered
  <2>. QED
    BY <2>2, <2>3
<1>5. InOrder(p, k)
  BY <1>4 DEF InOrder, Carries, MayPrecede
<1>6. Range(p) = {r} \cup Range(q)
  <2>1. ASSUME NEW x \in Range(p) PROVE x \in {r} \cup Range(q)
    <3>1. PICK i \in 1 .. Len(p) : x = p[i]
      BY <1>3
    <3>2. CASE i # 1
      <4>1. i - 1 \in 1 .. Len(q) /\ p[i] = q[i - 1]
        BY <1>2, <3>2
      <4>. QED
        BY <1>3, <3>1, <4>1
    <3>. QED
      BY <1>2, <3>1, <3>2
  <2>2. ASSUME NEW x \in Range(q) PROVE x \in Range(p)
    <3>1. PICK i \in 1 .. Len(q) : x = q[i]
      BY <1>3
    <3>2. i + 1 \in 1 .. Len(p) /\ x = p[i + 1]
      BY <1>2, <3>1
    <3>. QED
      BY <1>3, <3>2
  <2>3. r \in Range(p)
    <3>1. 1 \in 1 .. Len(p)
      BY <1>2
    <3>. QED
      BY <1>2, <1>3, <3>1
  <2>. QED
    BY <2>1, <2>2, <2>3
<1>. QED
  BY <1>5, <1>6

(***************************************************************************)
(* What the network does to a queue                                        *)
(***************************************************************************)
\* The step leaves the queue of the end alone ...
Keeps(e) == Rest(e)' = Rest(e)

\* ... or puts a frame at its end ...
Gains(e, f) ==
    /\ Behind(e)' = Behind(e) \cup {f}
    /\ Ordered(Rest(e)) /\ (\A g \in Behind(e) : MayPrecede(g, f)) => Ordered(Rest(e))'

\* ... or empties it.
Loses(e) == Behind(e)' = {} /\ Ordered(Rest(e))'

LEMMA EndFacts ==
    ASSUME NEW e \in Ends
    PROVE  Peer(e) \in Ends /\ Peer(e) # e /\ Peer(Peer(e)) = e
BY DEF Ends, Peer

LEMMA RestType ==
    ASSUME TypeOK, NEW e \in Ends
    PROVE  Rest(e) \in Seq(Frames) /\ Behind(e) \subseteq Frames
<1>1. Rest(e) \in Seq(Frames)
  BY ConcatProperties DEF TypeOK, Rest
<1>. QED
  BY <1>1, RangeOfSeq DEF Behind

LEMMA WireType ==
    ASSUME TypeOK, NEW e \in Ends
    PROVE  /\ Wire(e) \subseteq Message /\ rcv[e] \in Message /\ rcv[e] \in Wire(e)
           /\ \A f \in Wire(e) :
                /\ f.n \in Nat /\ f.sid \in 0 .. MaxStream
                /\ f.cmd \in StreamCmds => f.sid \in Sids /\ f = Frame(f.cmd, f.sid, f.n)
                /\ f \notin Marks /\ f.cmd \notin StreamCmds => f.sid = 0
<1>1. Wire(e) \subseteq Message /\ rcv[e] \in Message /\ rcv[e] \in Wire(e)
  BY RestType DEF Wire, TypeOK, Message
<1>2. ASSUME NEW f \in Message
      PROVE  /\ f.n \in Nat /\ f.sid \in 0 .. MaxStream
             /\ f.cmd \in StreamCmds => f.sid \in Sids /\ f = Frame(f.cmd, f.sid, f.n)
             /\ f \notin Marks /\ f.cmd \notin StreamCmds => f.sid = 0
  BY LinkAssumption DEF Message, Frames, Marks, Sids, StreamCmds, SessionCmds, LoopStates, Frame
<1>. QED
  BY <1>1, <1>2

LEMMA RestTypePrime ==
    ASSUME TypeOK', NEW e \in Ends
    PROVE  Behind(e)' \subseteq Frames
<1>1. Rest(e)' \in Seq(Frames)
  BY ConcatProperties DEF TypeOK, Rest
<1>. QED
  BY <1>1, RangeOfSeq DEF Behind

LEMMA WireNumbers ==
    ASSUME TypeOK', NEW e \in Ends, NEW f \in Wire(e)'
    PROVE  f.n \in Nat
<1>1. Rest(e)' \in Seq(Frames) /\ rcv'[e] \in Message
  BY ConcatProperties DEF TypeOK, Rest, Message
<1>2. f \in Message
  BY <1>1, RangeOfSeq DEF Wire, Behind, Message
<1>. QED
  BY <1>2 DEF Message, Frames, Marks

LEMMA GainsAppend ==
    ASSUME TypeOK, NEW e \in Ends, NEW f \in Frames, Rest(e)' = Append(Rest(e), f)
    PROVE  Gains(e, f)
BY RestType, QueueAppend DEF Gains, Behind

LEMMA LosesAll ==
    ASSUME NEW e \in Ends, Rest(e)' = << >>
    PROVE  Loses(e)
BY EmptyQueue DEF Loses, Behind

\* What the queues are after a Put.
LEMMA PutSends ==
    ASSUME TypeOK, BufferInv, NEW e \in Ends, NEW f \in Frames, Put(e, f)
    PROVE  /\ inbox' \in [Ends -> Seq(Frames)] /\ buffer' \in Seq(Frames)
           /\ Keeps(e)
           /\ \/ Gains(Peer(e), f) /\ (Reachable(Peer(e)) \/ (e = "client" /\ buffering))
              \/ (~Reachable(Peer(e)) /\ ~(e = "client" /\ buffering) /\ Loses(Peer(e)))
           /\ buffering => buffer' # << >>
           /\ buffer' # << >> => inbox'["server"] = << >>
           /\ \A x \in Ends : ~Reachable(x) => inbox'[x] = << >>
<1> DEFINE p == Peer(e)
<1>0. p \in Ends /\ p # e /\ inbox[p] \in Seq(Frames) /\ buffer \in Seq(Frames)
  BY EndFacts DEF TypeOK
<1>1. CASE e = "client" /\ buffering
  <2>1. buffer' = Append(buffer, f) /\ inbox' = inbox /\ p = "server"
    BY <1>1 DEF Put, Peer
  <2>2. inbox["server"] = << >>
    BY <1>1 DEF BufferInv
  <2>3. buffer' \in Seq(Frames) /\ buffer' # << >>
    BY <1>0, <2>1, AppendProperties
  <2>4. Rest(p)' = Append(Rest(p), f)
    <3>1. Rest(p) = << >> \o buffer /\ Rest(p)' = << >> \o buffer'
      BY <2>1, <2>2 DEF Rest
    <3>. QED
      BY <1>0, <2>1, <2>3, <3>1, ConcatEmptySeq
  <2>5. Keeps(e)
    BY <1>1, <2>1 DEF Keeps, Rest
  <2>6. Gains(p, f)
    BY <1>0, <2>4, GainsAppend
  <2>. QED
    BY <1>1, <2>1, <2>2, <2>3, <2>5, <2>6 DEF TypeOK, BufferInv
<1>2. CASE ~(e = "client" /\ buffering)
  <2> DEFINE held == IF e = "client" THEN Append(buffer, f) ELSE << f >>
  <2>1. /\ life[e] # "closed"
        /\ inbox' = IF Gone(e) THEN inbox ELSE [inbox EXCEPT ![p] = @ \o held]
        /\ buffer' = IF e = "client" THEN << >> ELSE buffer
    BY <1>2 DEF Put
  <2>2. held \in Seq(Frames) /\ << f >> \in Seq(Frames) /\ buffer' \in Seq(Frames)
    BY <1>0, <2>1, AppendProperties, EmptySeq
  <2>3. Gone(e) <=> ~Reachable(p)
    BY <2>1 DEF Gone, Reachable
  <2>4. inbox' \in [Ends -> Seq(Frames)]
    BY <1>0, <2>1, <2>2, ConcatProperties DEF TypeOK
  <2>5. Keeps(e)
    <3>1. inbox'[e] = inbox[e]
      BY <1>0, <2>1 DEF TypeOK
    <3>. QED
      BY <2>1, <3>1 DEF Keeps, Rest, Ends
  <2>6. CASE Reachable(p)
    <3>1. inbox'[p] = inbox[p] \o held /\ inbox' = [inbox EXCEPT ![p] = inbox[p] \o held]
      BY <1>0, <2>1, <2>3, <2>6 DEF TypeOK
    <3>2. CASE e = "client"
      <4>1. p = "server" /\ buffer' = << >> /\ held = Append(buffer, f)
        BY <2>1, <3>2 DEF Peer
      <4>2. held = buffer \o << f >>
        BY <1>0, <4>1, AppendIsConcat
      <4>3. inbox[p] \o held = (inbox[p] \o buffer) \o << f >>
        <5>1. inbox[p] \in Seq(Frames) /\ buffer \in Seq(Frames) /\ << f >> \in Seq(Frames)
          BY <1>0, <2>2
        <5>2. inbox[p] \o (buffer \o << f >>) = (inbox[p] \o buffer) \o << f >>
          BY <5>1, Regroup, Zenon
        <5>. QED
          BY <4>2, <5>2, Zenon
      <4>4. Rest(p)' = (inbox[p] \o held) \o << >> /\ Rest(p) = inbox[p] \o buffer
        BY <3>1, <4>1 DEF Rest
      <4>5. inbox[p] \o held \in Seq(Frames) /\ inbox[p] \o buffer \in Seq(Frames)
        BY <1>0, <2>2, ConcatProperties
      <4>6. Rest(p)' = Append(Rest(p), f)
        <5>1. Rest(p)' = inbox[p] \o held
          <6> HIDE DEF held
          <6>. QED
            BY <4>4, <4>5, ConcatEmptySeq
        <5>2. Append(inbox[p] \o buffer, f) = (inbox[p] \o buffer) \o << f >>
          BY <4>5, AppendIsConcat
        <5>. QED
          BY <4>3, <4>4, <5>1, <5>2
      <4>7. \A x \in Ends : ~Reachable(x) => inbox'[x] = << >>
        BY <1>0, <2>6, <3>1 DEF BufferInv, TypeOK
      <4>8. ~buffering
        BY <1>2, <3>2
      <4>9. Gains(p, f)
        BY <1>0, <4>6, GainsAppend
      <4>. QED
        BY <2>2, <2>4, <2>5, <2>6, <4>1, <4>7, <4>8, <4>9
    <3>3. CASE e = "server"
      <4>1. p = "client" /\ buffer' = buffer /\ held = << f >>
        BY <2>1, <3>3 DEF Peer
      <4>2. Rest(p)' = Append(Rest(p), f)
        BY <1>0, <3>1, <4>1, AppendIsConcat DEF Rest
      <4>3. \A x \in Ends : ~Reachable(x) => inbox'[x] = << >>
        BY <1>0, <2>6, <3>1 DEF BufferInv, TypeOK
      <4>4. inbox'["server"] = inbox["server"]
        BY <3>1, <4>1 DEF TypeOK, Ends
      <4>5. Gains(p, f)
        BY <1>0, <4>2, GainsAppend
      <4>. QED
        BY <2>2, <2>4, <2>5, <2>6, <4>1, <4>3, <4>4, <4>5 DEF BufferInv
    <3>. QED
      BY <3>2, <3>3 DEF Ends
  <2>7. CASE ~Reachable(p)
    <3>1. inbox' = inbox /\ inbox[p] = << >>
      BY <1>0, <2>1, <2>3, <2>7 DEF BufferInv
    <3>2. CASE e = "client"
      <4>1. p = "server" /\ buffer' = << >> /\ ~buffering
        BY <1>2, <2>1, <3>2 DEF Peer
      <4>2. Rest(p)' = << >>
        BY <3>1, <4>1, ConcatEmptySeq, EmptySeq DEF Rest
      <4>. QED
        BY <1>0, <1>2, <2>2, <2>4, <2>5, <2>7, <3>1, <4>1, <4>2, LosesAll DEF BufferInv
    <3>3. CASE e = "server"
      <4>1. p = "client" /\ buffer' = buffer
        BY <2>1, <3>3 DEF Peer
      <4>2. Rest(p)' = << >>
        BY <3>1, <4>1 DEF Rest
      <4>. QED
        BY <1>0, <1>2, <2>2, <2>4, <2>5, <2>7, <3>1, <4>1, <4>2, LosesAll DEF BufferInv
    <3>. QED
      BY <3>2, <3>3 DEF Ends
  <2>. QED
    BY <2>6, <2>7
<1>. QED
  BY <1>1, <1>2

\* The loop takes the first frame.
LEMMA ReadFrameTakes ==
    ASSUME TypeOK, BufferInv, NEW e \in Ends, ReadFrame(e)
    PROVE  /\ inbox' \in [Ends -> Seq(Frames)] /\ rcv' \in [Ends -> Message] /\ rcv'[e] \in Frames
           /\ Behind(e) = {rcv'[e]} \cup Behind(e)'
           /\ Ordered(Rest(e)) => /\ Ordered(Rest(e))'
                                  /\ \A g \in Behind(e)' : MayPrecede(rcv'[e], g)
           /\ Keeps(Peer(e)) /\ Reachable(e)
           /\ \A x \in Ends : inbox[x] = << >> => inbox'[x] = << >>
<1>1. /\ inbox[e] \in Seq(Frames) /\ inbox[e] # << >>
      /\ rcv' = [rcv EXCEPT ![e] = Head(inbox[e])] /\ inbox' = [inbox EXCEPT ![e] = Tail(inbox[e])]
      /\ buffer' = buffer /\ buffer \in Seq(Frames)
  BY DEF ReadFrame, TypeOK
<1>2. Rest(e) = inbox[e] /\ Rest(e)' = Tail(inbox[e]) /\ rcv'[e] = Head(inbox[e])
  <2>1. e = "server" => buffer = << >>
    BY <1>1 DEF BufferInv
  <2>2. inbox'[e] = Tail(inbox[e]) /\ rcv'[e] = Head(inbox[e]) /\ Tail(inbox[e]) \in Seq(Frames)
    BY <1>1, HeadTailProperties DEF TypeOK
  <2>. QED
    BY <1>1, <2>1, <2>2, ConcatEmptySeq DEF Rest
<1>3. inbox' \in [Ends -> Seq(Frames)] /\ rcv' \in [Ends -> Message] /\ rcv'[e] \in Frames
  BY <1>1, <1>2, HeadTailProperties DEF TypeOK, Message
<1>4. Keeps(Peer(e))
  BY <1>1, EndFacts DEF Keeps, Rest, TypeOK, Ends
<1>5. Reachable(e)
  BY <1>1 DEF BufferInv
<1>6. \A x \in Ends : inbox[x] = << >> => inbox'[x] = << >>
  BY <1>1 DEF TypeOK
<1>. QED
  BY <1>1, <1>2, <1>3, <1>4, <1>5, <1>6, QueueTail DEF Behind

\* An inbox is emptied, and what is left of the queue is the buffer.
LEMMA InboxDrained ==
    ASSUME TypeOK, BufferInv, NEW e \in Ends, inbox'[e] = << >>, buffer' = buffer
    PROVE  Keeps(e) \/ (Loses(e) /\ ~(e = "server" /\ buffering))
<1>0. inbox[e] \in Seq(Frames) /\ buffer \in Seq(Frames)
  BY DEF TypeOK
<1>1. CASE e = "server" /\ buffer # << >>
  <2>1. inbox[e] = << >>
    BY <1>1 DEF BufferInv
  <2>. QED
    BY <1>1, <2>1 DEF Keeps, Rest
<1>2. CASE ~(e = "server" /\ buffer # << >>)
  <2>1. Rest(e)' = << >>
    BY <1>0, <1>2, ConcatEmptySeq, EmptySeq DEF Rest
  <2>2. ~(e = "server" /\ buffering)
    BY <1>2 DEF BufferInv
  <2>. QED
    BY <2>1, <2>2, LosesAll
<1>. QED
  BY <1>1, <1>2

(***************************************************************************)
(* The invariant                                                           *)
(***************************************************************************)
LEMMA SetStage ==
    ASSUME TypeOK, NEW e \in Ends, NEW k \in Sids, NEW v \in Stages
    PROVE  [strm EXCEPT ![e][k] = v] \in [Ends -> [Sids -> Stages]]
BY DEF TypeOK

\* Only OnPSH adds to what was read, only FinishWrite to what was written.
LEMMA WhoReads ==
    ASSUME Next
    PROVE  read' = read \/ \E e \in Ends : OnPSH(e)
BY DEF Next, RecvStep, StreamStep, ReadFrame, ReadFails, OnPSHDrop, OnFIN,
       CloseFINed, OnSYN, OnSettings,
       OnSYNACK, OnServerSettings, CloseStreams, StartWrite, FinishWrite, SendFIN, Unmap,
       OpenStream, SendSYN, Register, UserCloses, Answer, HandlerReturns, LinkFails,
       WatchdogFires, dataVars

LEMMA WhoSends ==
    ASSUME Next
    PROVE  sent' = sent \/ \E e \in Ends, k \in Sids : FinishWrite(e, k)
BY DEF Next, RecvStep, StreamStep, ReadFrame, ReadFails, OnPSH, OnPSHDrop, OnFIN,
       CloseFINed, OnSYN, OnSettings,
       OnSYNACK, OnServerSettings, CloseStreams, StartWrite, SendFIN, Unmap,
       OpenStream, SendSYN, Register, UserCloses, Answer, HandlerReturns, LinkFails,
       WatchdogFires, dataVars

LEMMA FrameType ==
    ASSUME NEW k \in Sids, NEW n \in Nat
    PROVE  /\ \A cmd \in StreamCmds : Frame(cmd, k, n) \in Frames
           /\ \A cmd \in SessionCmds : Frame(cmd, 0, 0) \in Frames
BY DEF Frame, Frames

\* What the frame the loop is at says by itself.
LEMMA HeadFacts ==
    ASSUME LinkInv
    PROVE  /\ SettingsFirst /\ NoEarlyReply
           /\ \A e \in Ends : On(e, "PSH") \/ On(e, "FIN") =>
                rcv[e].sid \in Sids /\ strm[e][rcv[e].sid] # "none"
           /\ On("server", "SYN") => rcv["server"].sid \in Sids
           /\ \A e \in Ends : On(e, "closing") => rcv[e].sid \in Sids
<1> USE DEF LinkInv
<1>1. SettingsFirst
  <2> SUFFICES ASSUME On("server", "SYN"), ~settled["server"] PROVE FALSE
    BY DEF SettingsFirst
  <2>1. rcv["server"] \in Wire("server") /\ "server" \in Ends
    BY WireType DEF Ends
  <2>2. Frame("Settings", 0, 0) \in Wire("server")
    BY <2>1 DEF DueInv, On
  <2>3. Frame("Settings", 0, 0) \in Behind("server")
    BY <2>2 DEF Wire, On, Frame
  <2>. QED
    BY <2>1, <2>3 DEF WireInv, MayPrecede, On, Frame
<1>2. \A e \in Ends : On(e, "PSH") \/ On(e, "FIN") => rcv[e].sid \in Sids
  BY WireType DEF On, StreamCmds
<1>3. On("server", "SYN") => rcv["server"].sid \in Sids
  BY WireType DEF On, StreamCmds, Ends
<1>4. NoEarlyReply
  BY WireType DEF NoEarlyReply, WireInv, Fits, Ends
<1>5. ASSUME NEW e \in Ends, On(e, "PSH") \/ On(e, "FIN"), strm[e][rcv[e].sid] = "none"
      PROVE  FALSE
  <2> DEFINE k == rcv[e].sid
  <2>1. k \in Sids /\ k # 0 /\ rcv[e] \in Wire(e)
    BY <1>2, <1>5, WireType DEF Sids
  <2>2. CASE e = "client"
    <3>1. sent["client"][k] > 0
      BY <1>4, <2>1, <2>2 DEF NoEarlyReply
    <3>2. sent["client"][k] = 0
      BY <1>5, <2>1, <2>2 DEF StageInv
    <3>. QED
      BY <3>1, <3>2
  <2>3. CASE e = "server"
    <3>1. Frame("SYN", k, 0) \in Wire("server")
      BY <1>5, <2>1, <2>3 DEF DueInv, On
    <3>2. Frame("SYN", k, 0) \in Behind("server")
      BY <1>5, <2>3, <3>1 DEF Wire, On, Frame
    <3>3. MayPrecede(rcv["server"], Frame("SYN", k, 0))
      BY <2>3, <3>2 DEF WireInv
    <3>. QED
      BY <1>5, <2>3, <3>3 DEF MayPrecede, On, Frame
  <2>. QED
    BY <2>2, <2>3 DEF Ends
<1>6. \A e \in Ends : On(e, "closing") => rcv[e].sid \in Sids
  BY DEF On, TypeOK, Frames, Marks, SessionCmds, StreamCmds, LoopStates
<1>. QED
  BY <1>1, <1>2, <1>3, <1>4, <1>5, <1>6

\* A frame of data that is acted on is the next one.
LEMMA OnPSHReads ==
    ASSUME LinkInv, NEW e \in Ends, OnPSH(e)
    PROVE  /\ rcv[e].sid \in Sids /\ rcv[e].n \in Nat
           /\ strm[e][rcv[e].sid] = "open" /\ rcv[e].n = Len(read[e][rcv[e].sid]) + 1
           /\ rcv[e].n <= sent[Peer(e)][rcv[e].sid]
           /\ read' \in [Ends -> [Sids -> Seq(Nat)]]
           /\ \A x \in Ends, j \in Sids :
                ~(x = e /\ j = rcv[e].sid) => read'[x][j] = read[x][j]
           /\ Len(read'[e][rcv[e].sid]) = rcv[e].n
           /\ \A i \in 1 .. rcv[e].n : read'[e][rcv[e].sid][i] =
                IF i = rcv[e].n THEN rcv[e].n ELSE read[e][rcv[e].sid][i]
<1> DEFINE k == rcv[e].sid  r == read[e][k]
<1>1. k \in Sids /\ rcv[e].n \in Nat /\ rcv[e] \in Wire(e)
  BY WireType DEF OnPSH, On, StreamCmds, LinkInv
<1>2. strm[e][k] = "open" /\ read' = [read EXCEPT ![e][k] = Append(r, rcv[e].n)] /\ On(e, "PSH")
  BY <1>1 DEF OnPSH, LinkInv, TypeOK
<1>3. rcv[e].n = Len(r) + 1
  BY <1>1, <1>2 DEF HeadInv, LinkInv
<1>4. rcv[e].n <= sent[Peer(e)][k]
  BY <1>1, <1>2 DEF WireInv, LinkInv, Fits, On
<1>5. r \in Seq(Nat) /\ Len(r) \in Nat
  BY <1>1 DEF LinkInv, TypeOK
<1>6. /\ Append(r, rcv[e].n) \in Seq(Nat) /\ Len(Append(r, rcv[e].n)) = Len(r) + 1
      /\ \A i \in 1 .. Len(r) + 1 :
           Append(r, rcv[e].n)[i] = IF i = Len(r) + 1 THEN rcv[e].n ELSE r[i]
  BY <1>1, <1>5, AppendProperties
<1>7. /\ read' \in [Ends -> [Sids -> Seq(Nat)]] /\ read'[e][k] = Append(r, rcv[e].n)
      /\ \A x \in Ends, j \in Sids : ~(x = e /\ j = k) => read'[x][j] = read[x][j]
  <2> HIDE DEF k
  <2>. QED
    BY <1>1, <1>2, <1>6 DEF LinkInv, TypeOK
<1>. QED
  BY <1>1, <1>2, <1>3, <1>4, <1>5, <1>6, <1>7

\* A write that goes out is the next of its stream.
LEMMA FinishWriteSends ==
    ASSUME TypeOK, StageInv, Next
    PROVE  /\ sent' \in [Ends -> [Sids -> Nat]]
           /\ \A e \in Ends, k \in Sids :
                sent[e][k] <= sent'[e][k] /\ sent'[e][k] <= MaxData[e]
<1>1. CASE sent' = sent
  BY <1>1 DEF TypeOK
<1>2. ASSUME NEW e \in Ends, NEW k \in Sids, FinishWrite(e, k), sent' # sent
      PROVE  /\ sent' \in [Ends -> [Sids -> Nat]]
             /\ \A x \in Ends, j \in Sids :
                  sent[x][j] <= sent'[x][j] /\ sent'[x][j] <= MaxData[x]
  <2>1. sent' = [sent EXCEPT ![e][k] = sent[e][k] + 1] /\ << e, k >> \in writing
    BY <1>2 DEF FinishWrite
  <2>2. sent[e][k] < MaxData[e] /\ MaxData[e] \in Nat
    BY <2>1, LinkAssumption DEF StageInv, MaxData
  <2>. QED
    BY <2>1, <2>2 DEF TypeOK
<1>. QED
  BY <1>1, <1>2, WhoSends

LEMMA ReadStep ==
    ASSUME LinkInv, Next
    PROVE  ReadInv'
<1> SUFFICES ASSUME NEW e \in Ends, NEW k \in Sids
             PROVE  /\ Len(read'[e][k]) <= sent'[Peer(e)][k]
                    /\ \A i \in 1 .. Len(read'[e][k]) : read'[e][k][i] = i
  BY DEF ReadInv
<1>1. Peer(e) \in Ends
  BY EndFacts
<1>2. /\ sent[Peer(e)][k] <= sent'[Peer(e)][k]
      /\ sent[Peer(e)][k] \in Nat /\ sent'[Peer(e)][k] \in Nat
  BY <1>1, FinishWriteSends DEF LinkInv, TypeOK
<1>3. Len(read[e][k]) \in Nat
  BY DEF LinkInv, TypeOK
<1>4. CASE read'[e][k] = read[e][k]
  BY <1>1, <1>2, <1>3, <1>4 DEF LinkInv, ReadInv
<1>5. CASE OnPSH(e) /\ rcv[e].sid = k
  <2>1. /\ rcv[e].n = Len(read[e][k]) + 1 /\ rcv[e].n <= sent[Peer(e)][k]
        /\ Len(read'[e][k]) = rcv[e].n
        /\ \A i \in 1 .. rcv[e].n :
             read'[e][k][i] = IF i = rcv[e].n THEN rcv[e].n ELSE read[e][k][i]
    BY <1>5, OnPSHReads
  <2>2. \A i \in 1 .. Len(read[e][k]) : read[e][k][i] = i
    BY DEF LinkInv, ReadInv
  <2>3. ASSUME NEW i \in 1 .. Len(read'[e][k]) PROVE read'[e][k][i] = i
    <3>1. i = rcv[e].n \/ i \in 1 .. Len(read[e][k])
      BY <1>3, <2>1
    <3>2. read'[e][k][i] = IF i = rcv[e].n THEN rcv[e].n ELSE read[e][k][i]
      BY <2>1
    <3>. QED
      BY <2>2, <3>1, <3>2
  <2>. QED
    BY <1>2, <2>1, <2>3
<1>6. read'[e][k] = read[e][k] \/ (OnPSH(e) /\ rcv[e].sid = k)
  BY WhoReads, OnPSHReads
<1>. QED
  BY <1>4, <1>5, <1>6

\* The loop has dealt with a frame, or is about to close the stream of a FIN.
GoesOn(e) == NextRound(e) \/ Stop(e) \/ (On(e, "FIN") /\ Closing(e))

LEMMA NextRoundTypes ==
    ASSUME TypeOK, NEW e \in Ends, GoesOn(e)
    PROVE  /\ rcv' \in [Ends -> Frames \cup Marks] /\ rcv'[e] \in Marks
           /\ \A x \in Ends : x # e => rcv'[x] = rcv[x]
<1> DEFINE c == Frame("closing", rcv[e].sid, rcv[e].n)
<1>1. Frame("reading", 0, 0) \in Marks /\ Frame("stopped", 0, 0) \in Marks
  BY DEF Frame, Marks, LoopStates
<1>2. On(e, "FIN") => c \in Marks
  BY WireType DEF On, StreamCmds, Frame, Marks
<1>3. \/ rcv' = [rcv EXCEPT ![e] = Frame("reading", 0, 0)]
      \/ rcv' = [rcv EXCEPT ![e] = Frame("stopped", 0, 0)]
      \/ On(e, "FIN") /\ rcv' = [rcv EXCEPT ![e] = c]
  BY DEF GoesOn, NextRound, Stop, Closing, TypeOK
<1> HIDE DEF c
<1>. QED
  BY <1>1, <1>2, <1>3, ZenonT(60) DEF TypeOK

LEMMA ControlSends ==
    ASSUME TypeOK, BufferInv, NEW e \in Ends, NEW f \in Frames, Control(e, f)
    PROVE  /\ inbox' \in [Ends -> Seq(Frames)] /\ buffer' \in Seq(Frames)
           /\ life' \in [Ends -> {"open", "died", "closed"}]
           /\ \A x \in Ends : life'[x] = life[x] \/ (life[x] = "open" /\ life'[x] = "died")
           /\ Keeps(e)
           /\ \/ Gains(Peer(e), f) /\ (Reachable(Peer(e)) \/ (e = "client" /\ buffering))
              \/ (~Reachable(Peer(e)) /\ ~(e = "client" /\ buffering) /\ Loses(Peer(e)))
              \/ (Keeps(Peer(e)) /\ life'[e] # "open")
           /\ buffering => buffer' # << >>
           /\ buffer' # << >> => inbox'["server"] = << >>
           /\ \A x \in Ends : ~Reachable(x) => inbox'[x] = << >>
<1>1. CASE Put(e, f) /\ UNCHANGED life
  BY <1>1, PutSends DEF TypeOK
<1>2. CASE ControlFails(e)
  <2>1. inbox' = inbox /\ buffer' = buffer /\ Close(e)
    BY <1>2 DEF ControlFails
  <2>2. Keeps(e) /\ Keeps(Peer(e))
    BY <2>1 DEF Keeps, Rest
  <2>3. /\ life' \in [Ends -> {"open", "died", "closed"}] /\ life'[e] # "open"
        /\ \A x \in Ends : life'[x] = life[x] \/ (life[x] = "open" /\ life'[x] = "died")
    BY <2>1 DEF Close, TypeOK
  <2>. QED
    BY <2>1, <2>2, <2>3 DEF TypeOK, BufferInv
<1>. QED
  BY <1>1, <1>2 DEF Control

LEMMA TypeStep ==
    ASSUME LinkInv, Next
    PROVE  TypeOK'
<1>0. TypeOK /\ BufferInv /\ StageInv
  BY DEF LinkInv
<1>1. /\ sent' \in [Ends -> [Sids -> Nat]]
      /\ \A e \in Ends, k \in Sids :
           sent'[e][k] <= MaxData[e] /\ Len(read'[e][k]) <= MaxData[Peer(e)]
  <2>1. ASSUME NEW e \in Ends, NEW k \in Sids
        PROVE  sent'[e][k] <= MaxData[e] /\ Len(read'[e][k]) <= MaxData[Peer(e)]
    <3>1. Peer(e) \in Ends
      BY EndFacts
    <3>2. sent'[e][k] <= MaxData[e] /\ sent'[Peer(e)][k] <= MaxData[Peer(e)]
          /\ sent'[Peer(e)][k] \in Nat
      BY <1>0, <3>1, FinishWriteSends
    <3>3. Len(read'[e][k]) <= sent'[Peer(e)][k]
      BY ReadStep DEF ReadInv
    <3>4. read'[e][k] \in Seq(Nat) /\ MaxData[Peer(e)] \in Nat
      BY <1>0, <3>1, WhoReads, OnPSHReads, LinkAssumption DEF TypeOK, MaxData
    <3>. QED
      BY <3>2, <3>3, <3>4
  <2>. QED
    BY <1>0, <2>1, FinishWriteSends
<1>2. read' \in [Ends -> [Sids -> Seq(Nat)]]
  BY <1>0, WhoReads, OnPSHReads DEF TypeOK
<1>3. CASE LinkFails
  BY <1>0, <1>1, <1>2, <1>3, EmptySeq
  DEF LinkFails, TypeOK, streamVars, dataVars, taskVars
<1>4. CASE WatchdogFires
  BY <1>0, <1>1, <1>2, <1>4, LinkAssumption
  DEF WatchdogFires, Ends, Close, TypeOK, netVars, streamVars, dataVars, taskVars
<1>5. ASSUME NEW e \in Ends, ReadFrame(e) PROVE TypeOK'
  BY <1>0, <1>1, <1>2, <1>5, ReadFrameTakes
  DEF ReadFrame, TypeOK, Message, streamVars, dataVars, taskVars
<1>6. ASSUME NEW e \in Ends, ReadFails(e) PROVE TypeOK'
  BY <1>0, <1>1, <1>2, <1>6, NextRoundTypes
  DEF GoesOn, ReadFails, Close, TypeOK, netVars, streamVars, dataVars, taskVars
<1>7. ASSUME NEW e \in Ends, OnPSH(e) PROVE TypeOK'
  BY <1>0, <1>1, <1>2, <1>7, NextRoundTypes, OnPSHReads
  DEF GoesOn, OnPSH, TypeOK, netVars, streamVars
<1>8. ASSUME NEW e \in Ends, OnPSHDrop(e) PROVE TypeOK'
  BY <1>0, <1>1, <1>2, <1>8, NextRoundTypes
  DEF GoesOn, OnPSHDrop, TypeOK, netVars, streamVars, dataVars, taskVars
<1>9. ASSUME NEW e \in Ends, OnFIN(e) PROVE TypeOK'
  BY <1>0, <1>1, <1>2, <1>9, NextRoundTypes
  DEF GoesOn, OnFIN, TypeOK, netVars, dataVars, taskVars
<1>25. ASSUME NEW e \in Ends, CloseFINed(e) PROVE TypeOK'
  BY <1>0, <1>1, <1>2, <1>25, NextRoundTypes, HeadFacts
  DEF GoesOn, CloseFINed, Stages, TypeOK, netVars, dataVars, taskVars
<1>10. CASE OnSYN
  <2>1. "server" \in Ends /\ rcv["server"].sid \in Sids /\ settled["server"]
    BY <1>10, HeadFacts DEF OnSYN, SettingsFirst, Ends
  <2>2. /\ streams' \in [Ends -> SUBSET Sids]
        /\ strm' \in [Ends -> [Sids -> Stages]]
        /\ hand' \in [Sids -> {"none", "address", "dial", "relay", "return", "done"}]
    <3>1. CASE rcv["server"].sid \in streams["server"]
      BY <1>0, <1>10, <2>1, <3>1 DEF OnSYN, TypeOK, streamVars
    <3>2. CASE rcv["server"].sid \notin streams["server"]
      <4>1. strm' = [strm EXCEPT !["server"][rcv["server"].sid] = "open"]
        BY <1>10, <2>1, <3>2 DEF OnSYN
      <4>2. strm' \in [Ends -> [Sids -> Stages]]
        BY <1>0, <2>1, <4>1, SetStage DEF Stages
      <4>3. streams' = [streams EXCEPT !["server"] = @ \cup {rcv["server"].sid}]
        BY <1>10, <2>1, <3>2 DEF OnSYN
      <4>4. hand' = [hand EXCEPT ![rcv["server"].sid] = "address"]
        BY <1>10, <2>1, <3>2 DEF OnSYN
      <4>. QED
        BY <1>0, <2>1, <4>2, <4>3, <4>4 DEF TypeOK
    <3>. QED
      BY <3>1, <3>2
  <2>. QED
    BY <1>0, <1>1, <1>2, <1>10, <2>1, <2>2, NextRoundTypes
    DEF GoesOn, OnSYN, TypeOK, netVars, dataVars
<1>11. CASE OnSettings
  <2>1. "server" \in Ends /\ Frame("ServerSettings", 0, 0) \in Frames
    BY DEF Ends, Frames, Frame, SessionCmds
  <2>2. /\ inbox' \in [Ends -> Seq(Frames)] /\ buffer' \in Seq(Frames)
        /\ life' \in [Ends -> {"open", "died", "closed"}]
    BY <1>0, <1>11, <2>1, ControlSends DEF OnSettings
  <2>. QED
    BY <1>0, <1>1, <1>2, <1>11, <2>1, <2>2, NextRoundTypes
    DEF GoesOn, OnSettings, TypeOK, dataVars, streamVars, taskVars
<1>12. CASE OnSYNACK
  <2>1. "client" \in Ends
    BY DEF Ends
  <2>. QED
    BY <1>0, <1>1, <1>2, <1>12, <2>1, NextRoundTypes, LinkAssumption
    DEF GoesOn, OnSYNACK, Stages, TypeOK, netVars, dataVars, taskVars
<1>13. CASE OnServerSettings
  <2>1. "client" \in Ends
    BY DEF Ends
  <2>. QED
    BY <1>0, <1>1, <1>2, <1>13, <2>1, NextRoundTypes
    DEF GoesOn, OnServerSettings, TypeOK, netVars, dataVars, taskVars, streamVars
<1>14. ASSUME NEW e \in Ends, CloseStreams(e) PROVE TypeOK'
  BY <1>0, <1>1, <1>2, <1>14, EmptySeq
  DEF CloseStreams, Stages, TypeOK, dataVars, taskVars
<1>15. ASSUME NEW e \in Ends, NEW k \in Sids, StartWrite(e, k) PROVE TypeOK'
  BY <1>0, <1>1, <1>2, <1>15
  DEF StartWrite, TypeOK, netVars, streamVars, taskVars
<1>16. ASSUME NEW e \in Ends, NEW k \in Sids, FinishWrite(e, k) PROVE TypeOK'
  <2>1. Frame("PSH", k, sent[e][k] + 1) \in Frames
    BY <1>0, FrameType DEF TypeOK, StreamCmds
  <2>2. inbox' \in [Ends -> Seq(Frames)] /\ buffer' \in Seq(Frames)
    BY <1>0, <1>16, <2>1, PutSends DEF FinishWrite, TypeOK
  <2>. QED
    BY <1>0, <1>1, <1>2, <1>16, <2>2 DEF FinishWrite, TypeOK, streamVars, taskVars
<1>17. ASSUME NEW e \in Ends, NEW k \in Sids, SendFIN(e, k) PROVE TypeOK'
  <2>1. Frame("FIN", k, sent[e][k]) \in Frames
    BY <1>0, FrameType DEF TypeOK, StreamCmds
  <2>2. /\ inbox' \in [Ends -> Seq(Frames)] /\ buffer' \in Seq(Frames)
        /\ life' \in [Ends -> {"open", "died", "closed"}]
    BY <1>0, <1>17, <2>1, ControlSends DEF SendFIN, TypeOK
  <2>3. strm' \in [Ends -> [Sids -> Stages]]
    <3>1. /\ strm' = [strm EXCEPT ![e][k] = "dead"] \/ strm' = [strm EXCEPT ![e][k] = "unmap"]
          /\ "dead" \in Stages /\ "unmap" \in Stages
      BY <1>17 DEF SendFIN, Stages
    <3>. QED
      BY <1>0, <3>1, SetStage
  <2>. QED
    BY <1>0, <1>1, <1>2, <1>17, <2>2, <2>3 DEF SendFIN, TypeOK, dataVars, taskVars
<1>18. ASSUME NEW e \in Ends, NEW k \in Sids, Unmap(e, k) PROVE TypeOK'
  BY <1>0, <1>1, <1>2, <1>18 DEF Unmap, Stages, TypeOK, netVars, dataVars, taskVars
<1>19. ASSUME NEW k \in Sids, OpenStream(k) PROVE TypeOK'
  <2>1. dog' \in 0 .. MaxStream
    BY <1>0, <1>19, LinkAssumption DEF OpenStream, TypeOK, Sids
  <2>. QED
    BY <1>0, <1>1, <1>2, <1>19, <2>1
    DEF OpenStream, UserGoto, TypeOK, netVars, dataVars, streamVars
<1>20. ASSUME NEW k \in Sids, SendSYN(k) PROVE TypeOK'
  <2>1. "client" \in Ends /\ Frame("SYN", k, 0) \in Frames
    BY FrameType DEF Ends, StreamCmds
  <2>2. Control("client", Frame("SYN", k, 0))
    BY <1>20 DEF SendSYN, Control
  <2>3. /\ inbox' \in [Ends -> Seq(Frames)] /\ buffer' \in Seq(Frames)
        /\ life' \in [Ends -> {"open", "died", "closed"}]
    BY <1>0, <2>1, <2>2, ControlSends
  <2>. QED
    BY <1>0, <1>1, <1>2, <1>20, <2>3 DEF SendSYN, UserGoto, TypeOK, dataVars, streamVars
<1>21. ASSUME NEW k \in Sids, Register(k) PROVE TypeOK'
  <2>1. strm' = [strm EXCEPT !["client"][k] = "open"] \/ strm' = strm
    BY <1>21 DEF Register, streamVars
  <2>2. strm' \in [Ends -> [Sids -> Stages]]
    <3>1. "client" \in Ends /\ "open" \in Stages
      BY DEF Ends, Stages
    <3>2. CASE strm' = strm
      BY <1>0, <3>2 DEF TypeOK
    <3>. QED
      BY <1>0, <2>1, <3>1, <3>2, SetStage
  <2>3. streams' \in [Ends -> SUBSET Sids]
    BY <1>0, <1>21 DEF Register, streamVars, TypeOK, Ends
  <2>. QED
    BY <1>0, <1>1, <1>2, <1>21, <2>2, <2>3
    DEF Register, UserGoto, TypeOK, netVars, dataVars
<1>22. ASSUME NEW k \in Sids, UserCloses(k) PROVE TypeOK'
  BY <1>0, <1>1, <1>2, <1>22, ZenonT(60)
  DEF UserCloses, Stages, CloseStream, UserGoto, TypeOK, netVars, dataVars
<1>23. ASSUME NEW k \in Sids, Answer(k) PROVE TypeOK'
  <2>1. /\ "server" \in Ends
        /\ Frame("SYNACK", k, 0) \in Frames /\ Frame("Refuse", k, 0) \in Frames
    BY FrameType DEF Ends, StreamCmds
  <2>2. Control("server", Frame("SYNACK", k, 0)) \/ Control("server", Frame("Refuse", k, 0))
    BY <1>23 DEF Answer, Control
  <2>3. /\ inbox' \in [Ends -> Seq(Frames)] /\ buffer' \in Seq(Frames)
        /\ life' \in [Ends -> {"open", "died", "closed"}]
    BY <1>0, <2>1, <2>2, ControlSends
  <2>. QED
    BY <1>0, <1>1, <1>2, <1>23, <2>3 DEF Answer, HandGoto, TypeOK, dataVars, streamVars
<1>24. ASSUME NEW k \in Sids, HandlerReturns(k) PROVE TypeOK'
  BY <1>0, <1>1, <1>2, <1>24, ZenonT(60)
  DEF HandlerReturns, Stages, CloseStream, HandGoto, TypeOK, netVars, dataVars
<1>. QED
  BY <1>3, <1>4, <1>5, <1>6, <1>7, <1>8, <1>9, <1>10, <1>11, <1>12, <1>13, <1>14, <1>15,
     <1>16, <1>17, <1>18, <1>19, <1>20, <1>21, <1>22, <1>23, <1>24, <1>25
  DEF Next, RecvStep, StreamStep

(***************************************************************************)
(* What a step may do to each part of the state                            *)
(***************************************************************************)
LEMMA WhoMovesStreams ==
    ASSUME Next
    PROVE  \/ strm' = strm \/ OnSYN \/ OnSYNACK
           \/ \E e \in Ends : CloseFINed(e) \/ CloseStreams(e)
           \/ \E e \in Ends, k \in Sids : SendFIN(e, k) \/ Unmap(e, k)
           \/ \E k \in Sids : Register(k) \/ UserCloses(k) \/ HandlerReturns(k)
BY DEF Next, RecvStep, StreamStep, ReadFrame, ReadFails, OnPSH, OnPSHDrop, OnFIN, OnSettings,
       OnServerSettings, StartWrite, FinishWrite, OpenStream, SendSYN, Answer, LinkFails,
       WatchdogFires, streamVars

LEMMA WhoMovesUsers ==
    ASSUME Next
    PROVE  \/ user' = user
           \/ \E k \in Sids : OpenStream(k) \/ SendSYN(k) \/ Register(k) \/ UserCloses(k)
BY DEF Next, RecvStep, StreamStep, ReadFrame, ReadFails, OnPSH, OnPSHDrop, OnFIN,
       CloseFINed, OnSYN, OnSettings,
       OnSYNACK, OnServerSettings, CloseStreams, StartWrite, FinishWrite, SendFIN, Unmap,
       Answer, HandlerReturns, LinkFails, WatchdogFires, taskVars

LEMMA WhoMovesHandlers ==
    ASSUME Next
    PROVE  \/ hand' = hand \/ OnSYN \/ OnPSH("server")
           \/ \E k \in Sids : Answer(k) \/ HandlerReturns(k)
<1>1. ASSUME NEW e \in Ends, OnPSH(e), e # "server" PROVE hand' = hand
  BY <1>1 DEF OnPSH
<1>. QED
  BY <1>1
  DEF Next, RecvStep, StreamStep, ReadFrame, ReadFails, OnPSHDrop, OnFIN, CloseFINed, OnSettings,
      OnSYNACK, OnServerSettings, CloseStreams, StartWrite, FinishWrite, SendFIN, Unmap,
      OpenStream, SendSYN, Register, UserCloses, LinkFails, WatchdogFires, taskVars

LEMMA WhoMovesQueues ==
    ASSUME Next
    PROVE  \/ UNCHANGED << up, inbox, buffer, buffering, rcv >>
           \/ LinkFails \/ OnSettings
           \/ \E e \in Ends : \/ RecvStep(e) /\ UNCHANGED << up, inbox, buffer, buffering >>
                              \/ ReadFrame(e) \/ CloseStreams(e)
           \/ \E e \in Ends, k \in Sids : FinishWrite(e, k) \/ SendFIN(e, k)
           \/ \E k \in Sids : SendSYN(k) \/ Answer(k)
BY ZenonT(60) DEF Next, RecvStep, StreamStep, ReadFails, OnPSH, OnPSHDrop, OnFIN,
       CloseFINed, OnSYN,
       OnSYNACK, OnServerSettings, StartWrite, Unmap, netVars,
       OpenStream, Register, UserCloses, HandlerReturns, WatchdogFires

\* Sessions only get closer to their end.
LEMMA LifeMoves ==
    ASSUME LinkInv, Next
    PROVE  /\ up' => up
           /\ \A e \in Ends : \/ life'[e] = life[e] \/ (life[e] = "open" /\ life'[e] = "died")
                              \/ (life[e] = "died" /\ life'[e] = "closed" /\ CloseStreams(e))
<1>0. TypeOK /\ BufferInv
  BY DEF LinkInv
<1>1. up' => up
  BY DEF Next, RecvStep, StreamStep, ReadFrame, ReadFails, OnPSH, OnPSHDrop, OnFIN,
         CloseFINed, OnSYN,
         OnSettings,
       OnSYNACK, OnServerSettings, CloseStreams, StartWrite, FinishWrite, SendFIN, Unmap,
       OpenStream, SendSYN, Register, UserCloses, Answer, HandlerReturns, LinkFails,
       WatchdogFires, netVars
<1>2. \/ life' = life \/ \E e \in Ends : Close(e) \/ CloseStreams(e)
  <2>1. "client" \in Ends /\ "server" \in Ends
    BY DEF Ends
  <2>. QED
    BY <2>1 DEF Next, RecvStep, StreamStep, ReadFrame, ReadFails, OnPSH, OnPSHDrop, OnFIN,
           CloseFINed, OnSYN,
       OnSettings, OnSYNACK, OnServerSettings, StartWrite, FinishWrite, SendFIN, Unmap, Control,
       ControlFails, OpenStream, SendSYN, Register, UserCloses, Answer, HandlerReturns, LinkFails,
       WatchdogFires
<1>3. ASSUME NEW e \in Ends
      PROVE  \/ life'[e] = life[e] \/ (life[e] = "open" /\ life'[e] = "died")
             \/ (life[e] = "died" /\ life'[e] = "closed" /\ CloseStreams(e))
  <2>1. CASE life' = life
    BY <2>1
  <2>2. ASSUME NEW x \in Ends, Close(x)
        PROVE  life'[e] = life[e] \/ (life[e] = "open" /\ life'[e] = "died")
    BY <1>0, <2>2 DEF Close, TypeOK
  <2>3. ASSUME NEW x \in Ends, CloseStreams(x)
        PROVE  life'[e] = life[e] \/ (life[e] = "died" /\ life'[e] = "closed" /\ CloseStreams(e))
    <3>1. CASE x = e
      BY <1>0, <2>3, <3>1 DEF CloseStreams, TypeOK
    <3>2. CASE x # e
      BY <1>0, <2>3, <3>2 DEF CloseStreams, TypeOK
    <3>. QED
      BY <3>1, <3>2
  <2>. QED
    BY <1>2, <2>1, <2>2, <2>3
<1>. QED
  BY <1>1, <1>3

\* A stream goes from none over open to dead, and who moves it.
StageMove(e, k) ==
    \/ strm'[e][k] = strm[e][k]
    \/ /\ strm[e][k] = "none" /\ strm'[e][k] = "open"
       /\ \/ e = "client" /\ Register(k) /\ ~IsClosed(e)
          \/ e = "server" /\ OnSYN /\ rcv[e].sid = k
    \/ /\ strm[e][k] = "open" /\ strm'[e][k] = "dead"
       /\ (CloseFINed(e) /\ rcv[e].sid = k) \/ CloseStreams(e)
    \/ /\ strm[e][k] = "open" /\ strm'[e][k] = "fin"
       /\ e = "server" => HandlerReturns(k) /\ hand[k] \in {"relay", "return"}
    \/ /\ strm[e][k] = "fin" /\ SendFIN(e, k)
       /\ strm'[e][k] = IF IsClosed(e) THEN "dead" ELSE "unmap"
    \/ strm[e][k] = "unmap" /\ strm'[e][k] = "dead" /\ Unmap(e, k)

LEMMA StageMoves ==
    ASSUME LinkInv, Next, NEW e \in Ends, NEW k \in Sids
    PROVE  StageMove(e, k)
<1>0. TypeOK /\ strm[e][k] \in Stages
  BY DEF LinkInv, TypeOK
<1>1. CASE strm' = strm
  BY <1>1 DEF StageMove
<1>2. CASE OnSYN
  <2>1. settled["server"] /\ rcv["server"].sid \in Sids
    BY <1>2, HeadFacts DEF OnSYN, SettingsFirst
  <2>2. strm["server"][rcv["server"].sid] = "none"
    BY <1>0, <1>2, WireType DEF OnSYN, On, LinkInv, WireInv, Fits, Ends
  <2>3. CASE strm' = strm
    BY <2>3 DEF StageMove
  <2>4. CASE strm' = [strm EXCEPT !["server"][rcv["server"].sid] = "open"]
    <3>1. CASE e = "server" /\ rcv["server"].sid = k
      BY <1>0, <1>2, <2>2, <2>4, <3>1 DEF StageMove, TypeOK
    <3>2. CASE ~(e = "server" /\ rcv["server"].sid = k)
      BY <1>0, <2>1, <2>4, <3>2 DEF StageMove, TypeOK
    <3>. QED
      BY <3>1, <3>2
  <2>. QED
    BY <1>2, <2>1, <2>3, <2>4 DEF OnSYN, streamVars
<1>3. CASE OnSYNACK
  BY <1>0, <1>3 DEF OnSYNACK, StageMove, TypeOK
<1>4. ASSUME NEW x \in Ends, CloseFINed(x) PROVE StageMove(e, k)
  BY <1>0, <1>4 DEF CloseFINed, StageMove, TypeOK
<1>5. ASSUME NEW x \in Ends, CloseStreams(x) PROVE StageMove(e, k)
  <2>1. CASE x = e
    BY <1>0, <1>5, <2>1 DEF CloseStreams, StageMove, TypeOK
  <2>2. CASE x # e
    BY <1>0, <1>5, <2>2 DEF CloseStreams, StageMove, TypeOK
  <2>. QED
    BY <2>1, <2>2
<1>6. ASSUME NEW x \in Ends, NEW j \in Sids, SendFIN(x, j) \/ Unmap(x, j)
      PROVE  StageMove(e, k)
  <2>1. CASE x = e /\ j = k
    BY <1>0, <1>6, <2>1 DEF SendFIN, Unmap, StageMove, TypeOK
  <2>2. CASE ~(x = e /\ j = k)
    <3>1. strm'[e][k] = strm[e][k]
      BY <1>0, <1>6, <2>2 DEF SendFIN, Unmap, TypeOK
    <3>. QED
      BY <3>1 DEF StageMove
  <2>. QED
    BY <2>1, <2>2
<1>7. ASSUME NEW j \in Sids, Register(j) PROVE StageMove(e, k)
  <2>1. CASE strm' = strm
    BY <2>1 DEF StageMove
  <2>2. CASE ~IsClosed("client") /\ strm' = [strm EXCEPT !["client"][j] = "open"]
    <3>1. CASE e = "client" /\ j = k
      <4>1. strm[e][k] = "none"
        BY <1>7, <3>1 DEF Register, LinkInv, StageInv
      <4>. QED
        BY <1>0, <1>7, <2>2, <3>1, <4>1 DEF StageMove, TypeOK
    <3>2. CASE ~(e = "client" /\ j = k)
      <4>1. strm'[e][k] = strm[e][k]
        BY <1>0, <2>2, <3>2 DEF TypeOK
      <4>. QED
        BY <4>1 DEF StageMove
    <3>. QED
      BY <3>1, <3>2
  <2>. QED
    BY <1>7, <2>1, <2>2 DEF Register, streamVars
<1>8. ASSUME NEW j \in Sids, UserCloses(j) PROVE StageMove(e, k)
  <2>1. strm'[e][k] = strm[e][k] \/ (e = "client" /\ strm[e][k] = "open" /\ strm'[e][k] = "fin")
    BY <1>0, <1>8 DEF UserCloses, CloseStream, TypeOK
  <2>. QED
    BY <2>1 DEF StageMove
<1>9. ASSUME NEW j \in Sids, HandlerReturns(j) PROVE StageMove(e, k)
  <2>1. \/ strm'[e][k] = strm[e][k]
        \/ e = "server" /\ j = k /\ strm[e][k] = "open" /\ strm'[e][k] = "fin"
    BY <1>0, <1>9 DEF HandlerReturns, CloseStream, TypeOK
  <2>. QED
    BY <1>9, <2>1 DEF StageMove, HandlerReturns
<1>. QED
  BY <1>1, <1>2, <1>3, <1>4, <1>5, <1>6, <1>7, <1>8, <1>9, WhoMovesStreams

\* What the client's goroutine for a stream has done.
UserMove(k) ==
    \/ user'[k] = user[k]
    \/ user[k] = "idle" /\ user'[k] \in {"syn", "done"} /\ OpenStream(k)
    \/ /\ user[k] = "syn" /\ SendSYN(k)
       /\ \/ user'[k] = "register" /\ ~buffering' /\ Put("client", Frame("SYN", k, 0))
          \/ user'[k] = "done" /\ ~buffering
    \/ user[k] = "register" /\ Register(k) /\ user'[k] =
              IF IsClosed("client") THEN "done" ELSE "relay"
    \/ user[k] = "relay" /\ user'[k] = "done"

LEMMA UserMoves ==
    ASSUME LinkInv, Next, NEW k \in Sids
    PROVE  UserMove(k)
<1>0. user \in [Sids -> {"idle", "syn", "register", "relay", "done"}]
  BY DEF LinkInv, TypeOK
<1>1. CASE user' = user
  BY <1>1 DEF UserMove
<1>2. ASSUME NEW j \in Sids, OpenStream(j) PROVE UserMove(k)
  BY <1>0, <1>2 DEF OpenStream, UserGoto, UserMove
<1>3. ASSUME NEW j \in Sids, SendSYN(j) PROVE UserMove(k)
  <2>1. CASE j = k
    BY <1>0, <1>3, <2>1 DEF SendSYN, ControlFails, UserGoto, UserMove
  <2>2. CASE j # k
    BY <1>0, <1>3, <2>2 DEF SendSYN, UserGoto, UserMove
  <2>. QED
    BY <2>1, <2>2
<1>4. ASSUME NEW j \in Sids, Register(j) PROVE UserMove(k)
  BY <1>0, <1>4 DEF Register, UserGoto, UserMove
<1>5. ASSUME NEW j \in Sids, UserCloses(j) PROVE UserMove(k)
  BY <1>0, <1>5 DEF UserCloses, UserGoto, UserMove
<1>. QED
  BY <1>1, <1>2, <1>3, <1>4, <1>5, WhoMovesUsers

\* What the server's handler of a stream has done.
HandMove(k) ==
    \/ hand'[k] = hand[k]
    \/ hand'[k] = "address" /\ OnSYN /\ strm'["server"][k] = "open"
    \/ hand'[k] = "dial" /\ OnPSH("server") /\ rcv["server"].sid = k
    \/ hand[k] = "dial" /\ hand'[k] \in {"relay", "return"}
    \/ hand[k] # "none" /\ hand'[k] = "done"

LEMMA HandMoves ==
    ASSUME LinkInv, Next, NEW k \in Sids
    PROVE  HandMove(k)
<1>0. /\ hand \in [Sids -> {"none", "address", "dial", "relay", "return", "done"}]
      /\ TypeOK
  BY DEF LinkInv, TypeOK
<1>1. CASE hand' = hand
  BY <1>1 DEF HandMove
<1>2. CASE OnSYN
  <2>1. settled["server"] /\ rcv["server"].sid \in Sids
    BY <1>2, HeadFacts DEF OnSYN, SettingsFirst
  <2>2. \/ hand' = hand
        \/ /\ hand' = [hand EXCEPT ![rcv["server"].sid] = "address"]
           /\ strm' = [strm EXCEPT !["server"][rcv["server"].sid] = "open"]
    BY <1>2, <2>1 DEF OnSYN
  <2>3. CASE k = rcv["server"].sid
    BY <1>0, <1>2, <2>1, <2>2, <2>3 DEF HandMove, TypeOK, Ends
  <2>4. CASE k # rcv["server"].sid
    BY <1>0, <2>2, <2>4 DEF HandMove
  <2>. QED
    BY <2>3, <2>4
<1>3. CASE OnPSH("server")
  BY <1>0, <1>3 DEF OnPSH, HandMove
<1>4. ASSUME NEW j \in Sids, Answer(j) PROVE HandMove(k)
  BY <1>0, <1>4 DEF Answer, HandGoto, HandMove
<1>5. ASSUME NEW j \in Sids, HandlerReturns(j) PROVE HandMove(k)
  BY <1>0, <1>5 DEF HandlerReturns, HandGoto, HandMove
<1>. QED
  BY <1>1, <1>2, <1>3, <1>4, <1>5, WhoMovesHandlers

\* What is put on the way from an end.
NewFrame(p, f) ==
    \/ \E k \in Sids : FinishWrite(p, k) /\ f = Frame("PSH", k, sent[p][k] + 1)
                       /\ sent' = [sent EXCEPT ![p][k] = @ + 1]
    \/ \E k \in Sids : SendFIN(p, k) /\ ~IsClosed(p) /\ f = Frame("FIN", k, sent[p][k])
    \/ p = "client" /\ \E k \in Sids : SendSYN(k) /\ f = Frame("SYN", k, 0)
    \/ p = "server" /\ f = Frame("ServerSettings", 0, 0)
    \/ p = "server" /\ \E k \in Sids : Answer(k)
          /\ f \in {Frame("SYNACK", k, 0), Frame("Refuse", k, 0)}

\* The loop has acted on a frame, or stopped.
Acts(e) == RecvStep(e) /\ ~ReadFrame(e) /\ rcv'[e] \in Marks

QueueMove(e) ==
    \/ rcv'[e] = rcv[e] /\ Keeps(e)
    \/ /\ rcv'[e] = rcv[e] /\ \E f \in Frames : NewFrame(Peer(e), f) /\ Gains(e, f)
       /\ Reachable(e) \/ (e = "server" /\ buffering)
    \/ rcv'[e] = rcv[e] /\ Loses(e) /\ ~Reachable(e)' /\ ~(e = "server" /\ buffering)
    \/ ReadFrame(e)
    \/ Acts(e) /\ Keeps(e)

\* An end has put a frame on its way, or could not.
LEMMA ControlMoves ==
    ASSUME LinkInv, Next, NEW x \in Ends, NEW f \in Frames, Control(x, f),
           rcv'[Peer(x)] = rcv[Peer(x)],
           ControlFails(x) \/ NewFrame(x, f)
    PROVE  Keeps(x) /\ QueueMove(Peer(x))
<1>0. TypeOK /\ BufferInv /\ Peer(x) \in Ends /\ Peer(Peer(x)) = x
  BY EndFacts DEF LinkInv
<1>1. CASE ControlFails(x)
  BY <1>1 DEF ControlFails, Keeps, Rest, QueueMove
<1>2. CASE NewFrame(x, f)
  <2>1. /\ Keeps(x)
        /\ \/ Gains(Peer(x), f) /\ (Reachable(Peer(x)) \/ (x = "client" /\ buffering))
           \/ (~Reachable(Peer(x)) /\ ~(x = "client" /\ buffering) /\ Loses(Peer(x)))
           \/ Keeps(Peer(x))
    BY <1>0, ControlSends
  <2>2. ~Reachable(Peer(x)) => ~Reachable(Peer(x))'
    BY <1>0, LifeMoves DEF Reachable
  <2>3. x = "client" <=> Peer(x) = "server"
    BY DEF Peer, Ends
  <2>. QED
    BY <1>0, <1>2, <2>1, <2>2, <2>3 DEF QueueMove
<1>. QED
  BY <1>1, <1>2

LEMMA QueueMoves ==
    ASSUME LinkInv, Next, NEW e \in Ends
    PROVE  QueueMove(e)
<1>0. TypeOK /\ BufferInv /\ Peer(e) \in Ends /\ Peer(Peer(e)) = e /\ Peer(e) # e
  BY EndFacts DEF LinkInv
<1>1. CASE UNCHANGED << up, inbox, buffer, buffering, rcv >>
  BY <1>1 DEF QueueMove, Keeps, Rest
<1>2. CASE LinkFails
  <2>1. /\ inbox'[e] = << >> /\ buffer' = buffer /\ rcv' = rcv /\ ~up'
    BY <1>2 DEF LinkFails
  <2>. QED
    BY <1>0, <2>1, InboxDrained DEF QueueMove, Reachable
<1>3. CASE OnSettings
  <2>1. /\ "server" \in Ends /\ Peer("server") = "client"
        /\ Frame("ServerSettings", 0, 0) \in Frames
    BY DEF Ends, Peer, Frame, Frames, SessionCmds
  <2>2. rcv'["server"] \in Marks /\ rcv'["client"] = rcv["client"]
    BY <1>0, <1>3, <2>1, NextRoundTypes DEF OnSettings, GoesOn, Ends
  <2>3. Keeps("server") /\ QueueMove("client")
    BY <1>3, <2>1, <2>2, ControlMoves DEF OnSettings, NewFrame
  <2>4. Acts("server")
    <3>1. ~ReadFrame("server")
      BY <1>3 DEF OnSettings, On, ReadFrame
    <3>. QED
      BY <1>3, <2>2, <3>1 DEF Acts, RecvStep
  <2>. QED
    BY <2>3, <2>4 DEF QueueMove, Ends
<1>4. ASSUME NEW x \in Ends, ReadFrame(x) PROVE QueueMove(e)
  <2>1. CASE x = e
    BY <1>4, <2>1 DEF QueueMove
  <2>2. CASE x # e
    <3>1. x = Peer(e) /\ rcv'[e] = rcv[e]
      BY <1>0, <1>4, <2>2 DEF ReadFrame, Ends, TypeOK
    <3>. QED
      BY <1>0, <1>4, <3>1, ReadFrameTakes DEF QueueMove
  <2>. QED
    BY <2>1, <2>2
<1>5. ASSUME NEW x \in Ends, RecvStep(x), UNCHANGED << up, inbox, buffer, buffering >>
      PROVE  QueueMove(e)
  <2>1. CASE ReadFrame(x)
    BY <1>4, <2>1
  <2>2. CASE ~ReadFrame(x)
    <3>1. GoesOn(x)
      BY <1>5, <2>2 DEF RecvStep, ReadFails, OnPSH, OnPSHDrop, OnFIN,
             CloseFINed, OnSYN, OnSettings,
                        OnSYNACK, OnServerSettings, GoesOn
    <3>2. rcv'[x] \in Marks /\ \A y \in Ends : y # x => rcv'[y] = rcv[y]
      BY <1>0, <3>1, NextRoundTypes
    <3>3. Keeps(e)
      BY <1>5 DEF Keeps, Rest
    <3>. QED
      BY <1>5, <2>2, <3>2, <3>3 DEF QueueMove, Acts
  <2>. QED
    BY <2>1, <2>2
<1>6. ASSUME NEW x \in Ends, CloseStreams(x) PROVE QueueMove(e)
  <2>1. rcv' = rcv /\ buffer' = buffer /\ inbox' = [inbox EXCEPT ![x] = << >>]
        /\ life' = [life EXCEPT ![x] = "closed"]
    BY <1>6 DEF CloseStreams
  <2>2. CASE x = e
    <3>1. inbox'[e] = << >> /\ ~Reachable(e)'
      BY <1>0, <2>1, <2>2 DEF TypeOK, Reachable
    <3>. QED
      BY <1>0, <2>1, <3>1, InboxDrained DEF QueueMove
  <2>3. CASE x # e
    BY <1>0, <2>1, <2>3 DEF QueueMove, Keeps, Rest, TypeOK
  <2>. QED
    BY <2>2, <2>3
<1>7. ASSUME NEW x \in Ends, NEW f \in Frames, Control(x, f), rcv' = rcv,
             ControlFails(x) \/ NewFrame(x, f)
      PROVE  QueueMove(e)
  <2>1. x = e \/ x = Peer(e)
    BY DEF Ends, Peer
  <2>2. Keeps(x) /\ QueueMove(Peer(x))
    BY <1>7, ControlMoves
  <2>. QED
    BY <1>0, <1>7, <2>1, <2>2 DEF QueueMove
<1>8. ASSUME NEW x \in Ends, NEW k \in Sids, FinishWrite(x, k) PROVE QueueMove(e)
  <2> DEFINE f == Frame("PSH", k, sent[x][k] + 1)
  <2>1. rcv' = rcv /\ UNCHANGED life /\ f \in Frames
    BY <1>0, <1>8, FrameType DEF FinishWrite, TypeOK, StreamCmds
  <2>2. CASE Put(x, f) /\ sent' = [sent EXCEPT ![x][k] = @ + 1]
    BY <1>7, <1>8, <2>1, <2>2 DEF Control, NewFrame
  <2>3. CASE UNCHANGED << sent, inbox, buffer >>
    BY <2>1, <2>3 DEF QueueMove, Keeps, Rest
  <2>. QED
    BY <1>8, <2>2, <2>3 DEF FinishWrite
<1>9. ASSUME NEW x \in Ends, NEW k \in Sids, SendFIN(x, k) PROVE QueueMove(e)
  <2> DEFINE f == Frame("FIN", k, sent[x][k])
  <2>1. rcv' = rcv /\ f \in Frames
    BY <1>0, <1>9, FrameType DEF SendFIN, TypeOK, StreamCmds
  <2>2. CASE IsClosed(x)
    BY <1>9, <2>1, <2>2 DEF SendFIN, QueueMove, Keeps, Rest
  <2>3. CASE ~IsClosed(x)
    BY <1>7, <1>9, <2>1, <2>3 DEF SendFIN, NewFrame
  <2>. QED
    BY <2>2, <2>3
<1>10. ASSUME NEW k \in Sids, SendSYN(k) PROVE QueueMove(e)
  <2>1. rcv' = rcv /\ Frame("SYN", k, 0) \in Frames /\ "client" \in Ends
    BY <1>10, FrameType DEF SendSYN, StreamCmds, Ends
  <2>2. Control("client", Frame("SYN", k, 0)) /\ NewFrame("client", Frame("SYN", k, 0))
    BY <1>10 DEF SendSYN, Control, NewFrame
  <2>. QED
    BY <1>7, <2>1, <2>2
<1>11. ASSUME NEW k \in Sids, Answer(k) PROVE QueueMove(e)
  <2>1. /\ rcv' = rcv /\ "server" \in Ends
        /\ Frame("SYNACK", k, 0) \in Frames /\ Frame("Refuse", k, 0) \in Frames
    BY <1>11, FrameType DEF Answer, StreamCmds, Ends
  <2>2. /\ Control("server", Frame("SYNACK", k, 0)) \/ Control("server", Frame("Refuse", k, 0))
        /\ NewFrame("server", Frame("SYNACK", k, 0)) /\ NewFrame("server", Frame("Refuse", k, 0))
    BY <1>11 DEF Answer, Control, NewFrame
  <2>. QED
    BY <1>7, <2>1, <2>2
<1>. QED
  BY <1>1, <1>2, <1>3, <1>4, <1>5, <1>6, <1>8, <1>9, <1>10, <1>11, WhoMovesQueues

\* A loop that is about to close a stream was so before, or has met the FIN.
LEMMA ClosingCame ==
    ASSUME LinkInv, Next, NEW e \in Ends, rcv'[e].cmd = "closing"
    PROVE  /\ \/ rcv'[e] = rcv[e] /\ ~RecvStep(e)
              \/ OnFIN(e) /\ rcv'[e] = Frame("closing", rcv[e].sid, rcv[e].n)
           /\ rcv'[e].sid = rcv[e].sid /\ rcv[e].sid \in Sids
<1>0. TypeOK /\ BufferInv
  BY DEF LinkInv
<1>1. ~ReadFrame(e)
  BY <1>0, ReadFrameTakes DEF Frames, SessionCmds, StreamCmds
<1>2. ASSUME RecvStep(e)
      PROVE  /\ OnFIN(e) /\ rcv'[e] = Frame("closing", rcv[e].sid, rcv[e].n)
             /\ rcv[e].sid \in Sids
  <2>1. ~NextRound(e) /\ ~Stop(e)
    BY <1>0 DEF NextRound, Stop, Frame, TypeOK
  <2>2. OnFIN(e) /\ Closing(e)
    BY <1>1, <1>2, <2>1 DEF RecvStep, ReadFails, OnPSH, OnPSHDrop, OnFIN, CloseFINed, OnSYN,
                            OnSettings, OnSYNACK, OnServerSettings
  <2>. QED
    BY <1>0, <2>2, HeadFacts DEF OnFIN, Closing, TypeOK
<1>3. ASSUME ~RecvStep(e) PROVE rcv'[e] = rcv[e] /\ rcv[e].sid \in Sids
  <2>1. rcv'[e] = rcv[e]
    BY <1>3, QueueMoves DEF QueueMove, Acts, RecvStep
  <2>. QED
    BY <1>0, <2>1 DEF TypeOK, Marks, LoopStates, Frames, SessionCmds, StreamCmds
<1>. QED
  BY <1>2, <1>3 DEF Frame

\* The loop is about to close a stream until it does.
LEMMA UnlistedEnds ==
    ASSUME LinkInv, Next, NEW e \in Ends, NEW k \in Sids, Unlisted(e, k)
    PROVE  /\ ~Register(k) \/ e = "server"
           /\ ~OnSYN \/ e = "client"
           /\ Unlisted(e, k)' \/ (CloseFINed(e) /\ strm'[e][k] # "open")
<1>0. TypeOK /\ StageInv /\ "client" \in Ends
  BY DEF LinkInv, Ends
<1>1. e = "client" => ~Register(k)
  <2>1. e = "client" => sent["client"][k] > 0
    BY HeadFacts DEF NoEarlyReply, Unlisted, Sids
  <2>2. user[k] = "register" => sent["client"][k] = 0
    BY <1>0 DEF StageInv
  <2>. QED
    BY <2>1, <2>2 DEF Register
<1>2. e = "server" => ~OnSYN
  BY DEF Unlisted, On, OnSYN
<1>3. RecvStep(e) => CloseFINed(e) /\ ~ReadFrame(e)
  BY DEF RecvStep, ReadFrame, ReadFails, OnPSH, OnPSHDrop, OnFIN, OnSYN, OnSettings, OnSYNACK,
         OnServerSettings, On, Unlisted
<1>4. CloseFINed(e) => strm'[e][k] # "open"
  BY <1>0 DEF CloseFINed, Unlisted, TypeOK
<1>5. ~RecvStep(e) => rcv'[e] = rcv[e]
  BY QueueMoves DEF QueueMove, Acts, RecvStep
<1>. QED
  BY <1>1, <1>2, <1>3, <1>4, <1>5 DEF Unlisted, On, Ends

\* An item that is written is on its way, or cannot arrive.
LEMMA SentMoves ==
    ASSUME LinkInv, Next, NEW e \in Ends, NEW k \in Sids, sent'[e][k] # sent[e][k]
    PROVE  /\ FinishWrite(e, k) /\ sent'[e][k] = sent[e][k] + 1
           /\ Gains(Peer(e), Frame("PSH", k, sent'[e][k])) \/ ~Reachable(Peer(e))
<1>0. TypeOK /\ BufferInv
  BY DEF LinkInv
<1>1. PICK x \in Ends, j \in Sids : FinishWrite(x, j)
  BY <1>0, WhoSends
<1>2. sent' = [sent EXCEPT ![x][j] = @ + 1] /\ Put(x, Frame("PSH", j, sent[x][j] + 1))
  BY <1>1 DEF FinishWrite
<1>3. x = e /\ j = k
  BY <1>0, <1>2 DEF TypeOK
<1>4. sent'[e][k] = sent[e][k] + 1 /\ sent[e][k] \in Nat
  BY <1>0, <1>2, <1>3 DEF TypeOK
<1>5. Frame("PSH", k, sent[e][k] + 1) \in Frames
  BY <1>4, FrameType DEF StreamCmds
<1>. QED
  BY <1>0, <1>1, <1>2, <1>3, <1>4, <1>5, PutSends

(***************************************************************************)
(* Each part of the invariant is kept                                      *)
(***************************************************************************)
\* What a step does to the buffer and to where nothing can arrive.
LEMMA NetStep ==
    ASSUME LinkInv, Next
    PROVE  /\ buffering' => buffering
           /\ buffering => buffer' # << >>
           /\ buffer' # << >> => inbox'["server"] = << >>
           /\ \A e \in Ends : ~Reachable(e)' => inbox'[e] = << >>
<1> DEFINE Good == /\ buffering => buffer' # << >>
                   /\ buffer' # << >> => inbox'["server"] = << >>
                   /\ \A e \in Ends : ~Reachable(e) => inbox'[e] = << >>
<1>0. TypeOK /\ BufferInv
  BY DEF LinkInv
<1>2. ASSUME LinkFails PROVE Good
  BY <1>0, <1>2 DEF BufferInv, LinkFails, Ends
<1>7. ASSUME NEW x \in Ends, NEW f \in Frames, Control(x, f) PROVE Good
  BY <1>0, <1>7, ControlSends
<1>3. ASSUME OnSettings PROVE Good
  <2>1. "server" \in Ends /\ Frame("ServerSettings", 0, 0) \in Frames
    BY DEF Ends, Frame, Frames, SessionCmds
  <2>. QED
    BY <1>7, <1>3, <2>1 DEF OnSettings
<1>4. ASSUME NEW x \in Ends, ReadFrame(x) PROVE Good
  BY <1>0, <1>4, ReadFrameTakes DEF BufferInv, ReadFrame, Ends
<1>5. ASSUME UNCHANGED << up, inbox, buffer, buffering >> PROVE Good
  BY <1>0, <1>5 DEF BufferInv
<1>6. ASSUME NEW x \in Ends, CloseStreams(x) PROVE Good /\ inbox'[x] = << >>
  BY <1>0, <1>6 DEF BufferInv, CloseStreams, TypeOK, Ends
<1>8. ASSUME NEW x \in Ends, NEW k \in Sids, FinishWrite(x, k) PROVE Good
  <2>1. Frame("PSH", k, sent[x][k] + 1) \in Frames /\ UNCHANGED << up, buffering >>
    BY <1>0, <1>8, FrameType DEF FinishWrite, TypeOK, StreamCmds
  <2>. QED
    BY <1>0, <1>5, <1>8, <2>1, PutSends DEF FinishWrite
<1>9. ASSUME NEW x \in Ends, NEW k \in Sids, SendFIN(x, k) PROVE Good
  <2>1. Frame("FIN", k, sent[x][k]) \in Frames /\ UNCHANGED << up, buffering >>
    BY <1>0, <1>9, FrameType DEF SendFIN, TypeOK, StreamCmds
  <2>. QED
    BY <1>5, <1>7, <1>9, <2>1 DEF SendFIN
<1>10. ASSUME NEW k \in Sids, SendSYN(k) PROVE Good
  <2>1. Frame("SYN", k, 0) \in Frames /\ "client" \in Ends
    BY FrameType DEF StreamCmds, Ends
  <2>. QED
    BY <1>7, <1>10, <2>1 DEF SendSYN, Control
<1>11. ASSUME NEW k \in Sids, Answer(k) PROVE Good
  <2>1. /\ "server" \in Ends
        /\ Frame("SYNACK", k, 0) \in Frames /\ Frame("Refuse", k, 0) \in Frames
    BY FrameType DEF StreamCmds, Ends
  <2>. QED
    BY <1>7, <1>11, <2>1 DEF Answer, Control
<1>12. Good
  BY <1>2, <1>3, <1>4, <1>5, <1>6, <1>8, <1>9, <1>10, <1>11, WhoMovesQueues
<1>13. buffering' => buffering
  <2>1. CASE \E k \in Sids : SendSYN(k)
    BY <2>1 DEF SendSYN
  <2>2. CASE ~ \E k \in Sids : SendSYN(k)
    BY <2>2 DEF Next, RecvStep, StreamStep, ReadFrame, ReadFails, OnPSH, OnPSHDrop, OnFIN,
           CloseFINed, OnSYN,
       OnSettings, OnSYNACK, OnServerSettings, CloseStreams, StartWrite, FinishWrite, SendFIN,
        Unmap,
       OpenStream, Register, UserCloses, Answer, HandlerReturns, LinkFails,
       WatchdogFires, netVars
  <2>. QED
    BY <2>1, <2>2
<1>14. ASSUME NEW e \in Ends, ~Reachable(e)' PROVE inbox'[e] = << >>
  <2>1. CASE ~Reachable(e)
    BY <1>12, <2>1
  <2>2. CASE Reachable(e)
    <3>1. ~up' \/ CloseStreams(e)
      BY <1>14, <2>2, LifeMoves DEF Reachable
    <3>2. ~up' => LinkFails
      BY <2>2 DEF Next, RecvStep, StreamStep, ReadFrame, ReadFails, OnPSH, OnPSHDrop, OnFIN,
             CloseFINed, OnSYN,
       OnSettings, OnSYNACK, OnServerSettings, CloseStreams, StartWrite, FinishWrite, SendFIN,
        Unmap,
       OpenStream, SendSYN, Register, UserCloses, Answer, HandlerReturns,
       WatchdogFires, netVars, Reachable
    <3>. QED
      BY <1>6, <3>1, <3>2 DEF LinkFails
  <2>. QED
    BY <2>1, <2>2
<1>. QED
  BY <1>12, <1>13, <1>14

LEMMA BufferStep ==
    ASSUME LinkInv, Next
    PROVE  BufferInv'
<1>1. ASSUME buffering', NEW k \in Sids
      PROVE  user'[k] \in {"idle", "syn", "done"} /\ strm'["client"][k] = "none"
  <2>1. buffering /\ user[k] \in {"idle", "syn", "done"} /\ strm["client"][k] = "none"
    BY <1>1, NetStep DEF LinkInv, BufferInv
  <2>2. user'[k] \in {"idle", "syn", "done"}
    BY <1>1, <2>1, UserMoves DEF UserMove
  <2>3. ~Register(k)
    BY <2>1 DEF Register
  <2>4. "client" \in Ends
    BY DEF Ends
  <2>5. strm'["client"][k] = "none"
    BY <2>1, <2>3, <2>4, StageMoves DEF StageMove
  <2>. QED
    BY <2>2, <2>5
<1>. QED
  BY <1>1, NetStep DEF BufferInv

LEMMA WritingStep ==
    ASSUME LinkInv, Next, NEW e \in Ends, NEW k \in Sids, << e, k >> \in writing',
           << e, k >> \notin writing
    PROVE  StartWrite(e, k)
<1>1. ASSUME NEW x \in Ends, NEW j \in Sids, StartWrite(x, j) PROVE StartWrite(e, k)
  <2>1. x = e /\ j = k
    BY <1>1 DEF StartWrite
  <2>. QED
    BY <1>1, <2>1
<1>2. ASSUME NEW x \in Ends, NEW j \in Sids, FinishWrite(x, j) PROVE FALSE
  BY <1>2 DEF FinishWrite
<1>. QED
  BY <1>1, <1>2 DEF Next, RecvStep, StreamStep, ReadFrame, ReadFails, OnPSH, OnPSHDrop, OnFIN,
         CloseFINed,
                    OnSYN,
       OnSettings, OnSYNACK, OnServerSettings, CloseStreams, SendFIN, Unmap,
       OpenStream, SendSYN, Register, UserCloses, Answer, HandlerReturns, LinkFails,
       WatchdogFires, dataVars

LEMMA WhoMovesMap ==
    ASSUME Next
    PROVE  \/ streams' = streams \/ OnSYN
           \/ \E e \in Ends : OnFIN(e) \/ CloseStreams(e)
           \/ \E e \in Ends, k \in Sids : Unmap(e, k)
           \/ \E k \in Sids : Register(k)
BY DEF Next, RecvStep, StreamStep, ReadFrame, ReadFails, OnPSH, OnPSHDrop,
       CloseFINed, OnSettings, OnSYNACK,
       OnServerSettings, StartWrite, FinishWrite, OpenStream, SendSYN, Answer, LinkFails,
       WatchdogFires, streamVars, SendFIN, UserCloses, HandlerReturns

\* A stream enters the map when it is opened, and leaves it when it is dead or
\* the loop goes on to close it.
MapMove(e, k) ==
    \/ k \in streams'[e] <=> k \in streams[e]
    \/ k \in streams'[e] /\ strm'[e][k] = "open"
    \/ k \notin streams'[e]
       /\ (strm'[e][k] # "open" \/ life'[e] = "closed" \/ Unlisted(e, k)')

LEMMA MapMoves ==
    ASSUME LinkInv, Next, NEW e \in Ends, NEW k \in Sids
    PROVE  MapMove(e, k)
<1>0. TypeOK
  BY DEF LinkInv
<1>1. CASE streams' = streams
  BY <1>1 DEF MapMove
<1>2. CASE OnSYN
  <2>1. settled["server"] /\ rcv["server"].sid \in Sids
    BY <1>2, HeadFacts DEF OnSYN, SettingsFirst
  <2>2. \/ streams' = streams
        \/ /\ streams' = [streams EXCEPT !["server"] = @ \cup {rcv["server"].sid}]
           /\ strm' = [strm EXCEPT !["server"][rcv["server"].sid] = "open"]
    BY <1>2, <2>1 DEF OnSYN, streamVars
  <2>3. CASE e = "server" /\ k = rcv["server"].sid
    BY <1>0, <2>1, <2>2, <2>3 DEF MapMove, TypeOK
  <2>4. CASE ~(e = "server" /\ k = rcv["server"].sid)
    BY <1>0, <2>1, <2>2, <2>4 DEF MapMove, TypeOK
  <2>. QED
    BY <2>3, <2>4
<1>3. ASSUME NEW x \in Ends, OnFIN(x) PROVE MapMove(e, k)
  <2>1. CASE x = e /\ rcv[x].sid = k
    <3>1. k \in streams[e] => Unlisted(e, k)'
      BY <1>0, <1>3, <2>1 DEF OnFIN, Closing, Unlisted, On, Frame, TypeOK
    <3>2. k \notin streams'[e]
      BY <1>0, <1>3, <2>1 DEF OnFIN, TypeOK
    <3>. QED
      BY <3>1, <3>2 DEF MapMove
  <2>2. CASE ~(x = e /\ rcv[x].sid = k)
    BY <1>0, <1>3, <2>2 DEF OnFIN, TypeOK, MapMove
  <2>. QED
    BY <2>1, <2>2
<1>4. ASSUME NEW x \in Ends, CloseStreams(x) PROVE MapMove(e, k)
  <2>1. CASE x = e
    BY <1>0, <1>4, <2>1 DEF CloseStreams, TypeOK, MapMove
  <2>2. CASE x # e
    BY <1>0, <1>4, <2>2 DEF CloseStreams, TypeOK, MapMove
  <2>. QED
    BY <2>1, <2>2
<1>5. ASSUME NEW x \in Ends, NEW j \in Sids, Unmap(x, j) PROVE MapMove(e, k)
  <2>1. CASE x = e /\ j = k
    BY <1>0, <1>5, <2>1 DEF Unmap, TypeOK, MapMove
  <2>2. CASE ~(x = e /\ j = k)
    BY <1>0, <1>5, <2>2 DEF Unmap, TypeOK, MapMove
  <2>. QED
    BY <2>1, <2>2
<1>6. ASSUME NEW j \in Sids, Register(j) PROVE MapMove(e, k)
  <2>1. CASE streams' = streams
    BY <2>1 DEF MapMove
  <2>2. CASE /\ streams' = [streams EXCEPT !["client"] = @ \cup {j}]
             /\ strm' = [strm EXCEPT !["client"][j] = "open"]
    BY <1>0, <2>2 DEF TypeOK, MapMove
  <2>. QED
    BY <1>6, <2>1, <2>2 DEF Register, streamVars
<1>. QED
  BY <1>1, <1>2, <1>3, <1>4, <1>5, <1>6, WhoMovesMap

LEMMA StageStep ==
    ASSUME LinkInv, Next
    PROVE  StageInv'
<1>0. TypeOK /\ StageInv /\ TypeOK'
  BY TypeStep DEF LinkInv
<1>1. "client" \in Ends /\ "server" \in Ends /\ "client" # "server"
  BY DEF Ends
<1> SUFFICES ASSUME NEW k \in Sids
    PROVE /\ user'[k] \in {"idle", "syn", "register"} => strm'["client"][k] = "none"
          /\ user'[k] \in {"idle", "syn"} => strm'["server"][k] = "none"
          /\ user'[k] = "relay" => strm'["client"][k] # "none"
          /\ strm'["server"][k] = "none" => hand'[k] = "none"
          /\ \A e \in Ends :
               /\ strm'[e][k] = "none" =>
                    k \notin streams'[e] /\ << e, k >> \notin writing' /\ sent'[e][k] = 0
               /\ << e, k >> \in writing' => sent'[e][k] < MaxData[e]
          /\ \/ hand'[k] \in {"dial", "relay", "return"} \/ << "server", k >> \in writing'
             \/ strm'["server"][k] \in {"fin", "unmap"}
             => sent'["client"][k] > 0
  BY DEF StageInv
<1>2. user'[k] \in {"idle", "syn", "register"} => strm'["client"][k] = "none"
  <2> SUFFICES ASSUME user'[k] \in {"idle", "syn", "register"} PROVE strm'["client"][k] = "none"
    OBVIOUS
  <2>1. user[k] \in {"idle", "syn", "register"} /\ strm["client"][k] = "none"
    BY <1>0, UserMoves DEF UserMove, StageInv
  <2>2. ~(Register(k) /\ ~IsClosed("client"))
    BY <1>0 DEF Register, UserGoto, TypeOK
  <2>. QED
    BY <1>1, <2>1, <2>2, StageMoves DEF StageMove
<1>3. user'[k] = "relay" => strm'["client"][k] # "none"
  <2> SUFFICES ASSUME user'[k] = "relay" PROVE strm'["client"][k] # "none"
    OBVIOUS
  <2>1. CASE user[k] = "relay"
    BY <1>0, <1>1, <2>1, StageMoves DEF StageMove, StageInv
  <2>2. CASE Register(k) /\ ~IsClosed("client")
    BY <1>0, <1>1, <2>2 DEF Register, TypeOK
  <2>. QED
    BY <2>1, <2>2, UserMoves DEF UserMove
<1>8. user'[k] \in {"idle", "syn"} => strm'["server"][k] = "none"
  <2> SUFFICES ASSUME user'[k] \in {"idle", "syn"} PROVE strm'["server"][k] = "none"
    OBVIOUS
  <2>1. user[k] \in {"idle", "syn"} /\ strm["server"][k] = "none"
    BY <1>0, UserMoves DEF UserMove, StageInv
  <2>2. CASE OnSYN /\ rcv["server"].sid = k
    <3>1. rcv["server"] \in Wire("server")
      BY <1>0, <1>1, WireType
    <3>. QED
      BY <1>1, <2>1, <2>2, <3>1 DEF OnSYN, On, LinkInv, WireInv, Fits
  <2>. QED
    BY <1>1, <2>1, <2>2, StageMoves DEF StageMove
<1>4. strm'["server"][k] = "none" => hand'[k] = "none"
  <2> SUFFICES ASSUME strm'["server"][k] = "none" PROVE hand'[k] = "none"
    OBVIOUS
  <2>1. strm["server"][k] = "none" /\ hand[k] = "none"
    BY <1>0, <1>1, StageMoves DEF StageMove, StageInv
  <2>2. ~(OnPSH("server") /\ rcv["server"].sid = k)
    BY <1>1, <2>1 DEF OnPSH
  <2>. QED
    BY <2>1, <2>2, HandMoves DEF HandMove
<1>5. ASSUME NEW e \in Ends, strm'[e][k] = "none"
      PROVE  k \notin streams'[e] /\ << e, k >> \notin writing' /\ sent'[e][k] = 0
  <2>1. strm[e][k] = "none"
    BY <1>5, StageMoves DEF StageMove
  <2>2. k \notin streams[e] /\ << e, k >> \notin writing /\ sent[e][k] = 0
    BY <1>0, <2>1 DEF StageInv
  <2>3. ~StartWrite(e, k) /\ ~FinishWrite(e, k)
    BY <2>1, <2>2 DEF StartWrite, FinishWrite
  <2>. QED
    BY <1>5, <2>2, <2>3, MapMoves, WritingStep, SentMoves DEF MapMove
<1>6. ASSUME NEW e \in Ends, << e, k >> \in writing'
      PROVE  sent'[e][k] < MaxData[e]
  <2>1. ~FinishWrite(e, k)
    BY <1>6 DEF FinishWrite
  <2>2. sent'[e][k] = sent[e][k]
    BY <2>1, SentMoves
  <2>3. CASE << e, k >> \in writing
    BY <1>0, <2>2, <2>3 DEF StageInv
  <2>4. CASE StartWrite(e, k)
    BY <2>2, <2>4 DEF StartWrite
  <2>. QED
    BY <1>6, <2>3, <2>4, WritingStep
<1>7. ASSUME \/ hand'[k] \in {"dial", "relay", "return"} \/ << "server", k >> \in writing'
             \/ strm'["server"][k] \in {"fin", "unmap"}
      PROVE  sent'["client"][k] > 0
  <2>1. sent["client"][k] \in Nat /\ sent'["client"][k] \in Nat
        /\ sent["client"][k] <= sent'["client"][k]
    BY <1>0, <1>1, FinishWriteSends DEF TypeOK
  <2>2. CASE \/ hand[k] \in {"dial", "relay", "return"} \/ << "server", k >> \in writing
             \/ strm["server"][k] \in {"fin", "unmap"}
    <3>1. sent["client"][k] > 0
      BY <1>0, <2>2 DEF StageInv
    <3>. QED
      BY <2>1, <3>1
  <2>3. CASE OnPSH("server") /\ rcv["server"].sid = k
    <3>1. Len(read["server"][k]) \in Nat /\ rcv["server"].n = Len(read["server"][k]) + 1
          /\ rcv["server"].n <= sent[Peer("server")][k]
      <4>1. Len(read["server"][k]) \in Nat
        BY <1>0, <1>1 DEF TypeOK
      <4>. QED
        BY <1>1, <2>3, <4>1, OnPSHReads
    <3>2. Peer("server") = "client"
      BY DEF Peer
    <3>. QED
      BY <2>1, <3>1, <3>2
  <2>4. hand'[k] \in {"dial", "relay", "return"} =>
          hand[k] \in {"dial", "relay", "return"} \/ (OnPSH("server") /\ rcv["server"].sid = k)
    BY HandMoves DEF HandMove
  <2>5. << "server", k >> \in writing' => << "server", k >> \in writing \/ hand[k] = "relay"
    BY <1>1, WritingStep DEF StartWrite
  <2>6. strm'["server"][k] \in {"fin", "unmap"} =>
          strm["server"][k] \in {"fin", "unmap"} \/ hand[k] \in {"relay", "return"}
    BY <1>1, StageMoves DEF StageMove
  <2>. QED
    BY <1>7, <2>2, <2>3, <2>4, <2>5, <2>6
<1>. QED
  BY <1>2, <1>3, <1>4, <1>5, <1>6, <1>7, <1>8

LEMMA MapStep ==
    ASSUME LinkInv, Next
    PROVE  MapInv' /\ ClientClosesAll'
<1>0. TypeOK /\ MapInv /\ ClientClosesAll
  BY DEF LinkInv
<1>1. ASSUME NEW e \in Ends, NEW k \in Sids, life'[e] # "closed", strm'[e][k] = "open"
      PROVE  k \in streams'[e] \/ Unlisted(e, k)'
  <2>1. life[e] # "closed"
    BY <1>1, LifeMoves
  <2>2. CASE strm[e][k] = "open"
    <3>1. CASE k \in streams[e]
      BY <1>1, <3>1, MapMoves DEF MapMove
    <3>2. CASE Unlisted(e, k)
      BY <1>1, <3>2, UnlistedEnds
    <3>. QED
      BY <1>0, <2>1, <2>2, <3>1, <3>2 DEF MapInv
  <2>3. CASE e = "client" /\ Register(k) /\ ~IsClosed(e)
    BY <1>0, <2>3 DEF Register, TypeOK
  <2>4. CASE e = "server" /\ OnSYN /\ rcv[e].sid = k
    <3>1. settled["server"]
      BY <2>4, HeadFacts DEF OnSYN, SettingsFirst
    <3>. QED
      BY <1>0, <2>4, <3>1 DEF OnSYN, TypeOK, streamVars
  <2>. QED
    BY <1>1, <2>2, <2>3, <2>4, StageMoves DEF StageMove
<1>2. ASSUME NEW e \in Ends, NEW k \in Sids, ~IsClosed(e)', k \in streams'[e]
      PROVE  strm'[e][k] \in {"open", "fin", "unmap"}
  <2>1. ~IsClosed(e)
    BY <1>2, LifeMoves DEF IsClosed
  <2>2. CASE strm'[e][k] = "open"
    BY <2>2
  <2>3. CASE strm'[e][k] # "open"
    <3>1. k \in streams[e] /\ strm[e][k] \in {"open", "fin", "unmap"}
      BY <1>0, <1>2, <2>1, <2>3, MapMoves DEF MapMove, MapInv
    <3>2. ~Unmap(e, k) /\ ~CloseStreams(e)
      BY <1>0, <1>2 DEF Unmap, CloseStreams, TypeOK
    <3>3. ~(CloseFINed(e) /\ rcv[e].sid = k)
      BY <1>0, <3>1 DEF CloseFINed, Unlisted, MapInv
    <3>. QED
      BY <2>1, <3>1, <3>2, <3>3, StageMoves DEF StageMove
  <2>. QED
    BY <2>2, <2>3
<1>3. ASSUME life'["client"] = "closed", NEW k \in Sids, ~Unlisted("client", k)'
      PROVE  strm'["client"][k] # "open"
  <2>1. "client" \in Ends
    BY DEF Ends
  <2>2. CASE life["client"] = "closed"
    <3>1. IsClosed("client") /\ (strm["client"][k] = "open" => Unlisted("client", k))
      BY <1>0, <2>2 DEF ClientClosesAll, ClosesAllStreams, IsClosed
    <3>2. CASE Unlisted("client", k)
      BY <1>3, <2>1, <3>2, UnlistedEnds
    <3>. QED
      BY <2>1, <3>1, <3>2, StageMoves DEF StageMove
  <2>3. CASE life["client"] # "closed" /\ CloseStreams("client")
    <3>1. ~Unlisted("client", k)
      BY <1>3, <2>3 DEF CloseStreams, Unlisted, On
    <3>2. strm["client"][k] = "open" => k \in streams["client"]
      BY <1>0, <2>1, <2>3, <3>1 DEF MapInv
    <3>. QED
      BY <1>0, <2>1, <2>3, <3>2 DEF CloseStreams, TypeOK
  <2>. QED
    BY <1>3, <2>1, <2>2, <2>3, LifeMoves
<1>4. ASSUME NEW e \in Ends, NEW k \in Sids, Unlisted(e, k)'
      PROVE  k \notin streams'[e]
  <2>1. rcv'[e].sid = rcv[e].sid /\ rcv'[e].cmd = "closing" /\ rcv[e].sid = k
    BY <1>4, ClosingCame DEF Unlisted, On
  <2>2. CASE OnFIN(e)
    BY <1>0, <2>1, <2>2 DEF OnFIN, TypeOK
  <2>3. CASE rcv'[e] = rcv[e] /\ ~RecvStep(e)
    <3>1. Unlisted(e, k)
      BY <2>1, <2>3 DEF Unlisted, On
    <3>2. k \notin streams[e]
      BY <1>0, <3>1 DEF MapInv
    <3>3. ASSUME k \in streams'[e] PROVE (e = "client" /\ Register(k)) \/ (e = "server" /\ OnSYN)
      BY <1>0, <3>2, <3>3, WhoMovesMap
      DEF OnFIN, CloseStreams, Unmap, Register, OnSYN, streamVars, TypeOK
    <3>. QED
      BY <3>1, <3>3, UnlistedEnds
  <2>. QED
    BY <2>1, <2>2, <2>3, ClosingCame
<1>. QED
  BY <1>1, <1>2, <1>3, <1>4 DEF MapInv, ClientClosesAll, ClosesAllStreams

\* Acting on a frame leaves what is behind it alone.
LEMMA ActsKeeps ==
    ASSUME LinkInv, NEW e \in Ends, RecvStep(e), ~ReadFrame(e)
    PROVE  Acts(e) /\ Keeps(e) /\ Behind(e)' = Behind(e)
<1>1. GoesOn(e)
  BY DEF RecvStep, ReadFails, OnPSH, OnPSHDrop, OnFIN, CloseFINed, OnSYN, OnSettings, OnSYNACK,
         OnServerSettings, GoesOn
<1>2. Acts(e)
  BY <1>1, NextRoundTypes DEF Acts, LinkInv
<1>3. CASE UNCHANGED << inbox, buffer >>
  BY <1>2, <1>3 DEF Keeps, Behind, Rest
<1>4. CASE e = "server" /\ OnSettings
  <2>1. Frame("ServerSettings", 0, 0) \in Frames
    BY DEF Frame, Frames, SessionCmds
  <2>2. Keeps(e)
    BY <1>4, <2>1, ControlSends DEF OnSettings, LinkInv
  <2>. QED
    BY <1>2, <2>2 DEF Keeps, Behind
<1>. QED
  BY <1>3, <1>4 DEF RecvStep, ReadFails, OnPSH, OnPSHDrop, OnFIN, CloseFINed, OnSYN, OnSYNACK,
                    OnServerSettings, netVars

\* A new frame may go behind all that are on their way.
LEMMA NewFrameLast ==
    ASSUME LinkInv, Next, NEW e \in Ends, NEW f \in Frames, NewFrame(Peer(e), f), NEW g \in Wire(e)
    PROVE  MayPrecede(g, f)
<1> DEFINE p == Peer(e)
<1>0. TypeOK /\ StageInv /\ p \in Ends /\ (p = "client" <=> e = "server")
  BY DEF LinkInv, Ends, Peer
<1>1. Fits(e, g)
  BY DEF LinkInv, WireInv
<1>2. g.n \in Nat /\ (g.cmd \in StreamCmds => g.sid \in Sids)
  BY <1>0, WireType
<1>3. ASSUME NEW k \in Sids, FinishWrite(p, k), f = Frame("PSH", k, sent[p][k] + 1)
      PROVE  MayPrecede(g, f)
  <2>1. sent[p][k] \in Nat
    BY <1>0 DEF TypeOK
  <2>. QED
    BY <1>1, <1>2, <1>3, <2>1 DEF Fits, MayPrecede, Frame
<1>4. ASSUME NEW k \in Sids, SendFIN(p, k), f = Frame("FIN", k, sent[p][k])
      PROVE  MayPrecede(g, f)
  <2>1. strm[p][k] = "fin"
    BY <1>4 DEF SendFIN
  <2>. QED
    BY <1>1, <1>4, <2>1 DEF Fits, MayPrecede, Frame
<1>5. ASSUME p = "client", NEW k \in Sids, SendSYN(k), f = Frame("SYN", k, 0)
      PROVE  MayPrecede(g, f)
  <2>1. user[k] = "syn" /\ strm[p][k] = "none" /\ sent[p][k] = 0
    BY <1>0, <1>5 DEF SendSYN, StageInv
  <2>2. Len(read[e][k]) \in Nat
    BY <1>0 DEF TypeOK
  <2>3. g.sid = k => g.cmd \notin {"SYN", "PSH", "FIN"}
    BY <1>0, <1>1, <1>2, <1>5, <2>1, <2>2 DEF Fits
  <2>. QED
    BY <1>5, <2>3 DEF MayPrecede, Frame
<1>6. ASSUME f.cmd \in {"ServerSettings", "SYNACK", "Refuse"}
      PROVE  MayPrecede(g, f)
  BY <1>6 DEF MayPrecede
<1>. QED
  BY <1>3, <1>4, <1>5, <1>6 DEF NewFrame, Frame

\* What the frames on their way say stays true, apart from the one acted on.
LEMMA FitsStays ==
    ASSUME LinkInv, Next, NEW e \in Ends, NEW f \in Wire(e), f \in Wire(e)', f \notin Marks
    PROVE  Fits(e, f)'
<1> DEFINE k == f.sid  p == Peer(e)
<1>0. TypeOK /\ TypeOK' /\ StageInv /\ p \in Ends /\ (p = "client" <=> e = "server")
  BY TypeStep DEF LinkInv, Ends, Peer
<1>1. Fits(e, f)
  BY DEF LinkInv, WireInv
<1>2. f.n \in Nat /\ (f.cmd \in StreamCmds => k \in Sids) /\ (f.cmd \notin StreamCmds => k = 0)
      /\ k \in 0 .. MaxStream
  BY <1>0, WireType
<1>3. RecvStep(e) /\ ~ReadFrame(e) => f \in Behind(e) /\ MayPrecede(rcv[e], f)
  <2> SUFFICES ASSUME RecvStep(e), ~ReadFrame(e) PROVE f \in Behind(e) /\ MayPrecede(rcv[e], f)
    OBVIOUS
  <2>3. Behind(e)' = Behind(e) /\ rcv'[e] \in Marks
    BY ActsKeeps DEF Acts
  <2>4. f \in Behind(e)
    BY <2>3 DEF Wire
  <2>. QED
    BY <2>4 DEF LinkInv, WireInv
<1>4. ASSUME f.cmd \in {"PSH", "FIN"}
      PROVE  /\ f.cmd = "PSH" => Len(read'[e][k]) < f.n
             /\ f.cmd = "FIN" => Len(read'[e][k]) <= f.n
             /\ f.n <= sent'[p][k]
  <2>1. k \in Sids /\ f.n <= sent[p][k]
    BY <1>1, <1>2, <1>4 DEF Fits, StreamCmds
  <2>2. f.n <= sent'[p][k]
    <3>1. sent[p][k] <= sent'[p][k]
      BY <1>0, <2>1, FinishWriteSends
    <3>2. sent[p][k] \in Nat /\ sent'[p][k] \in Nat
      BY <1>0, <2>1 DEF TypeOK
    <3>. QED
      BY <1>2, <2>1, <3>1, <3>2
  <2>3. CASE read'[e][k] = read[e][k]
    BY <1>1, <1>4, <2>2, <2>3 DEF Fits
  <2>4. CASE OnPSH(e) /\ rcv[e].sid = k
    <3>1. RecvStep(e) /\ ~ReadFrame(e) /\ On(e, "PSH")
      BY <2>4 DEF RecvStep, OnPSH, On, ReadFrame
    <3>2. MayPrecede(rcv[e], f) /\ Len(read'[e][k]) = rcv[e].n
      BY <1>3, <2>4, <3>1, OnPSHReads
    <3>. QED
      BY <1>4, <2>2, <2>4, <3>1, <3>2 DEF MayPrecede, On
  <2>5. read'[e][k] = read[e][k] \/ (OnPSH(e) /\ rcv[e].sid = k)
    BY <2>1, WhoReads, OnPSHReads
  <2>. QED
    BY <2>3, <2>4, <2>5
<1>5. f.cmd = "FIN" => strm'[p][k] \in {"unmap", "dead"}
  <2> SUFFICES ASSUME f.cmd = "FIN" PROVE strm'[p][k] \in {"unmap", "dead"}
    OBVIOUS
  <2>1. strm[p][k] \in {"unmap", "dead"} /\ k \in Sids
    BY <1>1, <1>2 DEF Fits, StreamCmds
  <2>. QED
    BY <1>0, <2>1, StageMoves DEF StageMove
<1>6. e = "client" /\ k # 0 => sent'["client"][k] > 0
  <2> SUFFICES ASSUME e = "client", k # 0 PROVE sent'["client"][k] > 0
    OBVIOUS
  <2>1. sent["client"][k] > 0 /\ k \in Sids
    BY <1>1, <1>2 DEF Fits
  <2>. QED
    BY <1>0, <2>1, FinishWriteSends, SMTT(60) DEF TypeOK
<1>7. e = "server" /\ f.cmd = "SYN" =>
        strm'["server"][k] = "none" /\ user'[k] \notin {"idle", "syn"}
  <2> SUFFICES ASSUME e = "server", f.cmd = "SYN"
               PROVE  strm'["server"][k] = "none" /\ user'[k] \notin {"idle", "syn"}
    OBVIOUS
  <2>1. strm["server"][k] = "none" /\ user[k] \notin {"idle", "syn"} /\ k \in Sids
    BY <1>1, <1>2 DEF Fits, StreamCmds
  <2>2. ~(OnSYN /\ rcv["server"].sid = k)
    BY <1>3 DEF OnSYN, RecvStep, On, ReadFrame, MayPrecede
  <2>3. strm'["server"][k] = "none"
    BY <2>1, <2>2, StageMoves DEF StageMove
  <2>. QED
    BY <2>1, <2>3, UserMoves DEF UserMove
<1>8. e = "server" /\ f.cmd = "Settings" => ~settled'["server"]
  <2> SUFFICES ASSUME e = "server", f.cmd = "Settings" PROVE ~settled'["server"]
    OBVIOUS
  <2>1. ~settled["server"]
    BY <1>1 DEF Fits
  <2>2. ~OnSettings
    BY <1>3 DEF OnSettings, RecvStep, On, ReadFrame, MayPrecede
  <2>3. settled' = settled \/ OnServerSettings
    BY <2>2 DEF Next, RecvStep, StreamStep, ReadFrame, ReadFails, OnPSH, OnPSHDrop, OnFIN,
           CloseFINed, OnSYN,
       OnSYNACK, CloseStreams, StartWrite, FinishWrite, SendFIN, Unmap,
       OpenStream, SendSYN, Register, UserCloses, Answer, HandlerReturns, LinkFails, WatchdogFires
  <2>. QED
    BY <1>0, <2>1, <2>3 DEF OnServerSettings, TypeOK
<1>. QED
  BY <1>4, <1>5, <1>6, <1>7, <1>8 DEF Fits

\* A frame is true when it is put on its way.
LEMMA NewFrameFits ==
    ASSUME LinkInv, Next, NEW e \in Ends, NEW f \in Frames, NewFrame(Peer(e), f)
    PROVE  Fits(e, f)'
<1> DEFINE p == Peer(e)
<1>0. TypeOK /\ TypeOK' /\ StageInv /\ ReadInv /\ ReadInv' /\ p \in Ends
      /\ (p = "client" <=> e = "server")
  BY TypeStep, ReadStep DEF LinkInv, Ends, Peer
<1>1. ASSUME NEW k \in Sids, FinishWrite(p, k), f = Frame("PSH", k, sent[p][k] + 1),
             sent' = [sent EXCEPT ![p][k] = @ + 1]
      PROVE  Fits(e, f)'
  <2>1. sent'[p][k] = sent[p][k] + 1 /\ sent[p][k] \in Nat
    BY <1>0, <1>1 DEF TypeOK
  <2>2. read' = read /\ Len(read[e][k]) <= sent[p][k] /\ Len(read[e][k]) \in Nat
    BY <1>0, <1>1 DEF FinishWrite, ReadInv, TypeOK
  <2>3. e = "client" => sent'["client"][k] > 0
    <3> SUFFICES ASSUME e = "client" PROVE sent'["client"][k] > 0
      OBVIOUS
    <3>1. p = "server" /\ << "server", k >> \in writing
      BY <1>0, <1>1 DEF FinishWrite, Ends
    <3>2. sent["client"][k] > 0
      BY <1>0, <3>1 DEF StageInv
    <3>3. sent'["client"][k] = sent["client"][k]
      BY <1>0, <1>1, <3>1 DEF TypeOK, Ends
    <3>. QED
      BY <3>2, <3>3
  <2>. QED
    BY <1>1, <2>1, <2>2, <2>3 DEF Fits, Frame
<1>2. ASSUME NEW k \in Sids, SendFIN(p, k), ~IsClosed(p), f = Frame("FIN", k, sent[p][k])
      PROVE  Fits(e, f)'
  <2>1. sent' = sent /\ read' = read /\ strm[p][k] = "fin" /\ strm'[p][k] = "unmap"
    BY <1>0, <1>2 DEF SendFIN, dataVars, TypeOK
  <2>2. Len(read[e][k]) <= sent[p][k] /\ sent[p][k] \in Nat
    BY <1>0 DEF ReadInv, TypeOK
  <2>3. e = "client" => sent["client"][k] > 0
    BY <1>0, <2>1 DEF StageInv, Ends
  <2>. QED
    BY <1>2, <2>1, <2>2, <2>3 DEF Fits, Frame
<1>3. ASSUME p = "client", NEW k \in Sids, SendSYN(k), f = Frame("SYN", k, 0)
      PROVE  Fits(e, f)'
  <2>1. user[k] = "syn" /\ strm' = strm /\ strm["server"][k] = "none"
    BY <1>0, <1>3 DEF SendSYN, StageInv, streamVars
  <2>2. user'[k] \notin {"idle", "syn"}
    BY <1>0, <1>3 DEF SendSYN, UserGoto, TypeOK
  <2>. QED
    BY <1>0, <1>3, <2>1, <2>2 DEF Fits, Frame
<1>4. CASE p = "server" /\ f = Frame("ServerSettings", 0, 0)
  BY <1>0, <1>4 DEF Fits, Frame
<1>5. ASSUME p = "server", NEW k \in Sids, Answer(k),
             f \in {Frame("SYNACK", k, 0), Frame("Refuse", k, 0)}
      PROVE  Fits(e, f)'
  <2>1. sent' = sent /\ sent["client"][k] > 0
    BY <1>0, <1>5 DEF Answer, dataVars, StageInv
  <2>. QED
    BY <1>0, <1>5, <2>1 DEF Fits, Frame
<1>. QED
  BY <1>1, <1>2, <1>3, <1>4, <1>5 DEF NewFrame

\* A mark, for which the closing of a stream is all there is to say.
LEMMA MarksFit ==
    ASSUME LinkInv, Next, NEW e \in Ends, NEW f \in Marks, f \in Wire(e)'
    PROVE  Fits(e, f)' /\ \A g : MayPrecede(f, g)
<1>0. TypeOK /\ TypeOK'
  BY TypeStep DEF LinkInv
<1>1. f.cmd \notin {"PSH", "FIN", "SYN", "Settings"} /\ (f.cmd # "closing" => f.sid = 0)
  BY DEF Marks, LoopStates
<1>2. e = "client" /\ f.cmd = "closing" => sent'["client"][f.sid] > 0
  <2> SUFFICES ASSUME e = "client", f.cmd = "closing" PROVE sent'["client"][f.sid] > 0
    OBVIOUS
  <2>1. f = rcv'[e]
    BY <1>0, RestTypePrime DEF Wire, Frames, SessionCmds, StreamCmds
  <2>2. rcv'[e].sid = rcv[e].sid /\ rcv[e].sid \in Sids
    BY <2>1, ClosingCame
  <2>3. sent["client"][f.sid] > 0
    BY <2>1, <2>2, HeadFacts DEF NoEarlyReply, Sids
  <2>4. StageInv /\ "client" \in Ends /\ f.sid \in Sids
    BY <2>1, <2>2 DEF LinkInv, Ends
  <2>. QED
    BY <1>0, <2>3, <2>4, FinishWriteSends, SMTT(60) DEF TypeOK
<1>. QED
  BY <1>1, <1>2 DEF Fits, MayPrecede

LEMMA WireStep ==
    ASSUME LinkInv, Next
    PROVE  WireInv'
<1> SUFFICES ASSUME NEW e \in Ends
             PROVE  /\ Ordered(Rest(e))'
                    /\ \A f \in Behind(e)' : MayPrecede(rcv'[e], f)
                    /\ \A f \in Wire(e)' : Fits(e, f)'
  BY DEF WireInv
<1>0. TypeOK /\ BufferInv
  BY DEF LinkInv
<1>1. Ordered(Rest(e)) /\ \A f \in Behind(e) : MayPrecede(rcv[e], f)
  BY DEF LinkInv, WireInv
<1>2. ASSUME NEW f \in Marks, f \in Wire(e)' PROVE Fits(e, f)' /\ \A g : MayPrecede(f, g)
  BY <1>2, MarksFit
<1>3. ASSUME Wire(e)' \subseteq Wire(e) \cup Marks
      PROVE  \A f \in Wire(e)' : Fits(e, f)'
  BY <1>2, <1>3, FitsStays
<1>4. CASE rcv'[e] = rcv[e] /\ Keeps(e)
  <2>1. Behind(e)' = Behind(e) /\ Wire(e)' = Wire(e)
    BY <1>4 DEF Keeps, Behind, Wire
  <2>. QED
    BY <1>1, <1>3, <1>4, <2>1 DEF Keeps
<1>5. ASSUME rcv'[e] = rcv[e], NEW f \in Frames, NewFrame(Peer(e), f), Gains(e, f)
      PROVE  /\ Ordered(Rest(e))'
             /\ \A g \in Behind(e)' : MayPrecede(rcv'[e], g)
             /\ \A g \in Wire(e)' : Fits(e, g)'
  <2>1. \A g \in Wire(e) : MayPrecede(g, f)
    BY <1>5, NewFrameLast
  <2>2. Behind(e)' = Behind(e) \cup {f} /\ Wire(e)' = Wire(e) \cup {f}
    BY <1>5 DEF Gains, Wire
  <2>3. Ordered(Rest(e))'
    BY <1>1, <1>5, <2>1 DEF Gains, Wire
  <2>4. \A g \in Behind(e)' : MayPrecede(rcv'[e], g)
    BY <1>1, <1>5, <2>1, <2>2 DEF Wire
  <2>5. ASSUME NEW g \in Wire(e)' PROVE Fits(e, g)'
    <3>1. CASE g = f
      BY <1>5, <3>1, NewFrameFits
    <3>2. CASE g \in Wire(e)
      BY <1>2, <3>2, FitsStays
    <3>. QED
      BY <2>2, <2>5, <3>1, <3>2
  <2>. QED
    BY <2>3, <2>4, <2>5
<1>6. CASE rcv'[e] = rcv[e] /\ Loses(e)
  <2>1. Behind(e)' = {} /\ Wire(e)' = {rcv[e]} /\ Ordered(Rest(e))'
    BY <1>6 DEF Loses, Wire
  <2>. QED
    BY <1>3, <2>1 DEF Wire
<1>7. CASE ReadFrame(e)
  <2>1. /\ Behind(e) = {rcv'[e]} \cup Behind(e)'
        /\ Ordered(Rest(e))' /\ \A g \in Behind(e)' : MayPrecede(rcv'[e], g)
    BY <1>0, <1>1, <1>7, ReadFrameTakes
  <2>2. Wire(e)' \subseteq Wire(e)
    BY <2>1 DEF Wire
  <2>. QED
    BY <1>3, <2>1, <2>2
<1>8. CASE Acts(e) /\ Keeps(e)
  <2>1. Behind(e)' = Behind(e) /\ rcv'[e] \in Marks /\ Ordered(Rest(e))'
    BY <1>1, <1>8 DEF Keeps, Behind, Acts
  <2>2. Wire(e)' \subseteq Wire(e) \cup Marks
    BY <2>1 DEF Wire
  <2>. QED
    BY <1>2, <1>3, <2>1, <2>2 DEF Wire
<1>. QED
  BY <1>4, <1>5, <1>6, <1>7, <1>8, QueueMoves DEF QueueMove

LEMMA HeadStep ==
    ASSUME LinkInv, Next
    PROVE  HeadInv'
<1> SUFFICES ASSUME NEW e \in Ends, NEW k \in Sids, strm'[e][k] = "open", rcv'[e].sid = k,
                    rcv'[e].cmd \in {"PSH", "FIN", "closing"}
             PROVE  /\ rcv'[e].cmd = "PSH" => rcv'[e].n = Len(read'[e][k]) + 1
                    /\ rcv'[e].cmd \in {"FIN", "closing"} => rcv'[e].n = Len(read'[e][k])
  BY DEF HeadInv, On
<1>0. TypeOK /\ BufferInv /\ StageInv
  BY DEF LinkInv
<1>1. RecvStep(e) => ReadFrame(e) \/ OnFIN(e)
  <2>1. rcv'[e].cmd # "closing" => ~Acts(e)
    BY DEF Acts, Marks, LoopStates
  <2>. QED
    BY <2>1, ActsKeeps, ClosingCame
<1>2. ReadFrame(e) => rcv'[e].cmd # "closing"
  BY <1>0, ReadFrameTakes DEF Frames, SessionCmds, StreamCmds
<1>3. read'[e][k] = read[e][k]
  <2>1. ~OnPSH(e)
    BY <1>1 DEF RecvStep, OnPSH, On, ReadFrame, OnFIN
  <2>. QED
    BY <2>1, WhoReads, OnPSHReads
<1>6. CASE OnFIN(e)
  <2>1. rcv'[e].cmd # "PSH" /\ rcv'[e].cmd # "FIN"
    BY <1>0, <1>6 DEF OnFIN, NextRound, Stop, Closing, Frame, TypeOK
  <2>2. rcv'[e] = Frame("closing", rcv[e].sid, rcv[e].n)
    BY <1>6, <2>1, ClosingCame DEF RecvStep
  <2>3. strm[e][k] = "open" /\ On(e, "FIN") /\ rcv[e].sid = k
    BY <1>6, <2>2 DEF OnFIN, Frame
  <2>4. rcv[e].n = Len(read[e][k])
    BY <2>3 DEF LinkInv, HeadInv
  <2>. QED
    BY <1>3, <2>2, <2>4 DEF Frame
<1>4. CASE ReadFrame(e)
  <2>1. /\ Behind(e) = {rcv'[e]} \cup Behind(e)' /\ Reachable(e)
        /\ \A g \in Behind(e)' : MayPrecede(rcv'[e], g)
    BY <1>0, <1>4, ReadFrameTakes DEF LinkInv, WireInv
  <2>2. rcv[e].cmd = "reading" /\ strm[e][k] = "open"
    BY <1>4 DEF ReadFrame, streamVars
  <2>3. /\ rcv'[e] \in Wire(e) /\ Fits(e, rcv'[e])
    BY <2>1 DEF Wire, LinkInv, WireInv
  <2>4. Len(read[e][k]) \in Nat /\ sent[Peer(e)][k] \in Nat /\ rcv'[e].n \in Nat
    <3>1. Peer(e) \in Ends
      BY EndFacts
    <3>2. rcv'[e].n \in Nat
      BY <1>0, <2>3, WireType
    <3>. QED
      BY <1>0, <3>1, <3>2 DEF TypeOK
  <2>5. \A m \in Len(read[e][k]) + 1 .. sent[Peer(e)][k] : Frame("PSH", k, m) \in Wire(e)
    BY <2>1, <2>2 DEF LinkInv, DueInv
  <2>6. ASSUME Len(read[e][k]) + 1 <= sent[Peer(e)][k],
               rcv'[e] # Frame("PSH", k, Len(read[e][k]) + 1)
        PROVE  rcv'[e].n < Len(read[e][k]) + 1
    <3> DEFINE g == Frame("PSH", k, Len(read[e][k]) + 1)
    <3>1. g \in Wire(e)
      BY <2>4, <2>5, <2>6
    <3>2. g \in Behind(e)'
      BY <2>1, <2>2, <2>6, <3>1 DEF Wire, Frame
    <3>3. MayPrecede(rcv'[e], g)
      BY <2>1, <3>2
    <3>. QED
      BY <1>2, <1>4, <3>3 DEF MayPrecede, Frame
  <2>7. CASE rcv'[e].cmd = "PSH"
    <3>1. Len(read[e][k]) < rcv'[e].n /\ rcv'[e].n <= sent[Peer(e)][k]
      BY <2>3, <2>7 DEF Fits
    <3>2. rcv'[e] = Frame("PSH", k, Len(read[e][k]) + 1)
      BY <2>4, <2>6, <3>1
    <3>. QED
      BY <1>3, <2>7, <3>2 DEF Frame
  <2>8. CASE rcv'[e].cmd = "FIN"
    <3>1. Len(read[e][k]) <= rcv'[e].n /\ rcv'[e].n <= sent[Peer(e)][k]
      BY <2>3, <2>8 DEF Fits
    <3>2. rcv'[e] # Frame("PSH", k, Len(read[e][k]) + 1)
      BY <2>8 DEF Frame
    <3>3. rcv'[e].n = Len(read[e][k])
      BY <2>4, <2>6, <3>1, <3>2
    <3>. QED
      BY <1>3, <2>8, <3>3
  <2>. QED
    BY <1>2, <1>4, <2>7, <2>8
<1>5. CASE rcv'[e] = rcv[e]
  <2>1. CASE strm[e][k] = "open"
    BY <1>3, <1>5, <2>1 DEF LinkInv, HeadInv, On
  <2>2. CASE Register(k) /\ e = "client"
    <3>1. sent["client"][k] > 0
      BY <1>5, <2>2, HeadFacts DEF NoEarlyReply, Sids
    <3>2. sent["client"][k] = 0
      BY <1>0, <2>2 DEF Register, StageInv
    <3>. QED
      BY <3>1, <3>2
  <2>3. CASE OnSYN /\ e = "server"
    BY <1>1, <2>3 DEF OnSYN, RecvStep, ReadFrame, OnFIN, On
  <2>. QED
    BY <2>1, <2>2, <2>3, StageMoves DEF StageMove
<1>. QED
  BY <1>1, <1>4, <1>5, <1>6, QueueMoves DEF QueueMove, Acts

\* A frame stays on its way until the loop has acted on it.
LEMMA FrameStays ==
    ASSUME LinkInv, Next, NEW e \in Ends, NEW f \in Frames, f \in Wire(e)
    PROVE  \/ f \in Wire(e)'
           \/ RecvStep(e) /\ ~ReadFrame(e) /\ rcv[e] = f
           \/ ~Reachable(e)' /\ ~(e = "server" /\ buffering) /\ Wire(e)' = {rcv[e]}
<1>0. TypeOK /\ BufferInv
  BY DEF LinkInv
<1>1. CASE rcv'[e] = rcv[e] /\ Keeps(e)
  BY <1>1 DEF Keeps, Behind, Wire
<1>2. ASSUME rcv'[e] = rcv[e], NEW g \in Frames, Gains(e, g) PROVE f \in Wire(e)'
  BY <1>2 DEF Gains, Wire
<1>3. CASE rcv'[e] = rcv[e] /\ Loses(e) /\ ~Reachable(e)' /\ ~(e = "server" /\ buffering)
  BY <1>3 DEF Loses, Wire
<1>4. CASE ReadFrame(e)
  <2>1. Behind(e) = {rcv'[e]} \cup Behind(e)'
    BY <1>0, <1>4, ReadFrameTakes
  <2>2. f # rcv[e]
    BY <1>4 DEF ReadFrame, Frames, SessionCmds, StreamCmds
  <2>. QED
    BY <2>1, <2>2 DEF Wire
<1>5. CASE Acts(e) /\ Keeps(e)
  BY <1>5 DEF Keeps, Behind, Wire, Acts
<1>. QED
  BY <1>1, <1>2, <1>3, <1>4, <1>5, QueueMoves DEF QueueMove

\* A frame on its way was there before, or could be put there.
LEMMA FrameCame ==
    ASSUME LinkInv, Next, NEW e \in Ends, NEW f \in Wire(e)'
    PROVE  f \in Wire(e) \/ f \in Marks \/ Reachable(e) \/ (e = "server" /\ buffering)
<1>0. TypeOK /\ BufferInv
  BY DEF LinkInv
<1>1. CASE rcv'[e] = rcv[e] /\ Keeps(e)
  BY <1>1 DEF Keeps, Behind, Wire
<1>3. CASE rcv'[e] = rcv[e] /\ Loses(e)
  BY <1>3 DEF Loses, Wire
<1>4. CASE ReadFrame(e)
  BY <1>0, <1>4, ReadFrameTakes
<1>5. CASE Acts(e) /\ Keeps(e)
  BY <1>5 DEF Keeps, Behind, Wire, Acts
<1>. QED
  BY <1>1, <1>3, <1>4, <1>5, QueueMoves DEF QueueMove

LEMMA DueStep ==
    ASSUME LinkInv, Next
    PROVE  DueInv'
<1>0. /\ TypeOK /\ TypeOK' /\ BufferInv /\ StageInv /\ StageInv' /\ WireInv' /\ DueInv
      /\ "client" \in Ends /\ "server" \in Ends /\ Peer("server") = "client"
  BY TypeStep, StageStep, WireStep DEF LinkInv, Ends, Peer
<1>1. \A e \in Ends : Reachable(e)' => Reachable(e)
  BY LifeMoves DEF Reachable
<1>2. buffering' => buffering
  BY NetStep
<1>3. ASSUME ~settled'["server"],
             \/ Reachable("server")' \/ buffering' \/ \E f \in Wire("server")' : f.cmd = "SYN"
      PROVE  Frame("Settings", 0, 0) \in Wire("server")'
  <2> DEFINE s == Frame("Settings", 0, 0)
  <2>1. ~OnSettings /\ (settled' = settled \/ OnServerSettings)
    BY <1>0, <1>3, ZenonT(60)
    DEF OnSettings, TypeOK, Next, RecvStep, StreamStep, ReadFrame, ReadFails, OnPSH,
        OnPSHDrop, OnFIN,
               CloseFINed, OnSYN, OnSYNACK, CloseStreams, StartWrite, FinishWrite, SendFIN,
        Unmap, OpenStream, SendSYN, Register, UserCloses, Answer, HandlerReturns,
        LinkFails, WatchdogFires
  <2>2. ~settled["server"]
    BY <1>0, <1>3, <2>1 DEF OnServerSettings, TypeOK
  <2>3. s \in Wire("server")
    <3>1. CASE Reachable("server") \/ buffering
      BY <1>0, <2>2, <3>1 DEF DueInv
    <3>2. CASE ~(Reachable("server") \/ buffering)
      <4>1. PICK f \in Wire("server")' : f.cmd = "SYN"
        BY <1>0, <1>1, <1>2, <1>3, <3>2
      <4>2. f \in Wire("server")
        BY <1>0, <3>2, <4>1, FrameCame DEF Marks, LoopStates
      <4>. QED
        BY <1>0, <2>2, <4>1, <4>2 DEF DueInv
    <3>. QED
      BY <3>1, <3>2
  <2>4. s \in Frames
    BY DEF Frame, Frames, SessionCmds
  <2>5. ~(RecvStep("server") /\ ~ReadFrame("server") /\ rcv["server"] = s)
    BY <2>1 DEF RecvStep, ReadFails, OnPSH, OnPSHDrop, OnFIN, CloseFINed, OnSYN, OnSYNACK,
               OnServerSettings, On, Frame
  <2>6. CASE ~Reachable("server")' /\ ~buffering /\ Wire("server")' = {rcv["server"]}
    <3>1. On("server", "SYN")
      BY <1>2, <1>3, <2>6 DEF On
    <3>. QED
      BY <2>2, <3>1, HeadFacts DEF SettingsFirst
  <2>. QED
    BY <1>0, <2>3, <2>4, <2>5, <2>6, FrameStays
<1>4. ASSUME NEW k \in Sids, strm'["server"][k] = "none",
             \/ Reachable("server")' /\ (user'[k] = "register" \/ strm'["client"][k] # "none")
             \/ \E f \in Wire("server")' : f.sid = k /\ f.cmd \in {"PSH", "FIN"}
      PROVE  Frame("SYN", k, 0) \in Wire("server")'
  <2> DEFINE s == Frame("SYN", k, 0)
  <2>0. strm["server"][k] = "none" /\ s \in Frames
    BY <1>0, <1>4, StageMoves, FrameType DEF StageMove, StreamCmds
  <2>1. ASSUME NEW f \in Wire("server")', f.sid = k, f.cmd \in {"PSH", "FIN"}
        PROVE  strm'["client"][k] # "none"
    <3>1. Fits("server", f)'
      BY <1>0 DEF WireInv
    <3>2. CASE f.cmd = "FIN"
      BY <1>0, <2>1, <3>1, <3>2 DEF Fits
    <3>3. CASE f.cmd = "PSH"
      <4>1. Len(read'["server"][k]) < f.n /\ f.n <= sent'["client"][k]
        BY <1>0, <2>1, <3>1, <3>3 DEF Fits
      <4>2. Len(read'["server"][k]) \in Nat /\ sent'["client"][k] \in Nat /\ f.n \in Nat
        <5>1. Len(read'["server"][k]) \in Nat /\ sent'["client"][k] \in Nat
          BY <1>0 DEF TypeOK
        <5>2. f.n \in Nat
          BY <1>0, <2>1, WireNumbers
        <5>. QED
          BY <5>1, <5>2
      <4>3. sent'["client"][k] # 0
        BY <4>1, <4>2
      <4>. QED
        BY <1>0, <4>3 DEF StageInv
    <3>. QED
      BY <2>1, <3>2, <3>3
  <2>2. CASE user'[k] = "register" /\ user[k] # "register" /\ Reachable("server")'
    <3>1. Put("client", s)
      BY <2>2, UserMoves DEF UserMove
    <3>2. Gains("server", s)
      BY <1>0, <1>1, <2>0, <2>2, <3>1, PutSends DEF Peer
    <3>. QED
      BY <3>2 DEF Gains, Wire
  <2>3. CASE user[k] = "register" \/ strm["client"][k] # "none"
    <3>1. ~buffering
      BY <1>0, <2>3 DEF BufferInv
    <3>2. s \in Wire("server")
      <4>1. CASE Reachable("server")
        BY <1>0, <2>0, <2>3, <4>1 DEF DueInv
      <4>2. CASE ~Reachable("server")
        <5>1. PICK f \in Wire("server")' : f.sid = k /\ f.cmd \in {"PSH", "FIN"}
          BY <1>0, <1>1, <1>4, <4>2
        <5>2. f \in Wire("server")
          BY <1>0, <3>1, <4>2, <5>1, FrameCame DEF Marks, LoopStates
        <5>. QED
          BY <1>0, <2>0, <5>1, <5>2 DEF DueInv
      <4>. QED
        BY <4>1, <4>2
    <3>3. ~(RecvStep("server") /\ ~ReadFrame("server") /\ rcv["server"] = s)
      <4> SUFFICES ASSUME RecvStep("server"), ~ReadFrame("server"), rcv["server"] = s
                   PROVE  FALSE
        OBVIOUS
      <4>1. OnSYN /\ rcv["server"].sid = k
        BY DEF RecvStep, ReadFails, OnPSH, OnPSHDrop, OnFIN, CloseFINed, OnSettings, On, Frame
      <4>2. settled["server"]
        BY <4>1, HeadFacts DEF OnSYN, SettingsFirst
      <4>3. k \notin streams["server"]
        BY <1>0, <2>0 DEF StageInv
      <4>4. strm' = [strm EXCEPT !["server"][k] = "open"]
        BY <4>1, <4>2, <4>3 DEF OnSYN
      <4>. QED
        BY <1>0, <1>4, <4>4 DEF TypeOK
    <3>4. CASE ~Reachable("server")' /\ Wire("server")' = {rcv["server"]}
      <4>1. (On("server", "PSH") \/ On("server", "FIN")) /\ rcv["server"].sid = k
        BY <1>4, <3>4 DEF On
      <4>. QED
        BY <1>0, <2>0, <4>1, HeadFacts
    <3>. QED
      BY <1>0, <2>0, <3>2, <3>3, <3>4, FrameStays
  <2>4. strm'["client"][k] # "none" => strm["client"][k] # "none" \/ user[k] = "register"
    BY <1>0, StageMoves DEF StageMove, Register
  <2>. QED
    BY <1>4, <2>1, <2>2, <2>3, <2>4
<1>5. ASSUME NEW e \in Ends, NEW k \in Sids, Reachable(e)', strm'[e][k] \in {"none", "open"},
             NEW m \in Len(read'[e][k]) + 1 .. sent'[Peer(e)][k]
      PROVE  Frame("PSH", k, m) \in Wire(e)'
  <2> DEFINE f == Frame("PSH", k, m)  p == Peer(e)
  <2>1. p \in Ends /\ Peer(p) = e /\ Reachable(e)
    BY <1>1, <1>5, EndFacts
  <2>2. strm[e][k] \in {"none", "open"}
    BY <1>0, <1>5, StageMoves DEF StageMove, Stages, TypeOK
  <2>3. /\ Len(read[e][k]) \in Nat /\ Len(read'[e][k]) \in Nat
        /\ sent[p][k] \in Nat /\ sent'[p][k] \in Nat
    <3>1. Len(read[e][k]) \in Nat /\ Len(read'[e][k]) \in Nat
      <4>1. read[e][k] \in Seq(Nat) /\ read'[e][k] \in Seq(Nat)
        BY <1>0 DEF TypeOK
      <4>. QED
        BY <4>1
    <3>2. sent[p][k] \in Nat /\ sent'[p][k] \in Nat
      <4>1. sent \in [Ends -> [Sids -> Nat]] /\ sent' \in [Ends -> [Sids -> Nat]]
        BY <1>0 DEF TypeOK
      <4>. QED
        BY <2>1, <4>1
    <3>. QED
      BY <3>1, <3>2
  <2>4. m \in Nat /\ f \in Frames
    BY <2>3, FrameType DEF StreamCmds
  <2>5. Len(read[e][k]) <= Len(read'[e][k])
        /\ (OnPSH(e) /\ rcv[e].sid = k => Len(read'[e][k]) = rcv[e].n)
    BY <2>3, WhoReads, OnPSHReads
  <2>6. CASE m <= sent[p][k]
    <3>1. f \in Wire(e)
      <4>1. m \in Len(read[e][k]) + 1 .. sent[p][k]
        BY <2>3, <2>4, <2>5, <2>6
      <4>. QED
        BY <1>0, <2>1, <2>2, <4>1 DEF DueInv
    <3>2. ~(RecvStep(e) /\ ~ReadFrame(e) /\ rcv[e] = f)
      <4> SUFFICES ASSUME RecvStep(e), ~ReadFrame(e), rcv[e] = f
                   PROVE  FALSE
        OBVIOUS
      <4>1. On(e, "PSH") /\ rcv[e].sid = k /\ rcv[e].n = m
        BY DEF On, Frame
      <4>2. OnPSH(e) \/ OnPSHDrop(e)
        BY <4>1 DEF RecvStep, ReadFails, OnFIN, CloseFINed, OnSYN, OnSettings, OnSYNACK,
                    OnServerSettings, On
      <4>3. ~OnPSHDrop(e)
        BY <2>2, <4>1, HeadFacts DEF OnPSHDrop
      <4>4. Len(read'[e][k]) = m
        BY <2>5, <4>1, <4>2, <4>3
      <4>. QED
        BY <2>3, <2>4, <4>4
    <3>. QED
      BY <1>5, <2>4, <3>1, <3>2, FrameStays
  <2>7. CASE m > sent[p][k]
    <3>1. sent'[p][k] # sent[p][k]
      BY <2>3, <2>4, <2>7
    <3>2. /\ sent'[p][k] = sent[p][k] + 1
          /\ Gains(e, Frame("PSH", k, sent'[p][k]))
      BY <2>1, <3>1, SentMoves
    <3>3. m = sent'[p][k]
      BY <2>3, <2>4, <2>7, <3>2
    <3>. QED
      BY <3>2, <3>3 DEF Gains, Wire
  <2>. QED
    BY <2>3, <2>4, <2>6, <2>7
<1>. QED
  BY <1>3, <1>4, <1>5 DEF DueInv

(***************************************************************************)
(* The theorems                                                            *)
(***************************************************************************)
LEMMA InitLinkInv == Init => LinkInv
<1> SUFFICES ASSUME Init PROVE LinkInv
  OBVIOUS
<1> DEFINE s == Frame("Settings", 0, 0)
<1>0. /\ s \in Frames /\ Frame("reading", 0, 0) \in Marks
      /\ << s >> \in Seq(Frames) /\ << s >> # << >> /\ << >> \in Seq(Frames) /\ << >> \in Seq(Nat)
      /\ Len(<< s >>) = 1 /\ << s >>[1] = s /\ Len(<< >>) = 0
  BY DEF Frame, Frames, Marks, SessionCmds, LoopStates
<1>1. TypeOK
  BY <1>0, LinkAssumption DEF Init, TypeOK, MaxData, Stages, Ends, Sids, Peer
<1>2. Rest("client") = << >> /\ Rest("server") = << s >>
  BY <1>0, ConcatEmptySeq DEF Init, Rest, Ends
<1>3. Behind("client") = {} /\ Behind("server") = {s}
  <2>1. Range(<< s >>) = {<< s >>[i] : i \in 1 .. 1}
    BY <1>0, RangeEquality, ZenonT(60)
  <2>. QED
    BY <1>0, <1>2, <2>1, EmptyQueue DEF Behind
<1>4. Ordered(Rest("client")) /\ Ordered(Rest("server"))
  BY <1>0, <1>2 DEF Ordered
<1>5. BufferInv
  BY <1>0 DEF Init, BufferInv, Reachable, Ends
<1>6. StageInv
  BY DEF Init, StageInv, Ends
<1>7. WireInv
  BY <1>3, <1>4 DEF Init, WireInv, Wire, Fits, MayPrecede, Frame, Ends
<1>8. DueInv
  <2>1. s \in Wire("server")
    BY <1>3 DEF Wire
  <2>2. \A f \in Wire("server") : f.sid = 0
    BY <1>3 DEF Wire, Init, Frame, Ends
  <2>3. ASSUME NEW e \in Ends, NEW k \in Sids
        PROVE  Len(read[e][k]) + 1 .. sent[Peer(e)][k] = {}
    BY <1>0, EndFacts DEF Init
  <2>4. \A k \in Sids : user[k] = "idle" /\ strm["client"][k] = "none" /\ k # 0
    BY DEF Init, Ends, Sids
  <2>. QED
    BY <2>1, <2>2, <2>3, <2>4 DEF DueInv
<1>9. HeadInv /\ MapInv /\ ClientClosesAll
  BY DEF Init, HeadInv, MapInv, ClientClosesAll, ClosesAllStreams, Unlisted, On, Frame, Ends
<1>10. ReadInv
  BY <1>0, EndFacts DEF Init, ReadInv
<1>. QED
  BY <1>1, <1>5, <1>6, <1>7, <1>8, <1>9, <1>10 DEF LinkInv

LEMMA LinkInvStutter == LinkInv /\ UNCHANGED vars => LinkInv'
<1> SUFFICES ASSUME LinkInv, UNCHANGED vars PROVE LinkInv'
  OBVIOUS
<1> USE DEF LinkInv, vars
<1>1. \A e \in Ends : Rest(e)' = Rest(e) /\ Behind(e)' = Behind(e) /\ Wire(e)' = Wire(e)
  BY DEF Rest, Behind, Wire
<1>2. TypeOK' /\ BufferInv' /\ StageInv' /\ HeadInv' /\ ReadInv' /\ MapInv' /\ ClientClosesAll'
  BY DEF TypeOK, BufferInv, Reachable, StageInv, HeadInv, On, ReadInv, MapInv, IsClosed,
         ClientClosesAll, ClosesAllStreams, Unlisted
<1>3. WireInv'
  BY <1>1 DEF WireInv, Fits
<1>4. DueInv'
  BY <1>1 DEF DueInv, Reachable, Ends
<1>. QED
  BY <1>2, <1>3, <1>4

\* The inductive invariant of a link.
THEOREM LinkInvariant == Spec => []LinkInv
<1>1. LinkInv /\ [Next]_vars => LinkInv'
  BY LinkInvStutter, TypeStep, BufferStep, StageStep, WireStep, DueStep, HeadStep, ReadStep, MapStep
  DEF LinkInv
<1>. QED
  BY InitLinkInv, <1>1, PTL DEF Spec

\* However many streams there are, every variable of the link has its type.
THEOREM LinkTypeCorrect == Spec => []TypeOK
<1>1. LinkInv => TypeOK
  BY DEF LinkInv
<1>. QED
  BY <1>1, LinkInvariant, PTL

\* recvLoop of the server has seen cmdSettings before any cmdSYN, whatever ends
\* and whenever: the buffer keeps the two in one Write.
THEOREM SettingsComeFirst == Spec => []SettingsFirst
<1>1. LinkInv => SettingsFirst
  BY HeadFacts
<1>. QED
  BY <1>1, LinkInvariant, PTL

\* No frame comes back on a stream whose address was not written.
THEOREM RepliesComeAfter == Spec => []NoEarlyReply
<1>1. LinkInv => NoEarlyReply
  BY HeadFacts
<1>. QED
  BY <1>1, LinkInvariant, PTL

\* Session.streams holds the open streams of a session that lives, but for the
\* one that recvLoop has taken out for a FIN and closes next.
THEOREM MapStaysInStep == Spec => []MapInStep
<1>1. LinkInv => MapInStep
  BY DEF LinkInv, MapInv, MapInStep, IsClosed
<1>. QED
  BY <1>1, LinkInvariant, PTL

\* Session.Close leaves no stream of the client open but the one that recvLoop
\* is closing for a FIN.
THEOREM ClientCloseIsComplete == Spec => []ClientClosesAll
<1>1. LinkInv => ClientClosesAll
  BY DEF LinkInv
<1>. QED
  BY <1>1, LinkInvariant, PTL

\* A FIN that closes a stream comes after all that was written before it.
THEOREM FinTruncatesNothing == Spec => []FinDrains
<1>1. LinkInv => FinDrains
  BY HeadFacts DEF LinkInv, HeadInv, FinDrains
<1>. QED
  BY <1>1, LinkInvariant, PTL

LEMMA LinkInvFifo == LinkInv => StreamIsFifo
<1> SUFFICES ASSUME LinkInv, NEW e \in Ends, NEW k \in Sids
    PROVE /\ up /\ ~IsClosed(e) /\ strm[e][k] \in {"none", "open"} =>
               /\ InOrder(Coming(e), k)
               /\ Items(Coming(e), k) = Len(read[e][k]) + 1 .. sent[Peer(e)][k]
          /\ IsPrefix(read[e][k], Written(Peer(e), k))
  BY DEF StreamIsFifo
<1> DEFINE p == Peer(e)
<1>0. TypeOK /\ p \in Ends
  BY EndFacts DEF LinkInv
<1>1. /\ read[e][k] \in Seq(Nat) /\ Len(read[e][k]) \in Nat /\ sent[p][k] \in Nat
      /\ Len(read[e][k]) <= sent[p][k]
      /\ \A i \in 1 .. Len(read[e][k]) : read[e][k][i] = i
  BY <1>0 DEF LinkInv, TypeOK, ReadInv
<1>2. IsPrefix(read[e][k], Written(p, k))
  <2>1. Written(p, k) \in Seq(Nat) /\ Len(Written(p, k)) = sent[p][k]
    BY <1>1 DEF Written
  <2>2. \A i \in 1 .. Len(read[e][k]) : Written(p, k)[i] = i
    BY <1>1 DEF Written
  <2>3. SubSeq(read[e][k], 1, Len(read[e][k])) = SubSeq(Written(p, k), 1, Len(read[e][k]))
    <3> DEFINE r == SubSeq(read[e][k], 1, Len(read[e][k]))
               w == SubSeq(Written(p, k), 1, Len(read[e][k]))
    <3>1. /\ r \in Seq(Nat) /\ Len(r) = Len(read[e][k])
          /\ \A i \in 1 .. Len(read[e][k]) : r[i] = i
      BY <1>1, SubSeqFull
    <3>2. \A i \in 1 .. Len(read[e][k]) : Written(p, k)[i] \in Nat
      BY <2>2
    <3>3. /\ w \in Seq(Nat) /\ Len(w) = Len(read[e][k])
          /\ \A i \in 1 .. Len(read[e][k]) : w[i] = i
      BY <1>1, <2>2, <3>2, SubSeqProperties
    <3> HIDE DEF r, w
    <3>. QED
      <4>1. r \in Seq(Nat) /\ w \in Seq(Nat) /\ Len(r) = Len(w)
        BY <3>1, <3>3
      <4>2. \A i \in 1 .. Len(r) : r[i] = w[i]
        BY <3>1, <3>3
      <4>3. r = w
        BY <4>1, <4>2, SeqEqual
      <4>. QED
        BY <4>3 DEF r, w
  <2>. QED
    BY <1>1, <2>1, <2>3 DEF IsPrefix
<1>3. ASSUME up, ~IsClosed(e), strm[e][k] \in {"none", "open"}
      PROVE  /\ InOrder(Coming(e), k)
             /\ Items(Coming(e), k) = Len(read[e][k]) + 1 .. sent[p][k]
  <2>1. Rest(e) \in Seq(Frames) /\ rcv[e] \in Message
    BY <1>0, RestType, WireType
  <2>2. InOrder(Coming(e), k) /\ Range(Coming(e)) = Wire(e)
    BY <2>1, QueueInOrder DEF LinkInv, WireInv, Coming, Wire, Behind
  <2>3. ASSUME NEW n \in Items(Coming(e), k)
        PROVE  n \in Len(read[e][k]) + 1 .. sent[p][k]
    <3>1. PICK f \in Wire(e) : f.cmd = "PSH" /\ f.sid = k /\ n = f.n
      BY <2>2, <2>3 DEF Items, Carries
    <3>2. f.n \in Nat /\ Len(read[e][k]) < f.n /\ f.n <= sent[p][k]
      BY <1>0, <3>1, WireType DEF LinkInv, WireInv, Fits
    <3>. QED
      BY <1>1, <3>1, <3>2
  <2>4. ASSUME NEW n \in Len(read[e][k]) + 1 .. sent[p][k]
        PROVE  n \in Items(Coming(e), k)
    <3>1. Reachable(e)
      BY <1>3 DEF Reachable, IsClosed
    <3>2. Frame("PSH", k, n) \in Wire(e)
      BY <1>3, <3>1 DEF LinkInv, DueInv
    <3>. QED
      BY <2>2, <3>2 DEF Items, Carries, Frame
  <2>. QED
    BY <2>2, <2>3, <2>4
<1>. QED
  BY <1>2, <1>3

\* What is read from a stream is what was written to it, in order and without a
\* gap, for any number of streams and items, and however the session ends.
THEOREM StreamsAreFifo == Spec => []StreamIsFifo
BY LinkInvariant, LinkInvFifo, PTL
==============================================================================
