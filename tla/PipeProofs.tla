------------------------------ MODULE PipeProofs ------------------------------
(***************************************************************************)
(* The pipe for any number of goroutines that write and read it, any       *)
(* writes, any sizes of buffers, and any use of the deadline.              *)
(*                                                                         *)
(* The inductive invariant falls into the way of the bytes (wrMu, the two  *)
(* channels, the copies) and the deadline; every action moves one of them  *)
(* and leaves the other alone, but for the channel that a Read looks at.   *)
(***************************************************************************)
EXTENDS Pipe, TLAPS, SequenceTheorems

DataInv ==
    /\ PipeTypeOK /\ OneInside /\ PipeExact /\ CopyInsideWrite

TimerInv == PipeTypeOK /\ DeadlineHonest /\ TimerInStep

\* What is copied and what is left of a write make up the write.
LEMMA CopyAndRest ==
    ASSUME NEW s \in Bytes, NEW n \in 0 .. Len(s)
    PROVE  /\ SubSeq(s, 1, n) \in Bytes /\ SubSeq(s, n + 1, Len(s)) \in Bytes
           /\ SubSeq(s, 1, n) \o SubSeq(s, n + 1, Len(s)) = s
<1>1. Len(s) \in Nat /\ s \in [1 .. Len(s) -> Nat]
  BY DEF Bytes
<1>2. SubSeq(s, 1, n) \in Seq(Nat) /\ SubSeq(s, n + 1, Len(s)) \in Seq(Nat)
  BY <1>1, SubSeqProperties
<1>3. SubSeq(s, 1, n) \o SubSeq(s, n + 1, Len(s)) = SubSeq(s, 1, Len(s))
  <2>1. 1 \in 1 .. Len(s) + 1 /\ n \in 1 - 1 .. Len(s) /\ Len(s) \in n .. Len(s)
    BY <1>1
  <2>. QED
    BY <2>1, ConcatAdjacentSubSeq DEF Bytes
<1>. QED
  BY <1>2, <1>3, SubSeqFull DEF Bytes

\* Without the part that follows, what was there before is left.
LEMMA TakeBack ==
    ASSUME NEW s \in Bytes, NEW t \in Bytes
    PROVE  SubSeq(s \o t, 1, Len(s \o t) - Len(t)) = s
<1>1. Len(s \o t) - Len(t) = Len(s) /\ Len(s) \in Nat
  BY DEF Bytes
<1>2. CASE Len(s) = 0
  BY <1>1, <1>2, EmptySeq DEF Bytes
<1>3. CASE Len(s) > 0
  BY <1>1, <1>3, SubSeqOfConcat1, SubSeqFull DEF Bytes
<1>. QED
  BY <1>1, <1>2, <1>3

LEMMA Regroup ==
    ASSUME NEW a \in Bytes, NEW b \in Bytes, NEW c \in Bytes
    PROVE  a \o (b \o c) = (a \o b) \o c /\ a \o b \in Bytes
BY ConcatAssociative, ConcatProperties, SMTT(60) DEF Bytes

LEMMA PipeInitInv == PipeInit => PipeIInv
<1> SUFFICES ASSUME PipeInit PROVE PipeIInv
  OBVIOUS
<1>1. PipeTypeOK
  BY EmptySeq DEF PipeInit, PipeTypeOK, Bytes
<1>2. OneInside /\ PipeExact /\ CopyInsideWrite
  BY DEF PipeInit, OneInside, PipeExact, CopyInsideWrite, Inside
<1>3. DeadlineHonest /\ TimerInStep
  BY DEF PipeInit, DeadlineHonest, TimerInStep
<1>. QED
  BY <1>1, <1>2, <1>3 DEF PipeIInv

LEMMA TypeInv == PipeTypeOK /\ [PipeNext]_pipeVars => PipeTypeOK'
<1> SUFFICES ASSUME PipeTypeOK, [PipeNext]_pipeVars PROVE PipeTypeOK'
  OBVIOUS
<1> USE PipeAssumption DEF PipeTypeOK, dataVars, timerVars
<1>1. ASSUME NEW w \in Writers, NEW b \in Writes, StartWrite(w, b) PROVE PipeTypeOK'
  BY <1>1 DEF StartWrite, Bytes
<1>2. ASSUME NEW w \in Writers, LockWrites(w) PROVE PipeTypeOK'
  BY <1>2, ConcatProperties DEF LockWrites, Bytes
<1>3. ASSUME NEW w \in Writers, WriteFails(w) PROVE PipeTypeOK'
  <2>1. /\ Len(accepted) \in Nat /\ Len(left[w]) \in Nat
        /\ \A i \in 1 .. Len(accepted) - Len(left[w]) : accepted[i] \in Nat
    BY DEF Bytes
  <2>2. SubSeq(accepted, 1, Len(accepted) - Len(left[w])) \in Bytes
    BY <2>1, SubSeqProperties DEF Bytes
  <2>. QED
    BY <1>3, <2>2 DEF WriteFails, Bytes
<1>4. ASSUME NEW r \in Readers, NEW n \in ReadSizes, StartRead(r, n) PROVE PipeTypeOK'
  BY <1>4 DEF StartRead
<1>5. ASSUME NEW r \in Readers, EnterSelect(r) PROVE PipeTypeOK'
  BY <1>5 DEF EnterSelect
<1>6. ASSUME NEW r \in Readers, ReadEnds(r) PROVE PipeTypeOK'
  BY <1>6 DEF ReadEnds
<1>7. ASSUME NEW w \in Writers, NEW r \in Readers, Meet(w, r) PROVE PipeTypeOK'
  BY <1>7 DEF Meet
<1>8. ASSUME NEW w \in Writers, NEW r \in Readers, Transfer(w, r) PROVE PipeTypeOK'
  <2>1. left[w] \in Bytes /\ want[r] \in Nat /\ Copied(w, r) \in 0 .. Len(left[w])
    BY DEF Copied, Bytes
  <2>2. SubSeq(left[w], 1, Copied(w, r)) \in Bytes /\ Rest(w, Copied(w, r)) \in Bytes
    BY <2>1, CopyAndRest DEF Rest
  <2>3. taken' \in Bytes
    BY <1>8, <2>2, ConcatProperties DEF Transfer, Bytes
  <2>. QED
    BY <1>8, <2>2, <2>3 DEF Transfer
<1>9. ASSUME NEW t \in {"none", "future", "past"}, SetReadDeadline(t) PROVE PipeTypeOK'
  BY <1>9 DEF SetReadDeadline
<1>10. CASE CloseRead
  BY <1>10 DEF CloseRead
<1>11. CASE TimerFires
  BY <1>11 DEF TimerFires
<1>12. CASE Callback
  BY <1>12 DEF Callback
<1>13. CASE UNCHANGED pipeVars
  BY <1>13 DEF pipeVars
<1>. QED
  BY <1>1, <1>2, <1>3, <1>4, <1>5, <1>6, <1>7, <1>8, <1>9, <1>10, <1>11, <1>12, <1>13
     DEF PipeNext

LEMMA DataStep == DataInv /\ [PipeNext]_pipeVars => DataInv'
<1> SUFFICES ASSUME DataInv, [PipeNext]_pipeVars PROVE DataInv'
  OBVIOUS
<1>0. PipeTypeOK'
  BY TypeInv DEF DataInv
<1> DEFINE Goal == OneInside' /\ PipeExact' /\ CopyInsideWrite'
<1> SUFFICES Goal
  BY <1>0 DEF DataInv
<1>1. ASSUME NEW w \in Writers, NEW b \in Writes, StartWrite(w, b) PROVE Goal
  <2>1. CASE done
    BY <1>1, <2>1 DEF DataInv, StartWrite, OneInside, PipeExact, CopyInsideWrite, Inside
  <2>2. CASE ~done
    <3>1. \A v \in Writers : /\ wr'[v] = wr[v] \/ {wr[v], wr'[v]} = {"idle", "lock"}
                             /\ wr[v] # "idle" => left'[v] = left[v]
      BY <1>1, <2>2 DEF DataInv, PipeTypeOK, StartWrite, Inside
    <3>2. UNCHANGED << accepted, taken, rd >>
      BY <1>1 DEF StartWrite
    <3>3. OneInside'
      BY <3>1 DEF DataInv, OneInside, Inside
    <3>4. PipeExact'
      BY <3>1, <3>2 DEF DataInv, PipeExact, Inside
    <3>5. CopyInsideWrite'
      BY <3>1, <3>2 DEF DataInv, CopyInsideWrite, Inside
    <3>. QED
      BY <3>3, <3>4, <3>5
  <2>. QED
    BY <2>1, <2>2
<1>2. ASSUME NEW w \in Writers, LockWrites(w) PROVE Goal
  BY <1>2 DEF DataInv, PipeTypeOK, LockWrites, OneInside, PipeExact, CopyInsideWrite, Inside
<1>3. ASSUME NEW w \in Writers, WriteFails(w) PROVE Goal
  <2>1. accepted = taken \o left[w] /\ taken \in Bytes /\ left[w] \in Bytes
    BY <1>3 DEF DataInv, PipeTypeOK, PipeExact, WriteFails, Inside
  <2>2. accepted' = taken
    BY <1>3, <2>1, TakeBack DEF WriteFails
  <2>3. \A v \in Writers : ~Inside(v)'
    BY <1>3 DEF DataInv, PipeTypeOK, WriteFails, OneInside, Inside
  <2>4. CopyInsideWrite'
    BY <1>3 DEF DataInv, PipeTypeOK, WriteFails, CopyInsideWrite
  <2>. QED
    BY <1>3, <2>2, <2>3, <2>4 DEF WriteFails, OneInside, PipeExact
<1>4. ASSUME NEW r \in Readers, NEW n \in ReadSizes, StartRead(r, n) PROVE Goal
  <2>1. \A q \in Readers : rd'[q] = "copy" <=> rd[q] = "copy"
    BY <1>4 DEF DataInv, PipeTypeOK, StartRead
  <2>. QED
    BY <1>4, <2>1 DEF DataInv, StartRead, OneInside, PipeExact, CopyInsideWrite, Inside
<1>5. ASSUME NEW r \in Readers, EnterSelect(r) PROVE Goal
  BY <1>5 DEF DataInv, PipeTypeOK, EnterSelect, OneInside, PipeExact, CopyInsideWrite, Inside
<1>6. ASSUME NEW r \in Readers, ReadEnds(r) PROVE Goal
  BY <1>6 DEF DataInv, PipeTypeOK, ReadEnds, OneInside, PipeExact, CopyInsideWrite, Inside
<1>7. ASSUME NEW w \in Writers, NEW r \in Readers, Meet(w, r) PROVE Goal
  <2>1. \A q \in Readers : rd[q] # "copy"
    BY <1>7 DEF DataInv, Meet, OneInside, CopyInsideWrite, Inside
  <2>. QED
    BY <1>7, <2>1 DEF DataInv, PipeTypeOK, Meet, OneInside, PipeExact, CopyInsideWrite, Inside
<1>8. ASSUME NEW w \in Writers, NEW r \in Readers, Transfer(w, r) PROVE Goal
  <2> DEFINE n == Copied(w, r)
             part == SubSeq(left[w], 1, n)
  <2>1. taken \in Bytes /\ left[w] \in Bytes /\ want[r] \in Nat /\ n \in 0 .. Len(left[w])
    BY DEF DataInv, PipeTypeOK, Copied, Bytes
  <2>2. part \in Bytes /\ Rest(w, n) \in Bytes /\ part \o Rest(w, n) = left[w]
    BY <2>1, CopyAndRest DEF Rest
  <2>3. accepted = taken \o left[w]
    BY <1>8 DEF DataInv, PipeExact, Transfer, Inside
  <2>4. accepted' = taken' \o left'[w] /\ left'[w] = Rest(w, n) /\ taken' \in Bytes
    <3>1. accepted' = accepted /\ taken' = taken \o part /\ left'[w] = Rest(w, n)
      BY <1>8 DEF Transfer, DataInv, PipeTypeOK
    <3>2. /\ taken \o (part \o Rest(w, n)) = (taken \o part) \o Rest(w, n)
          /\ taken \o part \in Bytes
      BY <2>1, <2>2, Regroup
    <3>. QED
      BY <2>2, <2>3, <3>1, <3>2
  <2>5. \A v \in Writers : v # w => ~Inside(v)'
    BY <1>8 DEF DataInv, PipeTypeOK, Transfer, OneInside, Inside
  <2>6. ~Inside(w)' => left'[w] = << >>
    BY <1>8 DEF DataInv, PipeTypeOK, Transfer, Inside
  <2>7. PipeExact'
    <3>1. CASE Inside(w)'
      BY <2>4, <2>5, <3>1 DEF PipeExact
    <3>2. CASE ~Inside(w)'
      BY <2>4, <2>5, <2>6, <3>2, ConcatEmptySeq DEF PipeExact, Bytes
    <3>. QED
      BY <3>1, <3>2
  <2>8. CopyInsideWrite'
    BY <1>8 DEF DataInv, PipeTypeOK, Transfer, CopyInsideWrite
  <2>. QED
    BY <2>5, <2>7, <2>8 DEF OneInside
<1>9. CASE UNCHANGED dataVars
  BY <1>9 DEF DataInv, dataVars, OneInside, PipeExact, CopyInsideWrite, Inside
<1>10. CASE CloseRead
  BY <1>10 DEF CloseRead, DataInv, OneInside, PipeExact, CopyInsideWrite, Inside
<1>. QED
  BY <1>1, <1>2, <1>3, <1>4, <1>5, <1>6, <1>7, <1>8, <1>9, <1>10
     DEF PipeNext, pipeVars, SetReadDeadline, TimerFires, Callback

LEMMA TimerStep == TimerInv /\ [PipeNext]_pipeVars => TimerInv'
<1> SUFFICES ASSUME TimerInv, [PipeNext]_pipeVars PROVE TimerInv'
  OBVIOUS
<1>0. PipeTypeOK'
  BY TypeInv DEF TimerInv
<1> DEFINE Goal == DeadlineHonest' /\ TimerInStep'
<1> SUFFICES Goal
  BY <1>0 DEF TimerInv
<1> DEFINE Alone == /\ UNCHANGED << timerVars, waits >>
                    /\ \A r \in Readers : rd'[r] = "select" => rd[r] = "select"
<1>1. ASSUME Alone PROVE Goal
  BY <1>1 DEF TimerInv, DeadlineHonest, TimerInStep, timerVars
<1>2. ASSUME NEW r \in Readers, EnterSelect(r) PROVE Goal
  BY <1>2 DEF TimerInv, PipeTypeOK, EnterSelect, DeadlineHonest, TimerInStep, timerVars
<1>3. ASSUME NEW t \in {"none", "future", "past"}, SetReadDeadline(t) PROVE Goal
  <2>1. callbacks = 0 /\ cancel \in Nat
    BY <1>3 DEF TimerInv, PipeTypeOK, DeadlineHonest, TimerInStep, SetReadDeadline,
                CallbackAwaited
  <2>. QED
    BY <1>3, <2>1 DEF TimerInv, PipeTypeOK, DeadlineHonest, TimerInStep, SetReadDeadline,
                      CallbackAwaited, NewChannel, dataVars
<1>4. CASE TimerFires
  BY <1>4 DEF TimerFires, TimerInv, PipeTypeOK, DeadlineHonest, TimerInStep, dataVars
<1>5. CASE Callback
  BY <1>5 DEF Callback, TimerInv, PipeTypeOK, DeadlineHonest, TimerInStep, dataVars
<1>6. CASE UNCHANGED pipeVars
  BY <1>1, <1>6 DEF pipeVars, dataVars
<1>. QED
  <2>1. ASSUME NEW w \in Writers, NEW b \in Writes, StartWrite(w, b) PROVE Goal
    BY <1>1, <2>1 DEF StartWrite
  <2>2. ASSUME NEW w \in Writers, LockWrites(w) \/ WriteFails(w) PROVE Goal
    BY <1>1, <2>2 DEF LockWrites, WriteFails
  <2>3. ASSUME NEW r \in Readers, NEW n \in ReadSizes, StartRead(r, n) PROVE Goal
    BY <1>1, <2>3 DEF StartRead, TimerInv, PipeTypeOK
  <2>4. ASSUME NEW r \in Readers, ReadEnds(r) PROVE Goal
    BY <1>1, <2>4 DEF ReadEnds, TimerInv, PipeTypeOK
  <2>5. ASSUME NEW w \in Writers, NEW r \in Readers, Meet(w, r) \/ Transfer(w, r) PROVE Goal
    BY <1>1, <2>5 DEF Meet, Transfer, TimerInv, PipeTypeOK
  <2>6. CASE CloseRead
    BY <1>1, <2>6 DEF CloseRead
  <2>. QED
    BY <1>2, <1>3, <1>4, <1>5, <1>6, <2>1, <2>2, <2>3, <2>4, <2>5, <2>6
       DEF PipeNext

LEMMA PipeInvariant == PipeSpec => []PipeIInv
<1>1. PipeIInv <=> DataInv /\ TimerInv
  BY DEF PipeIInv, DataInv, TimerInv
<1>2. PipeIInv /\ [PipeNext]_pipeVars => PipeIInv'
  <2>1. PipeIInv' <=> DataInv' /\ TimerInv'
    BY DEF PipeIInv, DataInv, TimerInv
  <2>. QED
    BY <1>1, <2>1, DataStep, TimerStep
<1>. QED
  BY <1>2, PipeInitInv, PTL DEF PipeSpec

\* The pipe's variables have their types.
THEOREM PipeType == PipeSpec => []PipeTypeOK
BY PipeInvariant, PTL DEF PipeIInv

\* Bytes are neither lost nor doubled nor mixed (write's wrMu, the loop over rdCh).
THEOREM BytesExact == PipeSpec => []PipeExact
BY PipeInvariant, PTL DEF PipeIInv

\* recvLoop's buffer is not read after Write has returned it (session.go, buf.Put).
THEOREM BufferSafe == PipeSpec => []CopyInsideWrite
BY PipeInvariant, PTL DEF PipeIInv

\* PipeDeadline neither cancels early nor twice, and no Read misses it.
THEOREM DeadlineIsHonest == PipeSpec => []DeadlineHonest
BY PipeInvariant, PTL DEF PipeIInv
=============================================================================
