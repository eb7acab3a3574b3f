----------------------------- MODULE LeaseProofs -----------------------------
(***************************************************************************)
(* SessionPool implements Lease, for any number of connections and         *)
(* sessions.                                                               *)
(*                                                                         *)
(* Each way in which a step of Lease comes about is a lemma about what     *)
(* becomes of the lives of sessions and of the holds on them; under an     *)
(* action the proof says which it is.                                      *)
(***************************************************************************)
EXTENDS SessionPoolProofs

Step == L!LeaseNext \/ UNCHANGED << phase, holders >>

SameHolds == \A q \in Conns, t \in Seqs : Live(t) => (Holds(q, t)' <=> Holds(q, t))

SameHoldsBut(s) ==
    \A q \in Conns, t \in Seqs : t # s /\ Live(t) => (Holds(q, t)' <=> Holds(q, t))

\* No session is born or dies, and no live one changes hands.
LEMMA Stutters ==
    ASSUME SameHolds,
           \A t \in Seqs : /\ life'[t] = "unborn" <=> life[t] = "unborn"
                           /\ Live(t)' <=> Live(t)
    PROVE  Step
<1>1. phase' = phase
  BY DEF phase, Live
<1>2. holders' = holders
  <2>1. \A t \in Seqs : {p \in Conns : Live(t)' /\ Holds(p, t)'}
                         = {p \in Conns : Live(t) /\ Holds(p, t)}
    BY DEF SameHolds, Live
  <2>. QED
    BY <2>1 DEF holders
<1>. QED
  BY <1>1, <1>2 DEF Step

\* Live sessions end, one of them or those that nobody holds.
LEMMA Ends ==
    ASSUME TypeOK, NEW S \in SUBSET Seqs,
           \A s \in S : Live(s) /\ ~Live(s)' /\ life'[s] # "unborn",
           \A t \in Seqs \ S : life'[t] = life[t],
           \A q \in Conns, t \in Seqs \ S : Live(t) => (Holds(q, t)' <=> Holds(q, t)),
           (\E s \in S : S = {s}) \/ (\A s \in S, q \in Conns : ~Holds(q, s))
    PROVE  Step
<1>1. \A s \in S : phase[s] = "live"
  BY DEF phase, Live
<1>2. (\E s \in S : S = {s}) \/ (\A s \in S : holders[s] = {})
  BY DEF holders
<1>3. phase' = [s \in Seqs |-> IF s \in S THEN "ended" ELSE phase[s]]
  BY DEF phase, Live
<1>4. holders' = [s \in Seqs |-> IF s \in S THEN {} ELSE holders[s]]
  <2>1. \A t \in S : {p \in Conns : Live(t)' /\ Holds(p, t)'} = {}
    OBVIOUS
  <2>2. \A t \in Seqs \ S : {p \in Conns : Live(t)' /\ Holds(p, t)'}
                             = {p \in Conns : Live(t) /\ Holds(p, t)}
    BY DEF Live
  <2>. QED
    BY <2>1, <2>2 DEF holders
<1>5. L!End(S)
  BY <1>1, <1>2, <1>3, <1>4 DEF L!End
<1>. QED
  BY <1>5 DEF Step, L!LeaseNext

\* A session begins to close, under its holder's hands or not.
LEMMA Dies ==
    ASSUME TypeOK, NEW s \in Seqs, life' = Closing(s), SameHoldsBut(s)
    PROVE  Step
<1>1. CASE Live(s)
  <2>1. /\ ~Live(s)' /\ life'[s] # "unborn"
        /\ \A t \in Seqs \ {s} : life'[t] = life[t]
    BY <1>1 DEF TypeOK, Closing, Live
  <2>2. \A q \in Conns, t \in Seqs \ {s} : Live(t) => (Holds(q, t)' <=> Holds(q, t))
    BY DEF SameHoldsBut
  <2>3. \A t \in {s} : Live(t) /\ ~Live(t)' /\ life'[t] # "unborn"
    BY <1>1, <2>1
  <2>4. /\ {s} \in SUBSET Seqs
        /\ (\E t \in {s} : {s} = {t}) \/ (\A t \in {s}, q \in Conns : ~Holds(q, t))
    OBVIOUS
  <2>. QED
    BY ONLY TypeOK, <2>1, <2>2, <2>3, <2>4, Ends
<1>2. CASE ~Live(s)
  <2>1. \A t \in Seqs : /\ life'[t] = "unborn" <=> life[t] = "unborn"
                        /\ Live(t)' <=> Live(t)
    BY <1>2 DEF TypeOK, Closing, Live
  <2>2. SameHolds
    BY <1>2 DEF SameHolds, SameHoldsBut
  <2>. QED
    BY <2>1, <2>2, Stutters
<1>. QED
  BY <1>1, <1>2

\* A connection gets or gives back a session, and no other changes hands.
LEMMA Changes ==
    ASSUME NEW s \in Seqs, NEW A \in SUBSET Conns, Live(s),
           SameHoldsBut(s), \A q \in Conns : Holds(q, s)' <=> q \in A,
           \A t \in Seqs : /\ life'[t] = "unborn" <=> life[t] = "unborn"
                           /\ Live(t)' <=> Live(t)
    PROVE  /\ phase' = phase /\ phase[s] = "live"
           /\ holders' = [holders EXCEPT ![s] = A]
<1>1. phase' = phase /\ phase[s] = "live"
  BY DEF phase, Live
<1>2. {p \in Conns : Live(s)' /\ Holds(p, s)'} = A
  BY DEF Live
<1>3. \A t \in Seqs \ {s} : {p \in Conns : Live(t)' /\ Holds(p, t)'}
                             = {p \in Conns : Live(t) /\ Holds(p, t)}
  BY DEF SameHoldsBut, Live
<1>4. holders' = [holders EXCEPT ![s] = A]
  BY <1>2, <1>3 DEF holders
<1>. QED
  BY <1>1, <1>4

LEMMA Returns ==
    ASSUME ExclusiveUse, NEW s \in Seqs, NEW p \in Conns, Holds(p, s), life' = life,
           \A q \in Conns, t \in Seqs :
              q # p \/ t # s => (Holds(q, t)' <=> Holds(q, t)),
           ~Holds(p, s)'
    PROVE  Step
<1>1. \A t \in Seqs : /\ life'[t] = "unborn" <=> life[t] = "unborn"
                      /\ Live(t)' <=> Live(t)
  BY DEF Live
<1>2. CASE Live(s)
  <2>1. \A q \in Conns : Holds(q, s) <=> q = p
    BY DEF ExclusiveUse
  <2>2. \A q \in Conns : Holds(q, s)' <=> q \in {}
    BY <2>1
  <2>3. SameHoldsBut(s)
    BY DEF SameHoldsBut
  <2>4. /\ phase' = phase /\ phase[s] = "live"
        /\ holders' = [holders EXCEPT ![s] = {}]
    BY <1>1, <1>2, <2>2, <2>3, Changes
  <2>5. holders[s] = {p}
    BY <1>2, <2>1 DEF holders
  <2>6. L!GiveBack(s, p)
    BY <2>4, <2>5 DEF L!GiveBack
  <2>. QED
    BY <2>6 DEF Step, L!LeaseNext
<1>3. CASE ~Live(s)
  <2>1. SameHolds
    BY <1>3 DEF SameHolds
  <2>. QED
    BY <1>1, <2>1, Stutters
<1>. QED
  BY <1>2, <1>3

LEMMA LeaseInitStep == Init => L!LeaseInit
<1> SUFFICES ASSUME Init PROVE L!LeaseInit
  OBVIOUS
<1>1. \A s \in Seqs : life[s] = "unborn" /\ ~Live(s)
  BY DEF Init, Live
<1>. QED
  BY <1>1 DEF L!LeaseInit, phase, holders

\* Actions that leave life alone, and the holds on live sessions.
LEMMA QuietStep ==
    ASSUME TypeOK, life' = life, SameHolds
    PROVE  Step
BY Stutters DEF Live

LEMMA EveryStep == IInv /\ [Next]_vars => Step
<1> SUFFICES ASSUME IInv, [Next]_vars PROVE Step
  OBVIOUS
<1> USE PoolAssumption
    DEF Seqs, LifeStages, CallSteps, StreamSteps, clientVars, poolVars, callVars,
        streamVars, IsClosed, Cancelled, Goto, StreamGoto
<1>0. TypeOK /\ Tracked /\ ExclusiveUse /\ PooledIsUnused
  BY DEF IInv
<1>1. ASSUME NEW s \in Seqs, SessionFails(s) \/ CloseDoomed(s) PROVE Step
  <2>1. life' = Closing(s) /\ SameHoldsBut(s)
    BY <1>1 DEF SessionFails, CloseDoomed, SameHoldsBut, Holds
  <2>. QED
    BY <1>0, <2>1, Dies
<1>2. ASSUME NEW s \in Seqs, CloseHook(s) PROVE Step
  <2>1. SameHolds
    BY <1>2 DEF CloseHook, SameHolds, Holds
  <2>2. \A t \in Seqs : /\ life'[t] = "unborn" <=> life[t] = "unborn"
                        /\ Live(t)' <=> Live(t)
    BY <1>0, <1>2 DEF CloseHook, TypeOK, Live
  <2>. QED
    BY <2>1, <2>2, Stutters
<1>3. ASSUME NEW s \in Seqs, CloseStreams(s) PROVE Step
  <2>1. SameHolds
    BY <1>0, <1>3 DEF CloseStreams, SameHolds, Holds, Live, TypeOK
  <2>2. \A t \in Seqs : /\ life'[t] = "unborn" <=> life[t] = "unborn"
                        /\ Live(t)' <=> Live(t)
    BY <1>0, <1>3 DEF CloseStreams, TypeOK, Live
  <2>. QED
    BY <2>1, <2>2, Stutters
<1>4. ASSUME NEW p \in Conns,
             CheckClient(p) \/ NoIdleSession(p) \/ DialFails(p) \/ SetDieHook(p)
             \/ CloseStream(p) \/ RemoteFIN(p) \/ CloseFINed(p)
      PROVE  Step
  <2>1. life' = life
    BY <1>4 DEF CheckClient, NoIdleSession, DialFails, SetDieHook, CloseStream, RemoteFIN,
           CloseFINed
  <2>2. CASE CheckClient(p) \/ NoIdleSession(p) \/ DialFails(p)
    <3>1. SameHolds
      BY <1>0, <2>2
         DEF CheckClient, NoIdleSession, DialFails, SameHolds, Holds, TypeOK, Tracked
    <3>. QED
      BY <1>0, <2>1, <3>1, QuietStep
  <2>3. CASE CloseStream(p) \/ RemoteFIN(p) \/ CloseFINed(p)
    <3>1. SameHolds
      BY <1>0, <2>3 DEF CloseStream, RemoteFIN, CloseFINed, SameHolds, Holds, TypeOK, Tracked
    <3>. QED
      BY <1>0, <2>1, <3>1, QuietStep
  <2>4. CASE SetDieHook(p)
    <3>1. SameHolds
      BY <1>0, <2>4 DEF SetDieHook, SameHolds, Holds, Live, TypeOK, Tracked
    <3>. QED
      BY <1>0, <2>1, <3>1, QuietStep
  <2>. QED
    BY <1>4, <2>2, <2>3, <2>4
<1>5. ASSUME NEW p \in Conns, GetIdleSession(p) PROVE Step
  <2>1. PICK s \in Seqs : s \in idle /\ sess' = [sess EXCEPT ![p] = s]
    BY <1>0, <1>5 DEF GetIdleSession, TypeOK
  <2>2. life' = life /\ strm' = strm /\ pc' = [pc EXCEPT ![p] = "open"]
        /\ pc[p] = "pick" /\ strm[p] = "none"
    BY <1>0, <1>5 DEF GetIdleSession, TypeOK, Tracked
  <2>3. /\ \A q \in Conns : ~Holds(q, s)
        /\ \A t \in Seqs : ~Holds(p, t)
    BY <1>0, <2>1, <2>2 DEF PooledIsUnused, Holds
  <2>4. SameHoldsBut(s)
    BY <1>0, <2>1, <2>2, <2>3 DEF SameHoldsBut, Holds, TypeOK
  <2>5. \A q \in Conns : Holds(q, s)' <=> q \in {p}
    BY <1>0, <2>1, <2>2, <2>3 DEF Holds, TypeOK
  <2>6. CASE Live(s)
    <3>1. \A t \in Seqs : /\ life'[t] = "unborn" <=> life[t] = "unborn"
                          /\ Live(t)' <=> Live(t)
      BY <2>2 DEF Live
    <3>2. /\ phase' = phase /\ phase[s] = "live"
          /\ holders' = [holders EXCEPT ![s] = {p}]
      BY <2>4, <2>5, <2>6, <3>1, Changes
    <3>3. holders[s] = {}
      BY <2>3 DEF holders
    <3>4. L!Lend(s, p)
      BY <3>2, <3>3 DEF L!Lend
    <3>. QED
      BY <3>4 DEF Step, L!LeaseNext
  <2>7. CASE ~Live(s)
    <3>1. SameHolds
      BY <2>4, <2>7 DEF SameHolds, SameHoldsBut
    <3>. QED
      BY <1>0, <2>2, <3>1, QuietStep
  <2>. QED
    BY <2>6, <2>7
<1>6. ASSUME NEW p \in Conns, CreateSession(p) PROVE Step
  <2>0. PICK s \in Seqs : s = counter + 1
    BY <1>0, <1>6 DEF CreateSession, TypeOK
  <2>1. /\ life[s] = "unborn" /\ life' = [life EXCEPT ![s] = "open"]
        /\ sess' = [sess EXCEPT ![p] = s] /\ strm' = strm
        /\ pc' = [pc EXCEPT ![p] = "open"] /\ pc[p] = "dial" /\ strm[p] = "none"
    BY <1>0, <1>6, <2>0 DEF CreateSession, TypeOK, Tracked
  <2>2. \A q \in Conns : ~Holds(q, s)
    BY <1>0, <2>0 DEF Holds, TypeOK, Tracked
  <2>3. \A t \in Seqs : ~Holds(p, t)
    BY <2>1 DEF Holds
  <2>4. \A q \in Conns, t \in Seqs : t # s => (Holds(q, t)' <=> Holds(q, t))
    BY <1>0, <2>1, <2>3 DEF Holds, TypeOK
  <2>5. \A q \in Conns : Holds(q, s)' <=> q = p
    BY <1>0, <2>1, <2>2 DEF Holds, TypeOK
  <2>6. Live(s)' /\ \A t \in Seqs : t # s => life'[t] = life[t] /\ (Live(t)' <=> Live(t))
    BY <1>0, <2>1 DEF Live, TypeOK
  <2>7. phase[s] = "unborn" /\ phase' = [phase EXCEPT ![s] = "live"]
    BY <2>1, <2>6 DEF phase, Live
  <2>8. holders' = [holders EXCEPT ![s] = {p}]
    <3>1. {q \in Conns : Live(s)' /\ Holds(q, s)'} = {p}
      BY <2>5, <2>6
    <3>2. \A t \in Seqs : t # s => {q \in Conns : Live(t)' /\ Holds(q, t)'}
                                    = {q \in Conns : Live(t) /\ Holds(q, t)}
      BY <2>4, <2>6
    <3>. QED
      BY <3>1, <3>2 DEF holders
  <2>9. L!Create(s, p)
    BY <2>7, <2>8 DEF L!Create
  <2>. QED
    BY <2>1, <2>9 DEF Step, L!LeaseNext
<1>7. ASSUME NEW p \in Conns, OpenStream(p) PROVE Step
  <2>1. sess[p] \in Seqs /\ strm[p] = "none" /\ pc[p] = "open"
    BY <1>0, <1>7 DEF OpenStream, TypeOK, Tracked
  <2>2. CASE /\ ~IsClosed(sess[p]) /\ pc' = [pc EXCEPT ![p] = "hook"]
             /\ strm' = [strm EXCEPT ![p] = "open"] /\ life' = life
    <3>1. SameHolds
      BY <1>0, <1>7, <2>1, <2>2 DEF OpenStream, SameHolds, Holds, TypeOK
    <3>. QED
      BY <1>0, <2>2, <3>1, QuietStep
  <2>3. CASE /\ pc' = [pc EXCEPT ![p] = "failed"] /\ life' = Closing(sess[p])
             /\ strm' = strm
    <3>1. SameHoldsBut(sess[p])
      BY <1>0, <1>7, <2>1, <2>3 DEF OpenStream, SameHoldsBut, Holds, TypeOK
    <3>. QED
      BY <1>0, <2>1, <2>3, <3>1, Dies
  <2>. QED
    BY <1>7, <2>2, <2>3 DEF OpenStream
<1>8. ASSUME NEW p \in Conns, HookCheckSession(p) PROVE Step
  <2>1. /\ sess[p] \in Seqs /\ strm[p] = "hookSession" /\ life' = life
        /\ strm' = [strm EXCEPT ![p] = IF IsClosed(sess[p]) THEN AfterHook(p)
                                       ELSE "hookClient"]
        /\ sess' = sess /\ pc' = pc
    BY <1>0, <1>8 DEF HookCheckSession, TypeOK, Tracked
  <2>2. SameHolds
    BY <1>0, <2>1 DEF SameHolds, Holds, Live, TypeOK, Tracked
  <2>. QED
    BY <1>0, <2>1, <2>2, QuietStep
<1>9. ASSUME NEW p \in Conns, HookCheckClient(p) PROVE Step
  <2>1. PICK s \in Seqs : s = sess[p] /\ Holds(p, s)
    BY <1>0, <1>9 DEF HookCheckClient, Holds, TypeOK, Tracked
  <2>2. \A q \in Conns, t \in Seqs : q # p \/ t # s => (Holds(q, t)' <=> Holds(q, t))
    BY <1>0, <1>9, <2>1 DEF HookCheckClient, Holds, TypeOK
  <2>3. CASE ~Cancelled
    <3>1. strm' = [strm EXCEPT ![p] = "hookPut"] /\ life' = life
      BY <1>9, <2>3 DEF HookCheckClient
    <3>2. SameHolds
      BY <1>0, <1>9, <3>1 DEF HookCheckClient, SameHolds, Holds, TypeOK
    <3>. QED
      BY <1>0, <3>1, <3>2, QuietStep
  <2>4. CASE Cancelled
    <3>1. /\ strm' = [strm EXCEPT ![p] = AfterHook(p)] /\ pc' = pc /\ sess' = sess
          /\ life' = [life EXCEPT ![s] = IF @ = "open" THEN "given" ELSE @]
      BY <1>9, <2>1, <2>4 DEF HookCheckClient
    <3>2. ~Holds(p, s)'
      <4>1. pc[p] = "serving"
        BY <1>0, <1>9 DEF HookCheckClient, TypeOK, Tracked
      <4>2. strm'[p] \in {"fin", "dead"}
        BY <1>0, <3>1 DEF AfterHook, TypeOK
      <4>. QED
        BY <3>1, <4>1, <4>2 DEF Holds
    <3>3. CASE life[s] = "open"
      <4> DEFINE S == {s}
      <4>1. /\ \A t \in S : Live(t) /\ ~Live(t)' /\ life'[t] # "unborn"
            /\ \A t \in Seqs \ S : life'[t] = life[t]
        BY <1>0, <2>1, <3>1, <3>3 DEF TypeOK, Live
      <4>2. \A q \in Conns, t \in Seqs \ S : Live(t) => (Holds(q, t)' <=> Holds(q, t))
        BY <2>2
      <4>3. /\ S \in SUBSET Seqs
            /\ (\E t \in S : S = {t}) \/ (\A t \in S, q \in Conns : ~Holds(q, t))
        BY <2>1
      <4> HIDE DEF S
      <4>. QED
        BY ONLY <1>0, <4>1, <4>2, <4>3, Ends
    <3>4. CASE life[s] # "open"
      <4>1. life' = life
        BY <1>0, <2>1, <3>1, <3>4 DEF TypeOK
      <4>. QED
        BY ONLY <1>0, <2>1, <2>2, <3>2, <4>1, Returns, <1>9
    <3>. QED
      BY <3>3, <3>4
  <2>. QED
    BY <2>3, <2>4
<1>10. ASSUME NEW p \in Conns, HookPut(p) PROVE Step
  <2>1. PICK s \in Seqs : s = sess[p] /\ Holds(p, s) /\ life' = life
    BY <1>0, <1>10 DEF HookPut, Holds, TypeOK, Tracked
  <2>2. \A q \in Conns, t \in Seqs : q # p \/ t # s => (Holds(q, t)' <=> Holds(q, t))
    BY <1>0, <1>10, <2>1 DEF HookPut, Holds, TypeOK
  <2>3. ~Holds(p, s)'
    BY <1>0, <1>10, <2>1 DEF HookPut, AfterHook, Holds, TypeOK, Tracked
  <2>. QED
    BY ONLY <1>0, <1>10, <2>1, <2>2, <2>3, Returns
<1>11. ASSUME NEW p \in Conns, SendFin(p) PROVE Step
  <2>1. sess[p] \in Seqs
    BY <1>0, <1>11 DEF SendFin, TypeOK, Tracked
  <2>2. \A q \in Conns, t \in Seqs : Holds(q, t)' <=> Holds(q, t)
    BY <1>0, <1>11 DEF SendFin, Holds, TypeOK
  <2>3. SameHolds /\ SameHoldsBut(sess[p])
    BY <2>2 DEF SameHolds, SameHoldsBut
  <2>4. life' = life \/ life' = Closing(sess[p])
    BY <1>11 DEF SendFin
  <2>. QED
    BY <1>0, <2>1, <2>3, <2>4, QuietStep, Dies
<1>12. CASE (\E s \in Seqs : Expire(s)) \/ ClientCancel \/ UNCHANGED vars
  <2>1. life' = life /\ SameHolds
    BY <1>12 DEF Expire, ClientCancel, vars, SameHolds, Holds
  <2>. QED
    BY <1>0, <2>1, QuietStep
<1>13. CASE Cleanup
  <2> DEFINE S == {s \in Surplus : Live(s)}
  <2>1. S \in SUBSET Seqs /\ S \subseteq idle
    BY <1>0 DEF Surplus, TypeOK
  <2>2. \A s \in S : Live(s) /\ ~Live(s)' /\ life'[s] # "unborn"
    BY <1>13, <2>1 DEF Cleanup, Live
  <2>3. \A t \in Seqs \ S : life'[t] = life[t]
    BY <1>0, <1>13 DEF Cleanup, Live, TypeOK
  <2>4. \A q \in Conns, t \in Seqs \ S : Live(t) => (Holds(q, t)' <=> Holds(q, t))
    BY <1>13 DEF Cleanup, Holds
  <2>5. \A s \in S, q \in Conns : ~Holds(q, s)
    BY <1>0, <2>1 DEF PooledIsUnused
  <2> HIDE DEF S
  <2>. QED
    BY ONLY <1>0, <2>1, <2>2, <2>3, <2>4, <2>5, Ends
<1>14. CASE ClientTakeSessions
  <2>1. SameHolds
    BY <1>14 DEF ClientTakeSessions, SameHolds, Holds
  <2>2. \A t \in Seqs : /\ life'[t] = "unborn" <=> life[t] = "unborn"
                        /\ Live(t)' <=> Live(t)
    BY <1>0, <1>14 DEF ClientTakeSessions, TypeOK, Live
  <2>. QED
    BY <2>1, <2>2, Stutters
<1>. QED
  BY <1>1, <1>2, <1>3, <1>4, <1>5, <1>6, <1>7, <1>8, <1>9, <1>10, <1>11, <1>12, <1>13,
     <1>14 DEF Next, Environment, CloseStep, CallStep, StreamStep

\* Whatever a client, its cleanup, its sessions and Client.Close do, those who open
\* streams see a pool that lends a session to one of them at a time and never lends
\* one again that has ended.
THEOREM PoolImplementsLease == Spec => PoolIsLease
<1>1. IInv /\ [Next]_vars => [L!LeaseNext]_(L!leaseVars)
  BY EveryStep DEF Step, L!leaseVars
<1>. QED
  BY <1>1, LeaseInitStep, Invariance, PTL DEF Spec, PoolIsLease, L!LeaseSpec
=============================================================================
