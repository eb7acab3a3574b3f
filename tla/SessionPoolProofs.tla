-------------------------- MODULE SessionPoolProofs --------------------------
(***************************************************************************)
(* The safety of SessionPool for any number of connections and sessions.   *)
(*                                                                         *)
(* Under an action the proof first types the new state, then says which    *)
(* connection gains or loses its hold on a session, and concludes from     *)
(* that alone, without looking into pc and strm again.                     *)
(***************************************************************************)
EXTENDS SessionPool, TLAPS, FiniteSetTheorems, WellFoundedInduction

LEMMA InitInv == Init => IInv
BY PoolAssumption
   DEF Init, IInv, TypeOK, Tracked, ExclusiveUse, PooledIsUnused, NoneStranded,
       RegistryComplete, CloseMissesNone, Holds, Seqs, LifeStages, CallSteps, StreamSteps

LEMMA NextInv == IInv /\ [Next]_vars => IInv'
<1> SUFFICES ASSUME IInv, [Next]_vars PROVE IInv'
  OBVIOUS
<1> USE PoolAssumption
    DEF IInv, Seqs, LifeStages, CallSteps, StreamSteps, clientVars, poolVars,
        callVars, streamVars, IsClosed, Cancelled, Closing, Goto, StreamGoto
<1>1. ASSUME NEW s \in Seqs, SessionFails(s) PROVE IInv'
  <2>1. TypeOK' /\ Tracked'
    BY <1>1 DEF SessionFails, TypeOK, Tracked
  <2>2. \A q \in Conns, t \in Seqs : Holds(q, t)' <=> Holds(q, t)
    BY <1>1 DEF SessionFails, Holds, TypeOK, Tracked
  <2>. QED
    BY <1>1, <2>1, <2>2
       DEF SessionFails, TypeOK, Tracked, ExclusiveUse, PooledIsUnused, NoneStranded,
           RegistryComplete, CloseMissesNone
<1>2. ASSUME NEW s \in Seqs, CloseDoomed(s) PROVE IInv'
  <2>1. TypeOK' /\ Tracked'
    BY <1>2 DEF CloseDoomed, TypeOK, Tracked
  <2>2. \A q \in Conns, t \in Seqs : Holds(q, t)' <=> Holds(q, t)
    BY <1>2 DEF CloseDoomed, Holds, TypeOK, Tracked
  <2>. QED
    BY <1>2, <2>1, <2>2
       DEF CloseDoomed, TypeOK, Tracked, ExclusiveUse, PooledIsUnused, NoneStranded,
           RegistryComplete, CloseMissesNone
<1>3. ASSUME NEW s \in Seqs, CloseHook(s) PROVE IInv'
  <2>1. TypeOK' /\ Tracked'
    BY <1>3 DEF CloseHook, TypeOK, Tracked
  <2>2. \A q \in Conns, t \in Seqs : Holds(q, t)' <=> Holds(q, t)
    BY <1>3 DEF CloseHook, Holds, TypeOK, Tracked
  <2>. QED
    BY <1>3, <2>1, <2>2
       DEF CloseHook, TypeOK, Tracked, ExclusiveUse, PooledIsUnused, NoneStranded,
           RegistryComplete, CloseMissesNone
<1>4. ASSUME NEW s \in Seqs, CloseStreams(s) PROVE IInv'
  <2>1. TypeOK' /\ Tracked'
    BY <1>4 DEF CloseStreams, TypeOK, Tracked
  <2>2. \A q \in Conns, t \in Seqs : t # s => (Holds(q, t)' <=> Holds(q, t))
    BY <1>4 DEF CloseStreams, Holds, TypeOK, Tracked
  <2>3. \A q \in Conns : Holds(q, s)' => Holds(q, s)
    BY <1>4 DEF CloseStreams, Holds, TypeOK, Tracked
  <2>. QED
    BY <1>4, <2>1, <2>2, <2>3
       DEF CloseStreams, TypeOK, Tracked, ExclusiveUse, PooledIsUnused, NoneStranded,
           RegistryComplete, CloseMissesNone
<1>5. ASSUME NEW p \in Conns, CheckClient(p) PROVE IInv'
  <2>1. TypeOK' /\ Tracked'
    BY <1>5 DEF CheckClient, TypeOK, Tracked
  <2>2. \A q \in Conns, t \in Seqs : Holds(q, t)' <=> Holds(q, t)
    BY <1>5 DEF CheckClient, Holds, TypeOK, Tracked
  <2>. QED
    BY <1>5, <2>1, <2>2
       DEF CheckClient, TypeOK, Tracked, ExclusiveUse, PooledIsUnused, NoneStranded,
           RegistryComplete, CloseMissesNone
<1>6. ASSUME NEW p \in Conns, GetIdleSession(p) PROVE IInv'
  <2>1. TypeOK' /\ Tracked'
    BY <1>6 DEF GetIdleSession, TypeOK, Tracked
  <2>2. \A q \in Conns, t \in Seqs : q # p => (Holds(q, t)' <=> Holds(q, t))
    BY <1>6 DEF GetIdleSession, Holds, TypeOK, Tracked
  <2>3. \A t \in Seqs : ~Holds(p, t) /\ (Holds(p, t)' <=> t = sess'[p])
    BY <1>6 DEF GetIdleSession, Holds, TypeOK, Tracked
  <2>4. sess'[p] \in idle /\ idle' = idle \ {sess'[p]}
    BY <1>6 DEF GetIdleSession, Holds, TypeOK, Tracked
  <2>. QED
    BY <1>6, <2>1, <2>2, <2>3, <2>4
       DEF GetIdleSession, TypeOK, Tracked, ExclusiveUse, PooledIsUnused, NoneStranded,
           RegistryComplete, CloseMissesNone
<1>7. ASSUME NEW p \in Conns, NoIdleSession(p) PROVE IInv'
  <2>1. TypeOK' /\ Tracked'
    BY <1>7 DEF NoIdleSession, TypeOK, Tracked
  <2>2. \A q \in Conns, t \in Seqs : Holds(q, t)' <=> Holds(q, t)
    BY <1>7 DEF NoIdleSession, Holds, TypeOK, Tracked
  <2>. QED
    BY <1>7, <2>1, <2>2
       DEF NoIdleSession, TypeOK, Tracked, ExclusiveUse, PooledIsUnused, NoneStranded,
           RegistryComplete, CloseMissesNone
<1>8. ASSUME NEW p \in Conns, CreateSession(p) PROVE IInv'
  <2>1. TypeOK' /\ counter + 1 \in Seqs /\ sess'[p] = counter + 1
    BY <1>8 DEF CreateSession, TypeOK
  <2>2. Tracked'
    BY <1>8 DEF CreateSession, TypeOK, Tracked
  <2>3. \A q \in Conns : ~Holds(q, counter + 1)
    BY <2>1 DEF TypeOK, Tracked, Holds
  <2>4. \A t \in Seqs : ~Holds(p, t)
    BY <1>8 DEF CreateSession, TypeOK, Tracked, Holds
  <2>5. \A q \in Conns, t \in Seqs : q # p => (Holds(q, t)' <=> Holds(q, t))
    BY <1>8 DEF CreateSession, TypeOK, Holds
  <2>6. \A t \in Seqs : Holds(p, t)' <=> t = counter + 1
    BY <1>8, <2>1 DEF CreateSession, TypeOK, Tracked, Holds
  <2>7. ExclusiveUse'
    BY <2>3, <2>5, <2>6 DEF ExclusiveUse
  <2>8. PooledIsUnused'
    BY <1>8, <2>1, <2>4, <2>5, <2>6 DEF CreateSession, TypeOK, Tracked, PooledIsUnused
  <2>9. NoneStranded'
    BY <1>8, <2>4, <2>5, <2>6 DEF CreateSession, TypeOK, NoneStranded
  <2>10. RegistryComplete'
    BY <1>8 DEF CreateSession, TypeOK, RegistryComplete
  <2>11. strm' = strm /\ strm[p] # "hookPut"
    BY <1>8 DEF CreateSession, TypeOK, Tracked
  <2>12. CloseMissesNone'
    BY <1>8, <2>1, <2>4, <2>5, <2>6, <2>11
       DEF CreateSession, TypeOK, Tracked, CloseMissesNone
  <2>. QED
    BY <2>1, <2>2, <2>7, <2>8, <2>9, <2>10, <2>12
<1>9. ASSUME NEW p \in Conns, DialFails(p) PROVE IInv'
  <2>1. TypeOK' /\ Tracked'
    BY <1>9 DEF DialFails, TypeOK, Tracked
  <2>2. \A q \in Conns, t \in Seqs : Holds(q, t)' <=> Holds(q, t)
    BY <1>9 DEF DialFails, Holds, TypeOK, Tracked
  <2>. QED
    BY <1>9, <2>1, <2>2
       DEF DialFails, TypeOK, Tracked, ExclusiveUse, PooledIsUnused, NoneStranded,
           RegistryComplete, CloseMissesNone
<1>10. ASSUME NEW p \in Conns, OpenStream(p) PROVE IInv'
  <2>1. sess[p] \in Seqs /\ strm[p] = "none" /\ pc[p] = "open"
    BY <1>10 DEF OpenStream, TypeOK, Tracked
  <2>2. \A q \in Conns, t \in Seqs : q # p => (Holds(q, t)' <=> Holds(q, t))
    BY <1>10 DEF OpenStream, TypeOK, Holds
  <2>3. CASE pc'[p] = "hook"
    <3>1. /\ pc' = [pc EXCEPT ![p] = "hook"] /\ strm' = [strm EXCEPT ![p] = "open"]
          /\ life' = life
      BY <1>10, <2>3 DEF OpenStream, TypeOK
    <3>2. TypeOK' /\ Tracked'
      BY <1>10, <2>1, <3>1 DEF OpenStream, TypeOK, Tracked
    <3>3. \A t \in Seqs : Holds(p, t)' <=> Holds(p, t)
      BY <1>10, <2>1, <3>1 DEF OpenStream, TypeOK, Holds
    <3>. QED
      BY <1>10, <2>2, <3>1, <3>2, <3>3
         DEF OpenStream, TypeOK, ExclusiveUse, PooledIsUnused, NoneStranded,
             RegistryComplete, CloseMissesNone
  <2>4. CASE pc'[p] # "hook"
    <3>1. /\ pc' = [pc EXCEPT ![p] = "failed"] /\ strm' = strm
          /\ life' = Closing(sess[p])
      BY <1>10, <2>4 DEF OpenStream, TypeOK
    <3>2. TypeOK' /\ Tracked'
      BY <1>10, <2>1, <3>1 DEF OpenStream, TypeOK, Tracked
    <3>3. \A t \in Seqs : ~Holds(p, t)' /\ (t # sess[p] => ~Holds(p, t))
      BY <1>10, <2>1, <3>1 DEF OpenStream, TypeOK, Holds
    <3>4. life'[sess[p]] \notin {"open", "given", "taken"}
      BY <2>1, <3>1 DEF TypeOK
    <3>. QED
      BY <1>10, <2>1, <2>2, <3>1, <3>2, <3>3, <3>4
         DEF OpenStream, TypeOK, ExclusiveUse, PooledIsUnused, NoneStranded,
             RegistryComplete, CloseMissesNone
  <2>. QED
    BY <2>3, <2>4
<1>11. ASSUME NEW p \in Conns, SetDieHook(p) PROVE IInv'
  <2>1. TypeOK'
    BY <1>11 DEF SetDieHook, TypeOK, Tracked
  <2>2. Tracked'
    BY <1>11 DEF SetDieHook, TypeOK, Tracked
  <2>3. \A q \in Conns, t \in Seqs : q # p => (Holds(q, t)' <=> Holds(q, t))
    BY <1>11 DEF SetDieHook, Holds, TypeOK, Tracked
  <2>4. \A t \in Seqs : Holds(p, t)' => Holds(p, t)
    BY <1>11 DEF SetDieHook, Holds, TypeOK, Tracked
  <2>5. \A t \in Seqs : Holds(p, t) => Holds(p, t)' \/ IsClosed(t)
    BY <1>11 DEF SetDieHook, Holds, TypeOK, Tracked
  <2>6. ExclusiveUse'
    BY <1>11, <2>1, <2>2, <2>3, <2>4, <2>5 DEF SetDieHook, TypeOK, Tracked, ExclusiveUse
  <2>7. PooledIsUnused'
    BY <1>11, <2>1, <2>2, <2>3, <2>4, <2>5
       DEF SetDieHook, TypeOK, Tracked, PooledIsUnused
  <2>8. NoneStranded'
    BY <1>11, <2>1, <2>2, <2>3, <2>4, <2>5 DEF SetDieHook, TypeOK, Tracked, NoneStranded
  <2>9. RegistryComplete'
    BY <1>11, <2>1, <2>2, <2>3, <2>4, <2>5
       DEF SetDieHook, TypeOK, Tracked, RegistryComplete
  <2>10. CloseMissesNone'
    BY <1>11, <2>1, <2>2, <2>3, <2>4, <2>5
       DEF SetDieHook, TypeOK, Tracked, CloseMissesNone, PooledIsUnused, ExclusiveUse
  <2>. QED
    BY <2>1, <2>2, <2>6, <2>7, <2>8, <2>9, <2>10
<1>12. ASSUME NEW p \in Conns, CloseStream(p) PROVE IInv'
  <2>1. TypeOK' /\ Tracked'
    BY <1>12 DEF CloseStream, TypeOK, Tracked
  <2>2. \A q \in Conns, t \in Seqs : Holds(q, t)' <=> Holds(q, t)
    BY <1>12 DEF CloseStream, Holds, TypeOK, Tracked
  <2>. QED
    BY <1>12, <2>1, <2>2
       DEF CloseStream, TypeOK, Tracked, ExclusiveUse, PooledIsUnused, NoneStranded,
           RegistryComplete, CloseMissesNone
<1>13. ASSUME NEW p \in Conns, RemoteFIN(p) PROVE IInv'
  <2>1. TypeOK' /\ Tracked'
    BY <1>13 DEF RemoteFIN, TypeOK, Tracked
  <2>2. \A q \in Conns, t \in Seqs : Holds(q, t)' <=> Holds(q, t)
    BY <1>13 DEF RemoteFIN, Holds, TypeOK, Tracked
  <2>. QED
    BY <1>13, <2>1, <2>2
       DEF RemoteFIN, TypeOK, Tracked, ExclusiveUse, PooledIsUnused, NoneStranded,
           RegistryComplete, CloseMissesNone
<1>14. ASSUME NEW p \in Conns, CloseFINed(p) PROVE IInv'
  <2>1. TypeOK' /\ Tracked'
    BY <1>14 DEF CloseFINed, TypeOK, Tracked
  <2>2. \A q \in Conns, t \in Seqs : Holds(q, t)' <=> Holds(q, t)
    BY <1>14 DEF CloseFINed, Holds, TypeOK, Tracked
  <2>. QED
    BY <1>14, <2>1, <2>2
       DEF CloseFINed, TypeOK, Tracked, ExclusiveUse, PooledIsUnused, NoneStranded,
           RegistryComplete, CloseMissesNone
<1>15. ASSUME NEW p \in Conns, HookCheckSession(p) PROVE IInv'
  <2>1. TypeOK' /\ Tracked'
    BY <1>15 DEF HookCheckSession, AfterHook, TypeOK, Tracked
  <2>2. \A q \in Conns, t \in Seqs : q # p => (Holds(q, t)' <=> Holds(q, t))
    BY <1>15 DEF HookCheckSession, AfterHook, TypeOK, Holds
  <2>3. \A t \in Seqs : Holds(p, t)' => Holds(p, t)
    BY <1>15 DEF HookCheckSession, AfterHook, TypeOK, Tracked, Holds
  <2>4. \A t \in Seqs : Holds(p, t) => Holds(p, t)' \/ life[t] # "open"
    BY <1>15 DEF HookCheckSession, AfterHook, TypeOK, Tracked, Holds
  <2>5. strm'[p] # "hookPut" /\ \A q \in Conns : q # p => strm'[q] = strm[q]
    BY <1>15 DEF HookCheckSession, AfterHook, TypeOK
  <2>. QED
    BY <1>15, <2>1, <2>2, <2>3, <2>4, <2>5
       DEF HookCheckSession, TypeOK, ExclusiveUse, PooledIsUnused, NoneStranded,
           RegistryComplete, CloseMissesNone
<1>16. ASSUME NEW p \in Conns, HookCheckClient(p) PROVE IInv'
  <2>1. sess[p] \in Seqs /\ Holds(p, sess[p]) /\ sess[p] \notin idle
    BY <1>16 DEF HookCheckClient, TypeOK, Tracked, Holds, PooledIsUnused
  <2>2. \A q \in Conns, t \in Seqs : q # p => (Holds(q, t)' <=> Holds(q, t))
    BY <1>16 DEF HookCheckClient, AfterHook, TypeOK, Holds
  <2>3. CASE Cancelled
    <3>1. /\ strm' = [strm EXCEPT ![p] = AfterHook(p)]
          /\ life' = [life EXCEPT ![sess[p]] = IF @ = "open" THEN "given" ELSE @]
      BY <1>16, <2>3 DEF HookCheckClient
    <3>2. TypeOK' /\ Tracked'
      BY <1>16, <2>1, <3>1 DEF HookCheckClient, AfterHook, TypeOK, Tracked
    <3>3. \A t \in Seqs : ~Holds(p, t)' /\ (t # sess[p] => ~Holds(p, t))
      BY <1>16, <2>1, <3>1 DEF HookCheckClient, AfterHook, TypeOK, Tracked, Holds
    <3>4. \A t \in Seqs : t = sess[p] => \A q \in Conns : ~Holds(q, t)'
      BY <2>1, <2>2, <3>3 DEF ExclusiveUse
    <3>5. \A q \in Conns : q # p => strm'[q] = strm[q]
      BY <3>1 DEF TypeOK
    <3>6. life'[sess[p]] # "open" /\ \A t \in Seqs : t # sess[p] => life'[t] = life[t]
      BY <2>1, <3>1 DEF TypeOK
    <3>7. ExclusiveUse' /\ PooledIsUnused'
      BY <1>16, <2>2, <3>3, <3>4, <3>6
         DEF HookCheckClient, TypeOK, ExclusiveUse, PooledIsUnused
    <3>8. NoneStranded' /\ CloseMissesNone'
      BY <1>16, <2>2, <3>3, <3>5, <3>6
         DEF HookCheckClient, TypeOK, NoneStranded, CloseMissesNone
    <3>9. RegistryComplete'
      BY <1>16, <2>1, <3>1 DEF HookCheckClient, TypeOK, RegistryComplete
    <3>. QED
      BY <3>2, <3>7, <3>8, <3>9
  <2>4. CASE ~Cancelled
    <3>1. strm' = [strm EXCEPT ![p] = "hookPut"] /\ life' = life
      BY <1>16, <2>4 DEF HookCheckClient
    <3>2. TypeOK' /\ Tracked'
      BY <1>16, <3>1 DEF HookCheckClient, TypeOK, Tracked
    <3>3. \A t \in Seqs : Holds(p, t)' <=> Holds(p, t)
      BY <1>16, <3>1 DEF HookCheckClient, TypeOK, Holds
    <3>. QED
      BY <1>16, <2>2, <2>4, <3>1, <3>2, <3>3
         DEF HookCheckClient, TypeOK, ExclusiveUse, PooledIsUnused, NoneStranded,
             RegistryComplete, CloseMissesNone
  <2>. QED
    BY <2>3, <2>4
<1>17. ASSUME NEW p \in Conns, HookPut(p) PROVE IInv'
  <2>1. /\ sess[p] \in Seqs /\ sess[p] <= counter
        /\ Holds(p, sess[p]) /\ life[sess[p]] # "given"
    BY <1>17 DEF HookPut, TypeOK, Tracked, Holds, PooledIsUnused
  <2>2. TypeOK'
    BY <1>17, <2>1 DEF HookPut, AfterHook, TypeOK
  <2>3. Tracked'
    BY <1>17, <2>1 DEF HookPut, AfterHook, TypeOK, Tracked
  <2>4. \A q \in Conns, t \in Seqs : q # p => (Holds(q, t)' <=> Holds(q, t))
    BY <1>17 DEF HookPut, AfterHook, TypeOK, Holds
  <2>5. \A t \in Seqs : ~Holds(p, t)' /\ (t # sess[p] => ~Holds(p, t))
    BY <1>17, <2>1 DEF HookPut, AfterHook, TypeOK, Tracked, Holds
  <2>6. \A t \in Seqs : t = sess[p] => \A q \in Conns : ~Holds(q, t)'
    BY <2>1, <2>4, <2>5 DEF ExclusiveUse
  <2>7. PooledIsUnused'
    BY <1>17, <2>4, <2>5, <2>6 DEF HookPut, TypeOK, PooledIsUnused
  <2>8. NoneStranded'
    BY <1>17, <2>1, <2>4, <2>5 DEF HookPut, TypeOK, NoneStranded
  <2>9. \A q \in Conns : q # p => strm'[q] = strm[q]
    BY <1>17 DEF HookPut, TypeOK
  <2>10. CloseMissesNone'
    <3>1. closer = "done" => life[sess[p]] # "open"
      BY <1>17, <2>1 DEF HookPut, CloseMissesNone, ExclusiveUse
    <3>. QED
      BY <1>17, <2>1, <2>4, <2>5, <2>9, <3>1 DEF HookPut, TypeOK, CloseMissesNone
  <2>. QED
    BY <1>17, <2>2, <2>3, <2>4, <2>5, <2>7, <2>8, <2>10
       DEF HookPut, TypeOK, ExclusiveUse, RegistryComplete
<1>18. ASSUME NEW p \in Conns, SendFin(p) PROVE IInv'
  <2>1. TypeOK'
    BY <1>18 DEF SendFin, TypeOK, Tracked
  <2>2. Tracked'
    BY <1>18 DEF SendFin, TypeOK, Tracked
  <2>3. \A q \in Conns, t \in Seqs : Holds(q, t)' <=> Holds(q, t)
    BY <1>18 DEF SendFin, Holds, TypeOK, Tracked
  <2>4. ExclusiveUse'
    BY <1>18, <2>1, <2>2, <2>3 DEF SendFin, TypeOK, Tracked, ExclusiveUse
  <2>5. PooledIsUnused'
    BY <1>18, <2>1, <2>2, <2>3 DEF SendFin, TypeOK, Tracked, PooledIsUnused
  <2>6. NoneStranded'
    BY <1>18, <2>1, <2>2, <2>3 DEF SendFin, TypeOK, Tracked, NoneStranded
  <2>7. RegistryComplete'
    BY <1>18, <2>1, <2>2, <2>3 DEF SendFin, TypeOK, Tracked, RegistryComplete
  <2>8. CloseMissesNone'
    BY <1>18, <2>1, <2>2, <2>3
       DEF SendFin, TypeOK, Tracked, CloseMissesNone, PooledIsUnused, ExclusiveUse
  <2>. QED
    BY <2>1, <2>2, <2>4, <2>5, <2>6, <2>7, <2>8
<1>19. ASSUME NEW s \in Seqs, Expire(s) PROVE IInv'
  <2>1. TypeOK' /\ Tracked'
    BY <1>19 DEF Expire, TypeOK, Tracked
  <2>2. \A q \in Conns, t \in Seqs : Holds(q, t)' <=> Holds(q, t)
    BY <1>19 DEF Expire, Holds, TypeOK, Tracked
  <2>. QED
    BY <1>19, <2>1, <2>2
       DEF Expire, TypeOK, Tracked, ExclusiveUse, PooledIsUnused, NoneStranded,
           RegistryComplete, CloseMissesNone
<1>20. CASE Cleanup
  <2>1. Surplus \subseteq idle
    BY DEF Surplus
  <2>2. TypeOK' /\ Tracked'
    BY <1>20, <2>1 DEF Cleanup, TypeOK, Tracked
  <2>3. \A q \in Conns, t \in Seqs : Holds(q, t)' <=> Holds(q, t)
    BY <1>20, <2>1 DEF Cleanup, Holds, TypeOK, Tracked
  <2>. QED
    BY <1>20, <2>1, <2>2, <2>3
       DEF Cleanup, TypeOK, Tracked, ExclusiveUse, PooledIsUnused, NoneStranded,
           RegistryComplete, CloseMissesNone
<1>21. CASE ClientCancel
  <2>1. TypeOK' /\ Tracked'
    BY <1>21 DEF ClientCancel, TypeOK, Tracked
  <2>2. \A q \in Conns, t \in Seqs : Holds(q, t)' <=> Holds(q, t)
    BY <1>21 DEF ClientCancel, Holds, TypeOK, Tracked
  <2>. QED
    BY <1>21, <2>1, <2>2
       DEF ClientCancel, TypeOK, Tracked, ExclusiveUse, PooledIsUnused, NoneStranded,
           RegistryComplete, CloseMissesNone
<1>22. CASE ClientTakeSessions
  <2>1. TypeOK' /\ Tracked'
    BY <1>22 DEF ClientTakeSessions, TypeOK, Tracked
  <2>2. \A q \in Conns, t \in Seqs : Holds(q, t)' <=> Holds(q, t)
    BY <1>22 DEF ClientTakeSessions, Holds, TypeOK, Tracked
  <2>. QED
    BY <1>22, <2>1, <2>2
       DEF ClientTakeSessions, TypeOK, Tracked, ExclusiveUse, PooledIsUnused, NoneStranded,
           RegistryComplete, CloseMissesNone
<1>23. CASE UNCHANGED vars
  <2>1. TypeOK' /\ Tracked'
    BY <1>23 DEF vars, TypeOK, Tracked
  <2>2. \A q \in Conns, t \in Seqs : Holds(q, t)' <=> Holds(q, t)
    BY <1>23 DEF vars, Holds, TypeOK, Tracked
  <2>. QED
    BY <1>23, <2>1, <2>2
       DEF vars, TypeOK, Tracked, ExclusiveUse, PooledIsUnused, NoneStranded,
           RegistryComplete, CloseMissesNone
<1>. QED
  BY <1>1, <1>2, <1>3, <1>4, <1>5, <1>6, <1>7, <1>8, <1>9, <1>10, <1>11, <1>12,
     <1>13, <1>14, <1>15, <1>16, <1>17, <1>18, <1>19, <1>20, <1>21, <1>22, <1>23
     DEF Next, Environment, CloseStep, CallStep, StreamStep

LEMMA Invariance == Spec => []IInv
<1>1. Init => IInv
  BY InitInv
<1>2. IInv /\ [Next]_vars => IInv'
  BY NextInv
<1>. QED
  BY <1>1, <1>2, PTL DEF Spec

\* Every variable keeps the type its declaration in client.go gives it.
THEOREM TypeCorrect == Spec => []TypeOK
<1>1. IInv => TypeOK
  BY DEF IInv
<1>. QED
  BY <1>1, Invariance, PTL

\* The pool never hands one session to two connections (getIdleSession,
\* createSession, the die hook of CreateStream).
THEOREM Exclusive == Spec => []ExclusiveUse
<1>1. IInv => ExclusiveUse
  BY DEF IInv
<1>. QED
  BY <1>1, Invariance, PTL

\* A session found in the pool or by the cleanup has no connection at work on
\* it (idleCleanupExpTime closes no stream in use).
THEOREM PooledUnused == Spec => []PooledIsUnused
<1>1. IInv => PooledIsUnused
  BY DEF IInv
<1>. QED
  BY <1>1, Invariance, PTL

\* No path through CreateStream or a die hook drops a live session.
THEOREM NoStrandedSession == Spec => []NoneStranded
<1>1. IInv => NoneStranded
  BY DEF IInv
<1>. QED
  BY <1>1, Invariance, PTL

\* c.sessions lists every session Client.Close has to close ...
THEOREM CompleteRegistry == Spec => []RegistryComplete
<1>1. IInv => RegistryComplete
  BY DEF IInv
<1>. QED
  BY <1>1, Invariance, PTL

\* ... and those that it cannot list, dialled while it ran, are still in the
\* hands of a connection that will find the client closed.
THEOREM CompleteClose == Spec => []CloseMissesNone
<1>1. IInv => CloseMissesNone
  BY DEF IInv
<1>. QED
  BY <1>1, Invariance, PTL

(***************************************************************************)
(* The reserve of the cleanup.  Of the sessions it takes the newest counts *)
(* only sessions that stay, and every other one counts those as well.      *)
(***************************************************************************)
Newer(s) == {t \in Seqs : t > s}

LEMMA NewestOf ==
    ASSUME NEW T, T \subseteq Seqs, T # {}
    PROVE  \E m \in T : \A t \in T : t <= m
<1> DEFINE R == StrictSubsetOrdering(Seqs)
           A == {Newer(t) : t \in T}
<1>1. IsFiniteSet(Seqs)
  BY PoolAssumption, FS_Interval DEF Seqs
<1>2. A \subseteq FiniteSubsetsOf(Seqs) /\ A # {}
  <2>1. \A X \in SUBSET Seqs : IsFiniteSet(X)
    BY <1>1, FS_Subset
  <2>2. \A t \in T : Newer(t) \in SUBSET Seqs
    BY DEF Newer
  <2>. QED
    BY <2>1, <2>2 DEF FiniteSubsetsOf
<1>3. PICK x \in A : \A y \in A : ~(<< y, x >> \in R)
  <2>1. IsWellFoundedOn(R, FiniteSubsetsOf(Seqs))
    BY FS_StrictSubsetOrderingWellFounded
  <2>. HIDE DEF A, R
  <2>. QED
    BY <1>2, <2>1, WFMin
<1>4. PICK m \in T : x = Newer(m)
  OBVIOUS
<1>5. ASSUME NEW t \in T, t > m PROVE FALSE
  <2>1. Newer(t) \subseteq Newer(m) /\ t \in Newer(m) /\ t \notin Newer(t)
    BY <1>5, PoolAssumption DEF Newer, Seqs
  <2>2. << Newer(t), Newer(m) >> \in R
    BY <2>1 DEF StrictSubsetOrdering, Newer
  <2>. QED
    BY <1>3, <1>4, <2>2
<1>. QED
  BY <1>5, PoolAssumption DEF Seqs

LEMMA ReserveStays ==
    ASSUME TypeOK, NEW s \in Surplus
    PROVE  Cardinality({t \in idle \ Surplus : t > s}) >= MinIdle
<1> DEFINE After(u) == {t \in idle : t > u}
           Kept(u) == {t \in idle \ Surplus : t > u}
<1>1. /\ idle \subseteq Seqs /\ IsFiniteSet(Seqs) /\ Surplus \subseteq idle
      /\ \A u \in Seqs : u \in Nat
  BY PoolAssumption, FS_Interval DEF TypeOK, Seqs, Surplus
<1>2. PICK m \in Surplus : \A t \in Surplus : t <= m
  BY <1>1, NewestOf
<1>3. After(m) \subseteq Kept(s)
  BY <1>1, <1>2
<1>4. IsFiniteSet(Kept(s)) /\ IsFiniteSet(After(m))
  BY <1>1, FS_Subset
<1>5. Cardinality(After(m)) >= MinIdle
  BY <1>2 DEF Surplus
<1>6. /\ Cardinality(After(m)) <= Cardinality(Kept(s))
      /\ Cardinality(After(m)) \in Nat /\ Cardinality(Kept(s)) \in Nat
  BY <1>3, <1>4, FS_Subset, FS_CardinalityType
<1>. QED
  BY <1>5, <1>6, PoolAssumption

LEMMA OldestFirst ==
    ASSUME TypeOK, NEW s \in Surplus, NEW t \in idle \cap expired, t < s
    PROVE  t \in Surplus
<1> DEFINE After(u) == {v \in idle : v > u}
<1>1. idle \subseteq Seqs /\ IsFiniteSet(Seqs) /\ s \in idle
  BY PoolAssumption, FS_Interval DEF TypeOK, Seqs, Surplus
<1>2. After(s) \subseteq After(t)
  <2>1. s \in Nat /\ t \in Nat /\ \A v \in idle : v \in Nat
    BY <1>1, PoolAssumption DEF Seqs
  <2>2. \A v \in idle : v > s => v > t
    BY <2>1
  <2>. QED
    BY <2>2
<1>3. IsFiniteSet(After(t)) /\ IsFiniteSet(After(s))
  BY <1>1, FS_Subset
<1>4. /\ Cardinality(After(s)) <= Cardinality(After(t))
      /\ Cardinality(After(s)) \in Nat /\ Cardinality(After(t)) \in Nat
  BY <1>2, <1>3, FS_Subset, FS_CardinalityType
<1>5. Cardinality(After(s)) >= MinIdle
  BY DEF Surplus
<1>. QED
  BY <1>4, <1>5, PoolAssumption DEF Surplus

\* The cleanup always leaves the reserve, and takes the oldest sessions first, all
\* of them expired (idleCleanupExpTime).
THEOREM ReserveKept == Spec => CleanupReserve
<1>1. TypeOK /\ Cleanup =>
        \A s \in idle \ idle' :
           /\ Cardinality({t \in idle' : t > s}) >= MinIdle
           /\ s \in expired
           /\ \A t \in idle \cap expired : t < s => t \notin idle'
  <2> SUFFICES ASSUME TypeOK, Cleanup, NEW s \in idle \ idle'
               PROVE  /\ Cardinality({t \in idle' : t > s}) >= MinIdle
                      /\ s \in expired
                      /\ \A t \in idle \cap expired : t < s => t \notin idle'
    OBVIOUS
  <2>1. idle' = idle \ Surplus /\ s \in Surplus
    BY DEF Cleanup
  <2>2. Cardinality({t \in idle' : t > s}) >= MinIdle
    BY <2>1, ReserveStays
  <2>3. s \in expired
    BY <2>1 DEF Surplus
  <2>4. \A t \in idle \cap expired : t < s => t \notin idle'
    BY <2>1, OldestFirst
  <2>. QED
    BY <2>2, <2>3, <2>4
<1>. QED
  BY <1>1, TypeCorrect, PTL DEF Spec, CleanupReserve
=============================================================================
