---------------------------- MODULE TrafficProofs ----------------------------
(***************************************************************************)
(* The accounting of Traffic for any number of users, connections, retries *)
(* and restarts.                                                           *)
(*                                                                         *)
(* Every action is a movement between the places that hold traffic.  The   *)
(* proof states for each which places change and what their sum does, user *)
(* by user, and leaves the types and the program counters to separate      *)
(* steps.                                                                  *)
(***************************************************************************)
EXTENDS Traffic, TLAPS

\* An empty snapshot is a function of the users; adding two keeps the type.
LEMMA PlusType ==
    ASSUME NEW f \in [Users -> Nat], NEW g \in [Users -> Nat]
    PROVE  /\ Plus(f, g) \in [Users -> Nat]
           /\ \A u \in Users : Plus(f, g)[u] = f[u] + g[u]
BY DEF Plus

LEMMA NoneType == None \in [Users -> Nat] /\ \A u \in Users : None[u] = 0
BY DEF None

\* All of IInv but what a quiet shutdown does, which the other parts do not need.
Books == TypeOK /\ Conserved /\ FileNotAhead /\ Held /\ CopyNotAhead

LEMMA InitInv == Init => IInv
BY TrafficAssumption, NoneType
   DEF Init, IInv, TypeOK, Conserved, FileNotAhead, Held, CopyNotAhead, AloneWithFile,
       Pushers, Steps

\* An Add moves n into the counter of one user, or loses it.
LEMMA AddMoves ==
    ASSUME TypeOK, NEW x \in Adders, NEW u \in Users, NEW n \in Nat, AddTo(x, u, n)
    PROVE  /\ live' \in SUBSET (Adders \X Users) /\ orphans' \in SUBSET (Adders \X Users)
           /\ counter' \in [Users -> Nat] /\ gone' \in [Users -> Nat]
           /\ counter'[u] + gone'[u] = counter[u] + gone[u] + n
           /\ \A v \in Users \ {u} : counter'[v] = counter[v] /\ gone'[v] = gone[v]
           /\ \A v \in Users : counter[v] <= counter'[v]
<1>1. CASE counter' = [counter EXCEPT ![u] = @ + n] /\ UNCHANGED gone
  BY <1>1 DEF TypeOK, AddTo
<1>2. CASE gone' = [gone EXCEPT ![u] = @ + n] /\ UNCHANGED counter
  BY <1>2 DEF TypeOK, AddTo
<1>. QED
  BY <1>1, <1>2 DEF AddTo

LEMMA BooksNext == Books /\ [Next]_vars => Books'
<1> SUFFICES ASSUME Books, [Next]_vars PROVE Books'
  OBVIOUS
<1> USE TrafficAssumption, NoneType
    DEF Books, Steps, Pushers, addVars, fileVars, panelVars, Goto
<1>1. ASSUME NEW c \in Conns, NEW u \in Users, ConnFindsEntry(c, u) PROVE Books'
  BY <1>1 DEF ConnFindsEntry, FindEntry, Calm, Adders, TypeOK, Conserved, FileNotAhead,
              Held, CopyNotAhead
<1>2. ASSUME NEW c \in Conns, NEW u \in Users, ConnAdds(c, u) PROVE Books'
  <2>1. c \in Adders /\ AddTo(c, u, 1)
    BY <1>2 DEF ConnAdds, Adders
  <2>2. /\ counter' \in [Users -> Nat] /\ gone' \in [Users -> Nat]
        /\ live' \in SUBSET (Adders \X Users) /\ orphans' \in SUBSET (Adders \X Users)
        /\ counter'[u] + gone'[u] = counter[u] + gone[u] + 1
        /\ \A v \in Users \ {u} : counter'[v] = counter[v] /\ gone'[v] = gone[v]
        /\ \A v \in Users : counter[v] <= counter'[v]
    BY <2>1, AddMoves
  <2>3. TypeOK'
    <3>1. moved' \in [Users -> Nat]
      BY <1>2 DEF ConnAdds, TypeOK
    <3>2. quiet' \in BOOLEAN
      BY <1>2 DEF ConnAdds, Calm
    <3>. QED
      BY <1>2, <2>2, <3>1, <3>2 DEF ConnAdds, TypeOK
  <2>4. Conserved'
    BY <1>2, <2>2, <2>3 DEF ConnAdds, TypeOK, Conserved
  <2>. QED
    BY <1>2, <2>2, <2>3, <2>4 DEF ConnAdds, TypeOK, FileNotAhead, Held, CopyNotAhead
<1>3. ASSUME NEW p \in Pushers, Swap(p) PROVE Books'
  <2>1. TypeOK'
    BY <1>3 DEF Swap, TypeOK
  <2>2. snap[p] = None
    BY <1>3 DEF Swap, Held
  <2>3. Conserved'
    BY <1>3, <2>1, <2>2 DEF Swap, TypeOK, Conserved
  <2>. QED
    BY <1>3, <2>1, <2>3 DEF Swap, TypeOK, FileNotAhead, Held, CopyNotAhead
<1>4. ASSUME NEW p \in Pushers, Prune(p) PROVE Books'
  <2>1. TypeOK'
    BY <1>4 DEF Prune, TypeOK
  <2>. QED
    BY <1>4, <2>1 DEF Prune, TypeOK, Conserved, FileNotAhead, Held, CopyNotAhead
<1>5. ASSUME NEW p \in Pushers, PushAccepted(p) PROVE Books'
  <2>1. snap[p] \in [Users -> Nat] /\ reported \in [Users -> Nat]
    BY DEF TypeOK
  <2>2. /\ reported' \in [Users -> Nat]
        /\ \A u \in Users : reported'[u] = reported[u] + snap[p][u]
    BY <1>5, <2>1, PlusType DEF PushAccepted
  <2>3. TypeOK'
    BY <1>5, <2>2 DEF PushAccepted, TypeOK
  <2>4. Conserved'
    BY <1>5, <2>2, <2>3 DEF PushAccepted, TypeOK, Conserved
  <2>. QED
    BY <1>5, <2>3, <2>4 DEF PushAccepted, TypeOK, FileNotAhead, Held, CopyNotAhead
<1>6. ASSUME NEW p \in Pushers, PushRefused(p) PROVE Books'
  BY <1>6 DEF PushRefused, TypeOK, Conserved, FileNotAhead, Held, CopyNotAhead
<1>7. ASSUME NEW p \in Pushers, PushFails(p) PROVE Books'
  <2>1. TypeOK'
    BY <1>7 DEF PushFails, TryAgain, TypeOK
  <2>. QED
    BY <1>7, <2>1 DEF PushFails, TryAgain, TypeOK, Conserved, FileNotAhead, Held,
                      CopyNotAhead
<1>8. ASSUME NEW p \in Pushers, ReplyLost(p) PROVE Books'
  <2>1. /\ snap[p] \in [Users -> Nat]
        /\ reported \in [Users -> Nat] /\ again \in [Users -> Nat]
    BY DEF TypeOK
  <2>2. /\ reported' \in [Users -> Nat] /\ again' \in [Users -> Nat]
        /\ \A u \in Users : /\ reported'[u] = reported[u] + snap[p][u]
                            /\ again'[u] = again[u] + snap[p][u]
    BY <1>8, <2>1, PlusType DEF ReplyLost
  <2>3. TypeOK'
    BY <1>8, <2>2 DEF ReplyLost, TryAgain, TypeOK
  <2>4. Conserved'
    BY <1>8, <2>2, <2>3 DEF ReplyLost, TypeOK, Conserved
  <2>. QED
    BY <1>8, <2>3, <2>4 DEF ReplyLost, TryAgain, TypeOK, FileNotAhead, Held, CopyNotAhead
<1>9. ASSUME NEW p \in Pushers, NEW u \in Users, MergeFindsEntry(p, u) PROVE Books'
  BY <1>9 DEF MergeFindsEntry, FindEntry, Adders, TypeOK, Conserved, FileNotAhead,
              Held, CopyNotAhead
<1>10. ASSUME NEW p \in Pushers, NEW u \in Users, MergeAdds(p, u) PROVE Books'
  <2>1. p \in Adders /\ snap[p][u] \in Nat /\ AddTo(p, u, snap[p][u])
    BY <1>10 DEF MergeAdds, Adders, TypeOK
  <2>2. /\ counter' \in [Users -> Nat] /\ gone' \in [Users -> Nat]
        /\ live' \in SUBSET (Adders \X Users) /\ orphans' \in SUBSET (Adders \X Users)
        /\ counter'[u] + gone'[u] = counter[u] + gone[u] + snap[p][u]
        /\ \A v \in Users \ {u} : counter'[v] = counter[v] /\ gone'[v] = gone[v]
        /\ \A v \in Users : counter[v] <= counter'[v]
    BY <2>1, AddMoves
  <2>3. TypeOK'
    BY <1>10, <2>2 DEF MergeAdds, TypeOK
  <2>4. /\ snap'[p][u] = 0
        /\ \A v \in Users \ {u} : snap'[p][v] = snap[p][v]
        /\ \A q \in Pushers \ {p} : snap'[q] = snap[q]
    BY <1>10 DEF MergeAdds, TypeOK
  <2>5. Conserved'
    <3> SUFFICES ASSUME NEW v \in Users
                 PROVE  reported[v] + counter'[v] + snap'["sync"][v]
                          + snap'["shutdown"][v] + gone'[v] = moved[v] + again[v]
      BY <1>10 DEF MergeAdds, Conserved
    <3>1. reported[v] + counter[v] + snap["sync"][v] + snap["shutdown"][v] + gone[v]
            = moved[v] + again[v]
      BY DEF Conserved
    <3>2. /\ snap["sync"][v] \in Nat /\ snap["shutdown"][v] \in Nat
          /\ reported[v] \in Nat /\ moved[v] \in Nat /\ again[v] \in Nat
          /\ counter[v] \in Nat /\ gone[v] \in Nat
          /\ counter'[v] \in Nat /\ gone'[v] \in Nat
      BY <2>2 DEF TypeOK
    <3>3. CASE v = u
      BY <2>2, <2>4, <3>1, <3>2, <3>3
    <3>4. CASE v # u
      BY <2>2, <2>4, <3>1, <3>2, <3>4
    <3>. QED
      BY <3>3, <3>4
  <2>6. Held'
    BY <1>10 DEF MergeAdds, TypeOK, Held
  <2>. QED
    BY <1>10, <2>2, <2>3, <2>5, <2>6 DEF MergeAdds, TypeOK, FileNotAhead, CopyNotAhead
<1>11. ASSUME NEW p \in Pushers, CopyCounters(p) PROVE Books'
  BY <1>11 DEF CopyCounters, TypeOK, Conserved, FileNotAhead, Held, CopyNotAhead
<1>12. ASSUME NEW p \in Pushers, RemoveFile(p) PROVE Books'
  <2>1. TypeOK'
    BY <1>12 DEF RemoveFile, AfterSave, TypeOK
  <2>2. FileNotAhead'
    BY <1>12, <2>1 DEF RemoveFile, TypeOK, FileNotAhead
  <2>3. Held' /\ CopyNotAhead'
    BY <1>12 DEF RemoveFile, AfterSave, TypeOK, Held, CopyNotAhead
  <2>. QED
    BY <1>12, <2>1, <2>2, <2>3 DEF RemoveFile, TypeOK, Conserved
<1>13. ASSUME NEW p \in Pushers, Truncate(p) PROVE Books'
  BY <1>13 DEF Truncate, TypeOK, Conserved, FileNotAhead, Held, CopyNotAhead
<1>14. ASSUME NEW p \in Pushers, WriteFile(p) PROVE Books'
  <2>1. TypeOK'
    BY <1>14 DEF WriteFile, AfterSave, TypeOK
  <2>2. FileNotAhead'
    BY <1>14, <2>1 DEF WriteFile, AfterSave, TypeOK, FileNotAhead, CopyNotAhead
  <2>3. Held' /\ CopyNotAhead'
    BY <1>14 DEF WriteFile, AfterSave, TypeOK, Held, CopyNotAhead
  <2>. QED
    BY <1>14, <2>1, <2>2, <2>3 DEF WriteFile, TypeOK, Conserved
<1>15. CASE SyncStops
  BY <1>15 DEF SyncStops, TypeOK, Conserved, FileNotAhead, Held, CopyNotAhead
<1>16. CASE Exit
  BY <1>16 DEF Exit, TypeOK, Conserved, FileNotAhead, Held, CopyNotAhead
<1>17. CASE Restart
  <2>1. /\ counter \in [Users -> Nat] /\ disk \in [Users -> Nat]
        /\ snap["sync"] \in [Users -> Nat] /\ snap["shutdown"] \in [Users -> Nat]
        /\ gone \in [Users -> Nat] /\ again \in [Users -> Nat]
    BY DEF TypeOK
  <2> DEFINE held == Plus(snap["sync"], snap["shutdown"])
  <2>2. /\ held \in [Users -> Nat]
        /\ \A u \in Users : held[u] = snap["sync"][u] + snap["shutdown"][u]
    BY <2>1, PlusType
  <2>3. /\ Plus(counter, held) \in [Users -> Nat]
        /\ \A u \in Users : Plus(counter, held)[u] = counter[u] + held[u]
    BY <2>1, <2>2, PlusType
  <2>4. /\ gone' \in [Users -> Nat]
        /\ \A u \in Users : gone'[u] = gone[u] + Plus(counter, held)[u]
    BY <1>17, <2>1, <2>3, PlusType DEF Restart
  <2>5. /\ again' \in [Users -> Nat]
        /\ \A u \in Users : again'[u] = again[u] + disk[u]
    BY <1>17, <2>1, PlusType DEF Restart
  <2> HIDE DEF held
  <2>6. TypeOK'
    BY <1>17, <2>1, <2>4, <2>5 DEF Restart, TypeOK
  <2>7. Conserved'
    BY <1>17, <2>1, <2>2, <2>3, <2>4, <2>5, SMTT(60) DEF Restart, TypeOK, Conserved
  <2>. QED
    BY <1>17, <2>6, <2>7 DEF Restart, TypeOK, FileNotAhead, Held, CopyNotAhead
<1>18. CASE UNCHANGED vars
  BY <1>18 DEF vars, TypeOK, Conserved, FileNotAhead, Held, CopyNotAhead
<1>. QED
  BY <1>1, <1>2, <1>3, <1>4, <1>5, <1>6, <1>7, <1>8, <1>9, <1>10, <1>11, <1>12,
     <1>13, <1>14, <1>15, <1>16, <1>17, <1>18 DEF Next, PushStep

\* What a shutdown that nothing disturbs does alone: every other step makes the
\* shutdown no longer quiet, touches neither counter nor file, or comes before.
LEMMA AloneNext == Books /\ AloneWithFile /\ [Next]_vars => AloneWithFile'
<1> SUFFICES ASSUME Books, AloneWithFile, [Next]_vars, quiet', pc'["shutdown"] # "idle"
             PROVE  AloneWithFile'
  BY DEF AloneWithFile
<1> USE DEF Books, Pushers, Steps, addVars, fileVars, panelVars, Goto
<1>1. ASSUME NEW c \in Conns, NEW u \in Users, ConnFindsEntry(c, u) PROVE AloneWithFile'
  BY <1>1 DEF ConnFindsEntry, FindEntry, Calm, AloneWithFile
<1>2. ASSUME NEW c \in Conns, NEW u \in Users, ConnAdds(c, u) PROVE AloneWithFile'
  BY <1>2 DEF ConnAdds, Calm, AloneWithFile
<1>3. ASSUME NEW p \in Pushers, Swap(p) PROVE AloneWithFile'
  BY <1>3 DEF Swap, TypeOK, AloneWithFile
<1>4. ASSUME NEW p \in Pushers, Prune(p) PROVE AloneWithFile'
  BY <1>4 DEF Prune, TypeOK, AloneWithFile
<1>5. ASSUME NEW p \in Pushers, \/ PushAccepted(p) \/ PushRefused(p)
                                \/ PushFails(p) \/ ReplyLost(p)
      PROVE  AloneWithFile'
  BY <1>5 DEF PushAccepted, PushRefused, PushFails, ReplyLost, TryAgain, TypeOK,
              AloneWithFile
<1>6. ASSUME NEW p \in Pushers, NEW u \in Users, MergeFindsEntry(p, u)
      PROVE  AloneWithFile'
  BY <1>6 DEF MergeFindsEntry, FindEntry, AloneWithFile
<1>7. ASSUME NEW p \in Pushers, NEW u \in Users, MergeAdds(p, u) PROVE AloneWithFile'
  BY <1>7 DEF MergeAdds, TypeOK, AloneWithFile
<1>8. ASSUME NEW p \in Pushers, CopyCounters(p) PROVE AloneWithFile'
  BY <1>8 DEF CopyCounters, TypeOK, AloneWithFile
<1>9. ASSUME NEW p \in Pushers, RemoveFile(p) PROVE AloneWithFile'
  BY <1>9 DEF RemoveFile, AfterSave, TypeOK, AloneWithFile
<1>10. ASSUME NEW p \in Pushers, Truncate(p) PROVE AloneWithFile'
  BY <1>10 DEF Truncate, TypeOK, AloneWithFile
<1>11. ASSUME NEW p \in Pushers, WriteFile(p) PROVE AloneWithFile'
  BY <1>11 DEF WriteFile, AfterSave, TypeOK, AloneWithFile
<1>12. CASE SyncStops
  BY <1>12 DEF SyncStops, TypeOK, AloneWithFile
<1>13. CASE Exit
  BY <1>13 DEF Exit, TypeOK, AloneWithFile
<1>14. CASE Restart
  BY <1>14 DEF Restart
<1>15. CASE UNCHANGED vars
  BY <1>15 DEF vars, AloneWithFile
<1>. QED
  BY <1>1, <1>2, <1>3, <1>4, <1>5, <1>6, <1>7, <1>8, <1>9, <1>10, <1>11, <1>12,
     <1>13, <1>14, <1>15 DEF Next, PushStep

LEMMA Invariance == Spec => []IInv
<1>1. Init => IInv
  BY InitInv
<1>2. IInv /\ [Next]_vars => IInv'
  BY BooksNext, AloneNext DEF IInv, Books
<1>. QED
  BY <1>1, <1>2, PTL DEF Spec

\* Every variable keeps its type; in particular no counter goes below zero and
\* doWithRetry makes no more attempts than it has delays, plus one.
THEOREM TrafficTypeCorrect == Spec => []TypeOK
<1>1. IInv => TypeOK
  BY DEF IInv
<1>. QED
  BY <1>1, Invariance, PTL

\* Add, Snapshot, Merge, PushTraffic, SaveToFile and LoadFromFile neither lose
\* nor double traffic in any way but those the histories name.
THEOREM TrafficConserved == Spec => []Conserved
<1>1. IInv => Conserved
  BY DEF IInv
<1>. QED
  BY <1>1, Invariance, PTL

\* Between two rounds of doPush the file holds nothing that was reported.
THEOREM FileNeverAhead == Spec => []FileNotAhead
<1>1. IInv => FileNotAhead
  BY DEF IInv
<1>. QED
  BY <1>1, Invariance, PTL

\* What the panel does not take of a server that is shut down while nothing goes
\* on is in the file that Shutdown leaves, to the byte.
THEOREM NothingLeftOut == Spec => []QuietShutdownSaves
<1>1. IInv => QuietShutdownSaves
  <2> SUFFICES ASSUME IInv, pc["shutdown"] = "exited", quiet, NEW u \in Users
               PROVE  reported[u] + disk[u] + gone[u] = moved[u] + again[u]
    BY DEF QuietShutdownSaves
  <2>1. disk = counter /\ pc["sync"] \in {"idle", "stopped"}
    BY DEF IInv, AloneWithFile
  <2>2. snap["sync"][u] = 0 /\ snap["shutdown"][u] = 0
    BY <2>1, NoneType DEF IInv, Held, Pushers
  <2>3. /\ reported[u] \in Nat /\ counter[u] \in Nat /\ gone[u] \in Nat
        /\ moved[u] \in Nat /\ again[u] \in Nat
    BY DEF IInv, TypeOK
  <2>. QED
    BY <2>1, <2>2, <2>3 DEF IInv, Conserved
<1>. QED
  BY <1>1, Invariance, PTL
=============================================================================
