---------------------------- MODULE AdmissionProofs ----------------------------
(***************************************************************************)
(* Invariants of Admission and the length of its bans, for any number of   *)
(* connections, addresses and users, any limit and any durations that meet *)
(* AdmissionAssumption.                                                    *)
(***************************************************************************)
EXTENDS Admission, TLAPS

\* The initial state satisfies the inductive invariant.
LEMMA InitInv == Init => IInv
BY AdmissionAssumption
   DEF Init, IInv, TypeOK, Known, BannedBeyond, NoGhosts, Steps

\* Growing older keeps the order of two ages, and what is past the limit past it.
LEMMA OlderKeeps ==
    ASSUME NEW limit \in Nat, NEW s \in 0 .. limit + 1, NEW t \in 0 .. limit + 1
    PROVE  /\ Older(t, limit) \in 0 .. limit + 1
           /\ t <= Older(t, limit) /\ Older(t, limit) <= t + 1
           /\ t <= limit => Older(t, limit) = t + 1
           /\ s <= t => Older(s, limit) <= Older(t, limit)
BY DEF Older

\* Deleting records, which IsBanned and Cleanup do, keeps the types and does
\* not hide a count beyond the limit.
LEMMA ForgetKeeps ==
    ASSUME TypeOK, BannedBeyond, NEW as \in SUBSET Addrs, Forget(as)
    PROVE  /\ count' \in [Addrs -> 0 .. MaxFailures + 1]
           /\ first' \in [Addrs -> 0 .. Window + 1]
           /\ banned' \in SUBSET Addrs
           /\ banAge' \in [Addrs -> 0 .. BanTime + 1]
           /\ recent' \in [Addrs -> [Latest -> 0 .. Window + 1]]
           /\ BannedBeyond'
<1>1. /\ 0 \in 0 .. MaxFailures + 1 /\ 0 \in 0 .. Window + 1
      /\ 0 \in 0 .. BanTime + 1 /\ 0 <= MaxFailures
  BY AdmissionAssumption
<1>2. count' \in [Addrs -> 0 .. MaxFailures + 1]
  BY <1>1 DEF TypeOK, Forget
<1>3. first' \in [Addrs -> 0 .. Window + 1]
  BY <1>1 DEF TypeOK, Forget
<1>4. banned' \in SUBSET Addrs /\ recent' = recent
  BY DEF TypeOK, Forget
<1>5. banAge' \in [Addrs -> 0 .. BanTime + 1]
  BY <1>1 DEF TypeOK, Forget
<1>6. BannedBeyond'
  BY <1>1 DEF BannedBeyond, Forget
<1>7. QED
  BY <1>2, <1>3, <1>4, <1>5, <1>6 DEF TypeOK

\* One more failure of age 0 in a history.
LEMMA OneMore ==
    ASSUME NEW f \in [Latest -> 0 .. Window + 1]
    PROVE  [i \in Latest |-> IF i = 1 THEN 0 ELSE f[i - 1]] \in [Latest -> 0 .. Window + 1]
BY AdmissionAssumption DEF Latest

\* A failure that counts goes into the history once.
LEMMA CountedKeeps ==
    ASSUME TypeOK, NEW a \in Addrs, NEW n \in 0 .. MaxFailures + 1,
           NEW t \in 0 .. Window + 1, Counted(a, n, t)
    PROVE  /\ count' \in [Addrs -> 0 .. MaxFailures + 1]
           /\ first' \in [Addrs -> 0 .. Window + 1]
           /\ recent' \in [Addrs -> [Latest -> 0 .. Window + 1]]
           /\ \A b \in Addrs : count'[b] = IF b = a THEN n ELSE count[b]
<1>2. recent[a] \in [Latest -> 0 .. Window + 1]
  BY DEF TypeOK
<1>3. [i \in Latest |-> IF i = 1 THEN 0 ELSE recent[a][i - 1]] \in [Latest -> 0 .. Window + 1]
  BY <1>2, OneMore
<1>4. recent' \in [Addrs -> [Latest -> 0 .. Window + 1]]
  BY <1>3 DEF TypeOK, Counted
<1>5. QED
  BY <1>4 DEF TypeOK, Counted

\* RecordFailure keeps the types, and bans an address whose count exceeds the
\* limit; a ban it finds it leaves as it is.
LEMMA RecordFailureKeeps ==
    ASSUME TypeOK, BannedBeyond, NEW a \in Addrs, RecordFailure(a)
    PROVE  /\ count' \in [Addrs -> 0 .. MaxFailures + 1]
           /\ first' \in [Addrs -> 0 .. Window + 1]
           /\ banned' \in SUBSET Addrs
           /\ banAge' \in [Addrs -> 0 .. BanTime + 1]
           /\ recent' \in [Addrs -> [Latest -> 0 .. Window + 1]]
           /\ BannedBeyond'
           /\ banned \subseteq banned' /\ banAge' = banAge
<1> USE AdmissionAssumption
<1>1. CASE a \in banned /\ UNCHANGED banVars
  BY <1>1 DEF TypeOK, BannedBeyond, banVars
<1>2. CASE /\ Counted(a, 1, 0)
           /\ UNCHANGED << banned, banAge >>
  <2>1. 1 \in 0 .. MaxFailures + 1 /\ 0 \in 0 .. Window + 1
    OBVIOUS
  <2>2. /\ count' \in [Addrs -> 0 .. MaxFailures + 1]
        /\ first' \in [Addrs -> 0 .. Window + 1]
        /\ recent' \in [Addrs -> [Latest -> 0 .. Window + 1]]
        /\ \A b \in Addrs : count'[b] = IF b = a THEN 1 ELSE count[b]
    BY <1>2, <2>1, CountedKeeps
  <2>3. 1 <= MaxFailures
    OBVIOUS
  <2>4. BannedBeyond'
    BY <1>2, <2>2, <2>3 DEF BannedBeyond
  <2>5. QED
    BY <1>2, <2>2, <2>4 DEF TypeOK
<1>3. CASE /\ a \notin banned
           /\ Counted(a, count[a] + 1, first[a])
           /\ banned' = IF count[a] + 1 > MaxFailures THEN banned \cup {a} ELSE banned
           /\ UNCHANGED banAge
  <2>1. count[a] + 1 \in 0 .. MaxFailures + 1 /\ first[a] \in 0 .. Window + 1
    BY <1>3 DEF TypeOK, BannedBeyond
  <2>2. /\ count' \in [Addrs -> 0 .. MaxFailures + 1]
        /\ first' \in [Addrs -> 0 .. Window + 1]
        /\ recent' \in [Addrs -> [Latest -> 0 .. Window + 1]]
        /\ \A b \in Addrs : count'[b] = IF b = a THEN count[a] + 1 ELSE count[b]
    BY <1>3, <2>1, CountedKeeps
  <2>3. ASSUME NEW b \in Addrs, b \notin banned' PROVE count'[b] <= MaxFailures
    <3>1. CASE b = a
      <4>1. ~(count[a] + 1 > MaxFailures)
        BY <1>3, <2>3, <3>1
      <4>2. QED
        BY <2>1, <2>2, <3>1, <4>1
    <3>2. CASE b # a
      <4>1. b \notin banned
        BY <1>3, <2>3
      <4>2. QED
        BY <2>2, <3>2, <4>1 DEF BannedBeyond
    <3>3. QED
      BY <3>1, <3>2
  <2>4. QED
    BY <1>3, <2>2, <2>3 DEF TypeOK, BannedBeyond
<1>4. QED
  BY <1>1, <1>2, <1>3 DEF RecordFailure

\* Every step preserves the inductive invariant.
LEMMA NextInv == IInv /\ [Next]_vars => IInv'
<1> SUFFICES ASSUME IInv, [Next]_vars PROVE IInv'
  OBVIOUS
<1> USE AdmissionAssumption
<1>0. TypeOK /\ Known /\ BannedBeyond /\ NoGhosts
  BY DEF IInv
<1>1. ASSUME NEW c \in Conns, NEW a \in Addrs, Accept(c, a) PROVE IInv'
  <2>1. CASE UNCHANGED vars
    BY <1>0, <2>1 DEF IInv, TypeOK, Known, BannedBeyond, NoGhosts, Device, vars
  <2>2. CASE ~Barred(a)
    <3>1. /\ pc[c] = "idle" /\ pc' = [pc EXCEPT ![c] = "handshake"]
          /\ addr' = [addr EXCEPT ![c] = a] /\ user' = user /\ online' = online
      BY <1>1, <2>2 DEF Accept, Goto
    <3>2. Forget({a}) \/ UNCHANGED banVars
      BY <1>1, <2>2 DEF Accept
    <3>3. TypeOK' /\ BannedBeyond'
      BY <1>0, <3>1, <3>2, ForgetKeeps DEF TypeOK, BannedBeyond, banVars, Steps
    <3>4. Known'
      BY <1>0, <3>1 DEF Known, TypeOK
    <3>5. NoGhosts'
      BY <1>0, <3>1 DEF NoGhosts, Device, TypeOK
    <3>6. QED
      BY <3>3, <3>4, <3>5 DEF IInv
  <2>3. QED
    BY <1>1, <2>1, <2>2 DEF Accept, vars, banVars
<1>2. ASSUME NEW c \in Conns, NEW u \in Users, Authenticate(c, u) PROVE IInv'
  BY <1>0, <1>2
     DEF IInv, TypeOK, Known, BannedBeyond, NoGhosts, Device, Authenticate, Goto,
         banVars, Steps
<1>3. ASSUME NEW c \in Conns, HandshakeFails(c) \/ TooManyDevices(c) PROVE IInv'
  BY <1>0, <1>3
     DEF IInv, TypeOK, Known, BannedBeyond, NoGhosts, Device, HandshakeFails,
         TooManyDevices, Done, Goto, banVars, Steps
<1>4. ASSUME NEW c \in Conns, AuthFails(c) PROVE IInv'
  <2>1. addr[c] \in Addrs /\ RecordFailure(addr[c])
    BY <1>0, <1>4 DEF AuthFails, Known
  <2>2. TypeOK' /\ BannedBeyond'
    BY <1>0, <1>4, <2>1, RecordFailureKeeps DEF TypeOK, AuthFails, Done, Goto, Steps
  <2>3. Known' /\ NoGhosts'
    BY <1>0, <1>4 DEF Known, NoGhosts, Device, TypeOK, AuthFails, Done, Goto
  <2>4. QED
    BY <2>2, <2>3 DEF IInv
<1>5. ASSUME NEW c \in Conns, Track(c) PROVE IInv'
  <2>1. user[c] \in Users /\ addr[c] \in Addrs
    BY <1>0, <1>5 DEF Track, Known
  <2>2. TypeOK' /\ Known' /\ BannedBeyond'
    BY <1>0, <1>5, <2>1
       DEF TypeOK, Known, BannedBeyond, Device, Track, Goto, banVars, Steps
  <2>3. NoGhosts'
    BY <1>0, <1>5 DEF NoGhosts, Device, TypeOK, Track, Goto
  <2>4. QED
    BY <2>2, <2>3 DEF IInv
<1>6. ASSUME NEW c \in Conns, Remove(c) PROVE IInv'
  <2>1. TypeOK' /\ Known' /\ BannedBeyond'
    BY <1>0, <1>6 DEF TypeOK, Known, BannedBeyond, Remove, Done, Goto, banVars, Steps
  <2>2. ASSUME NEW d \in online' PROVE \E e \in Conns : pc'[e] = "session" /\ Device(e)' = d
    <3>1. d \in online /\ d # Device(c)
      BY <1>6, <2>2 DEF Remove
    <3>2. PICK e \in Conns : pc[e] = "session" /\ Device(e) = d
      BY <1>0, <3>1 DEF NoGhosts
    <3>3. e # c
      BY <3>1, <3>2
    <3>4. QED
      BY <1>0, <1>6, <3>2, <3>3 DEF TypeOK, Device, Remove, Done, Goto
  <2>3. QED
    BY <2>1, <2>2 DEF IInv, NoGhosts
<1>7. ASSUME Cleanup PROVE IInv'
  <2>1. PICK as \in SUBSET Addrs : Forget(as)
    BY <1>7 DEF Cleanup
  <2>2. TypeOK' /\ BannedBeyond'
    BY <1>0, <1>7, <2>1, ForgetKeeps DEF TypeOK, Cleanup, connVars
  <2>3. Known' /\ NoGhosts'
    BY <1>0, <1>7 DEF Known, NoGhosts, Device, Cleanup, connVars
  <2>4. QED
    BY <2>2, <2>3 DEF IInv
<1>8. ASSUME Tick PROVE IInv'
  <2>1. /\ first' \in [Addrs -> 0 .. Window + 1]
        /\ banAge' \in [Addrs -> 0 .. BanTime + 1]
    <3>1. /\ \A t \in 0 .. Window + 1 : Older(t, Window) \in 0 .. Window + 1
          /\ \A t \in 0 .. BanTime + 1 : Older(t, BanTime) \in 0 .. BanTime + 1
          /\ 0 \in 0 .. Window + 1 /\ 0 \in 0 .. BanTime + 1
      BY OlderKeeps
    <3>2. QED
      BY <1>0, <1>8, <3>1 DEF TypeOK, Tick
  <2>2. recent' \in [Addrs -> [Latest -> 0 .. Window + 1]]
    <3>1. \A t \in 0 .. Window + 1 : Older(t, Window) \in 0 .. Window + 1
      BY OlderKeeps
    <3>2. QED
      BY <1>0, <1>8, <3>1 DEF TypeOK, Tick
  <2>3. TypeOK' /\ Known' /\ BannedBeyond' /\ NoGhosts'
    BY <1>0, <1>8, <2>1, <2>2
       DEF TypeOK, Known, BannedBeyond, NoGhosts, Device, Tick, connVars
  <2>4. QED
    BY <2>3 DEF IInv
<1>9. CASE UNCHANGED vars
  BY <1>0, <1>9 DEF IInv, TypeOK, Known, BannedBeyond, NoGhosts, Device, vars
<1>10. QED
  BY <1>1, <1>2, <1>3, <1>4, <1>5, <1>6, <1>7, <1>8, <1>9 DEF Next

\* The inductive invariant holds throughout.
LEMMA Invariance == Spec => []IInv
BY InitInv, NextInv, PTL DEF Spec

\* Initially no failure has counted, ever.
LEMMA InitFailures == Init => FailureInv
<1> SUFFICES ASSUME Init PROVE FailureInv
  OBVIOUS
<1>1. \A a \in Addrs : \A i \in Latest : recent[a][i] = Window + 1
  BY DEF Init
<1>2. MaxFailures \in Latest
  BY AdmissionAssumption DEF Latest
<1>. QED
  BY <1>1, <1>2, AdmissionAssumption
     DEF Init, FailureInv, LatestFirst, RecordsLatest, BanIsLater, AtLeast

\* The places of the history the invariant looks at, and what is there.
LEMMA Places ==
    ASSUME IInv, NEW a \in Addrs
    PROVE  /\ count[a] \in Nat /\ first[a] \in Nat /\ banAge[a] \in Nat
           /\ \A i \in Latest : recent[a][i] \in 0 .. Window + 1
           /\ a \notin banned => /\ count[a] <= MaxFailures
                                 /\ count[a] + MaxFailures \in Latest
                                 /\ count[a] > 0 => count[a] \in Latest
BY AdmissionAssumption, SMTT(60) DEF IInv, TypeOK, BannedBeyond, Latest

\* A record may be deleted when its ban is over, or when its window is: then the
\* failures it counted, and all before them, are older than the window.
LEMMA ForgetFailures ==
    ASSUME IInv, FailureInv, NEW as \in SUBSET Addrs, Forget(as),
           \A a \in as : IF a \in banned THEN BanOver(a)
                         ELSE count[a] > 0 /\ first[a] > Window
    PROVE  FailureInv'
<1> USE AdmissionAssumption
<1>1. recent' = recent /\ banned' = banned \ as
  BY DEF Forget
<1>2. LatestFirst'
  BY <1>1 DEF FailureInv, LatestFirst
<1>3. ASSUME NEW a \in as PROVE ~AtLeast(MaxFailures, a)
  <2>0. /\ a \in Addrs /\ banAge[a] \in Nat
        /\ \A i \in Latest : recent[a][i] \in 0 .. Window + 1
    <3>1. a \in Addrs
      OBVIOUS
    <3>. QED
      BY <3>1, Places
  <2>1. MaxFailures \in Latest /\ recent[a][MaxFailures] \in Nat
    BY <2>0, Places DEF Latest
  <2>2. CASE a \in banned
    <3>1. recent[a][MaxFailures] >= banAge[a] \/ recent[a][MaxFailures] > Window
      BY <2>1, <2>2 DEF FailureInv, BanIsLater
    <3>2. banAge[a] > BanTime
      BY <2>2 DEF BanOver
    <3>. QED
      BY <2>0, <2>1, <3>1, <3>2 DEF AtLeast
  <2>3. CASE a \notin banned
    <3>0. count[a] > 0 /\ first[a] > Window
      BY <2>3
    <3>1. count[a] \in Latest /\ count[a] <= MaxFailures
      BY <2>0, <2>3, <3>0, Places
    <3>2. recent[a][count[a]] > Window
      BY <2>0, <2>3, <3>0 DEF FailureInv, RecordsLatest
    <3>3. recent[a][count[a]] <= recent[a][MaxFailures]
      BY <2>0, <2>1, <3>1 DEF FailureInv, LatestFirst
    <3>4. recent[a][count[a]] \in 0 .. Window + 1 /\ recent[a][MaxFailures] \in 0 .. Window + 1
      BY <2>0, <2>1, <3>1
    <3>. QED
      BY <3>2, <3>3, <3>4 DEF AtLeast
  <2>. QED
    BY <2>2, <2>3
<1>4. RecordsLatest'
  <2> SUFFICES ASSUME NEW a \in Addrs, a \notin banned'
               PROVE  /\ banAge'[a] = 0
                      /\ count'[a] > 0 => recent'[a][count'[a]] = first'[a]
                      /\ ~AtLeast(count[a] + MaxFailures, a)'
    BY DEF RecordsLatest, AtLeast
  <2>1. CASE a \in as
    <3>1. count'[a] = 0 /\ banAge'[a] = 0
      BY <2>1 DEF Forget
    <3>2. ~(recent[a][MaxFailures] <= Window)
      BY <1>3, <2>1 DEF AtLeast
    <3>3. count'[a] + MaxFailures = MaxFailures
      BY <3>1
    <3>. QED
      BY <1>1, <3>1, <3>2, <3>3 DEF AtLeast
  <2>2. CASE a \notin as
    BY <1>1, <2>2 DEF Forget, AtLeast, FailureInv, RecordsLatest
  <2>. QED
    BY <2>1, <2>2
<1>5. BanIsLater'
  <2>1. \A a \in banned' : a \in banned /\ a \in Addrs /\ banAge'[a] = banAge[a]
    BY <1>1 DEF Forget, IInv, TypeOK
  <2>. QED
    BY <1>1, <2>1 DEF FailureInv, BanIsLater
<1>. QED
  BY <1>2, <1>4, <1>5 DEF FailureInv

\* What a failure that counts does to the history of its address: it comes first,
\* all others move one place on, and the order stays.
LEMMA CountedShifts ==
    ASSUME IInv, FailureInv, NEW a \in Addrs, NEW n \in Nat, NEW t \in Nat, Counted(a, n, t)
    PROVE  /\ count'[a] = n /\ first'[a] = t
           /\ recent'[a][1] = 0
           /\ \A i \in Latest : i + 1 \in Latest => recent'[a][i + 1] = recent[a][i]
           /\ \A b \in Addrs \ {a} : /\ count'[b] = count[b] /\ first'[b] = first[b]
                                     /\ recent'[b] = recent[b]
           /\ LatestFirst'
<1> USE AdmissionAssumption
<1>1. /\ count \in [Addrs -> 0 .. MaxFailures + 1] /\ first \in [Addrs -> 0 .. Window + 1]
      /\ recent \in [Addrs -> [Latest -> 0 .. Window + 1]]
  BY DEF IInv, TypeOK
<1>2. recent'[a] = [i \in Latest |-> IF i = 1 THEN 0 ELSE recent[a][i - 1]]
  BY <1>1 DEF Counted
<1>3. /\ count'[a] = n /\ first'[a] = t
      /\ \A b \in Addrs \ {a} : /\ count'[b] = count[b] /\ first'[b] = first[b]
                                /\ recent'[b] = recent[b]
  BY <1>1 DEF Counted
<1>4. /\ recent'[a][1] = 0
      /\ \A i \in Latest : i + 1 \in Latest => recent'[a][i + 1] = recent[a][i]
  BY <1>2 DEF Latest
<1>5. ASSUME NEW i \in Latest, NEW j \in Latest, i <= j
      PROVE  recent'[a][i] <= recent'[a][j]
  <2>1. CASE i = 1
    <3>1. recent'[a][j] = 0 \/ (j - 1 \in Latest /\ recent'[a][j] = recent[a][j - 1])
      BY <1>2 DEF Latest
    <3>. QED
      BY <1>4, <2>1, <3>1, Places
  <2>2. CASE i # 1
    <3>1. i - 1 \in Latest /\ j - 1 \in Latest /\ i - 1 <= j - 1 /\ j # 1
      BY <1>5, <2>2 DEF Latest
    <3>2. recent[a][i - 1] <= recent[a][j - 1]
      BY <3>1 DEF FailureInv, LatestFirst
    <3>. QED
      BY <1>2, <2>2, <3>1, <3>2
  <2>. QED
    BY <2>1, <2>2
<1>6. LatestFirst'
  <2> SUFFICES ASSUME NEW b \in Addrs, NEW i \in Latest, NEW j \in Latest, i <= j
               PROVE  recent'[b][i] <= recent'[b][j]
    BY DEF LatestFirst
  <2>. QED
    BY <1>3, <1>5 DEF FailureInv, LatestFirst
<1>. QED
  BY <1>3, <1>4, <1>6

\* RecordFailure begins a record only when fewer than allowed of the earlier failures
\* are left in the window, and bans only for failures that are all in it.
LEMMA RecordsFailure ==
    ASSUME IInv, FailureInv, NEW a \in Addrs, RecordFailure(a)
    PROVE  /\ FailureInv'
           /\ \A b \in Addrs : b \notin banned /\ b \in banned' =>
                AtLeast(MaxFailures + 1, b)'
<1> USE AdmissionAssumption
<1>0. /\ \A b \in Addrs : b \notin banned => banAge[b] = 0
      /\ MaxFailures \in Latest /\ MaxFailures + 1 \in Latest
  BY DEF FailureInv, RecordsLatest, Latest
<1>1. CASE UNCHANGED banVars
  BY <1>1 DEF banVars, FailureInv, LatestFirst, RecordsLatest, BanIsLater, AtLeast
<1>2. CASE /\ a \notin banned /\ (count[a] = 0 \/ first[a] > Window)
           /\ Counted(a, 1, 0)
           /\ UNCHANGED << banned, banAge >>
  <2>1. /\ count'[a] = 1 /\ first'[a] = 0 /\ recent'[a][1] = 0
        /\ recent'[a][MaxFailures + 1] = recent[a][MaxFailures]
        /\ \A b \in Addrs \ {a} : /\ count'[b] = count[b] /\ first'[b] = first[b]
                                  /\ recent'[b] = recent[b]
        /\ LatestFirst'
    BY <1>0, <1>2, CountedShifts
  <2>2. recent[a][MaxFailures] > Window
    <3>1. CASE count[a] = 0
      BY <1>0, <1>2, <3>1, Places DEF FailureInv, RecordsLatest, AtLeast
    <3>2. CASE count[a] # 0
      <4>1. /\ count[a] \in Latest /\ count[a] <= MaxFailures
            /\ recent[a][count[a]] > Window
        BY <1>2, <3>2, Places DEF FailureInv, RecordsLatest
      <4>2. recent[a][count[a]] <= recent[a][MaxFailures]
        BY <1>0, <4>1 DEF FailureInv, LatestFirst
      <4>. QED
        BY <1>0, <4>1, <4>2, Places
    <3>. QED
      BY <3>1, <3>2
  <2>3. RecordsLatest'
    <3> SUFFICES ASSUME NEW b \in Addrs, b \notin banned'
                 PROVE  /\ banAge'[b] = 0
                        /\ count'[b] > 0 => recent'[b][count'[b]] = first'[b]
                        /\ ~AtLeast(count[b] + MaxFailures, b)'
      BY DEF RecordsLatest, AtLeast
    <3>1. CASE b = a
      <4>1. recent'[a][1 + MaxFailures] = recent[a][MaxFailures]
        BY <2>1
      <4>. QED
        BY <1>0, <1>2, <2>1, <2>2, <3>1, <4>1, Places DEF AtLeast
    <3>2. CASE b # a
      BY <1>2, <2>1, <3>2 DEF FailureInv, RecordsLatest, AtLeast
    <3>. QED
      BY <3>1, <3>2
  <2>4. BanIsLater'
    <3>1. \A b \in banned' : b \in banned /\ b \in Addrs \ {a}
      BY <1>2 DEF IInv, TypeOK
    <3>. QED
      BY <1>2, <2>1, <3>1 DEF FailureInv, BanIsLater
  <2>. QED
    BY <1>2, <2>1, <2>3, <2>4 DEF FailureInv
<1>3. CASE /\ a \notin banned /\ count[a] > 0 /\ first[a] <= Window
           /\ Counted(a, count[a] + 1, first[a])
           /\ banned' = IF count[a] + 1 > MaxFailures THEN banned \cup {a} ELSE banned
           /\ UNCHANGED banAge
  <2> DEFINE n == count[a]
  <2>1. n \in Latest /\ n + 1 \in Latest /\ n <= MaxFailures /\ n + MaxFailures \in Latest
    BY <1>3, Places DEF Latest
  <2>2. /\ count'[a] = n + 1 /\ first'[a] = first[a]
        /\ \A i \in Latest : i + 1 \in Latest => recent'[a][i + 1] = recent[a][i]
        /\ \A b \in Addrs \ {a} : /\ count'[b] = count[b] /\ first'[b] = first[b]
                                  /\ recent'[b] = recent[b]
        /\ LatestFirst'
    <3>1. n + 1 \in Nat /\ first[a] \in Nat
      BY Places
    <3>. QED
      BY <1>3, <3>1, CountedShifts
  <2>3. recent[a][n] = first[a] /\ ~AtLeast(n + MaxFailures, a)
    BY <1>3 DEF FailureInv, RecordsLatest
  <2>4. RecordsLatest'
    <3> SUFFICES ASSUME NEW b \in Addrs, b \notin banned'
                 PROVE  /\ banAge'[b] = 0
                        /\ count'[b] > 0 => recent'[b][count'[b]] = first'[b]
                        /\ ~AtLeast(count[b] + MaxFailures, b)'
      BY DEF RecordsLatest, AtLeast
    <3>1. b \notin banned /\ banAge'[b] = 0
      BY <1>0, <1>3
    <3>2. CASE b = a
      <4>1. n + 1 <= MaxFailures
        BY <1>3, <2>1, <3>2 DEF Latest
      <4>2. n + MaxFailures + 1 \in Latest
        BY <2>1, <4>1 DEF Latest
      <4>3. recent'[a][n + MaxFailures + 1] = recent[a][n + MaxFailures]
        BY <2>1, <2>2, <4>2
      <4>4. recent'[a][n + 1] = recent[a][n]
        BY <2>1, <2>2
      <4>5. n + 1 + MaxFailures = n + MaxFailures + 1
        BY <2>1 DEF Latest
      <4>. QED
        BY <2>2, <2>3, <3>1, <3>2, <4>3, <4>4, <4>5 DEF AtLeast
    <3>3. CASE b # a
      BY <2>2, <3>1, <3>3 DEF FailureInv, RecordsLatest, AtLeast
    <3>. QED
      BY <3>2, <3>3
  <2>5. BanIsLater'
    <3> SUFFICES ASSUME NEW b \in banned', NEW i \in Latest
                 PROVE  recent'[b][i] >= banAge'[b] \/ recent'[b][i] > Window
      BY DEF BanIsLater
    <3>1. CASE b = a
      <4>1. banAge'[a] = 0
        BY <1>0, <1>3
      <4>2. recent' \in [Addrs -> [Latest -> 0 .. Window + 1]]
        BY <1>3, OneMore DEF IInv, TypeOK, Counted
      <4>3. recent'[a][i] \in 0 .. Window + 1
        BY <4>2
      <4>. QED
        BY <3>1, <4>1, <4>3
    <3>2. CASE b # a
      <4>1. b \in banned /\ b \in Addrs
        BY <1>3, <3>2 DEF IInv, TypeOK
      <4>. QED
        BY <1>3, <2>2, <3>2, <4>1 DEF FailureInv, BanIsLater
    <3>. QED
      BY <3>1, <3>2
  <2>6. ASSUME NEW b \in Addrs, b \notin banned, b \in banned'
        PROVE  AtLeast(MaxFailures + 1, b)'
    <3>1. b = a /\ n = MaxFailures
      BY <1>3, <2>1, <2>6 DEF Latest
    <3>2. recent'[a][MaxFailures + 1] = first[a]
      BY <2>1, <2>2, <2>3, <3>1
    <3>. QED
      BY <1>3, <3>1, <3>2 DEF AtLeast
  <2>. QED
    BY <2>2, <2>4, <2>5, <2>6 DEF FailureInv
<1>. QED
  BY <1>1, <1>2, <1>3 DEF RecordFailure

\* One tick makes records, bans and failures older alike.
LEMMA TickFailures == IInv /\ FailureInv /\ Tick => FailureInv'
<1> SUFFICES ASSUME IInv, FailureInv, Tick PROVE FailureInv'
  OBVIOUS
<1> USE AdmissionAssumption
<1>1. \A a \in Addrs : \A i \in Latest : /\ recent[a][i] \in 0 .. Window + 1
                                         /\ recent'[a][i] = Older(recent[a][i], Window)
  BY Places DEF Tick
<1>2. count' = count /\ banned' = banned
  BY DEF Tick
<1>3. LatestFirst'
  BY <1>1, OlderKeeps DEF FailureInv, LatestFirst
<1>4. RecordsLatest'
  <2> SUFFICES ASSUME NEW a \in Addrs, a \notin banned'
               PROVE  /\ banAge'[a] = 0
                      /\ count'[a] > 0 => recent'[a][count'[a]] = first'[a]
                      /\ ~AtLeast(count[a] + MaxFailures, a)'
    BY DEF RecordsLatest, AtLeast
  <2>1. banAge'[a] = 0
    BY <1>2 DEF Tick
  <2>2. count'[a] > 0 => recent'[a][count'[a]] = first'[a]
    BY <1>1, <1>2, Places DEF Tick, FailureInv, RecordsLatest
  <2>3. /\ count[a] + MaxFailures \in Latest
        /\ recent[a][count[a] + MaxFailures] > Window
    BY <1>1, <1>2, Places DEF FailureInv, RecordsLatest, AtLeast
  <2>4. recent'[a][count[a] + MaxFailures] > Window
    BY <1>1, <2>3 DEF Older
  <2>. QED
    <3>1. recent'[a][count[a] + MaxFailures] \in Nat
      BY <1>1, <2>3 DEF Older
    <3>. QED
      BY <1>2, <2>1, <2>2, <2>4, <3>1 DEF AtLeast
<1>5. BanIsLater'
  <2> SUFFICES ASSUME NEW a \in banned, NEW i \in Latest
               PROVE  recent'[a][i] >= banAge'[a] \/ recent'[a][i] > Window
    BY <1>2 DEF BanIsLater
  <2>1. /\ a \in Addrs /\ banAge[a] \in 0 .. BanTime + 1
        /\ banAge'[a] = Older(banAge[a], BanTime)
    BY DEF Tick, IInv, TypeOK
  <2>2. recent[a][i] >= banAge[a] \/ recent[a][i] > Window
    BY DEF FailureInv, BanIsLater
  <2>. QED
    BY <1>1, <2>1, <2>2 DEF Older
<1>. QED
  BY <1>3, <1>4, <1>5 DEF FailureInv

\* Whatever step is taken, the records and the history stay in agreement, and
\* only RecordFailure bans.
LEMMA FailureNext ==
    ASSUME IInv, FailureInv, [Next]_vars
    PROVE  /\ FailureInv'
           /\ \A a \in Addrs : a \notin banned /\ a \in banned' =>
                AtLeast(MaxFailures + 1, a)'
<1>1. CASE UNCHANGED banVars
  BY <1>1 DEF banVars, FailureInv, LatestFirst, RecordsLatest, BanIsLater, AtLeast
<1>2. ASSUME NEW as \in SUBSET Addrs, Forget(as),
             \A a \in as : IF a \in banned THEN BanOver(a)
                           ELSE count[a] > 0 /\ first[a] > Window
      PROVE  FailureInv' /\ banned' \subseteq banned
  BY <1>2, ForgetFailures DEF Forget
<1>3. ASSUME NEW c \in Conns, NEW a \in Addrs, Accept(c, a)
      PROVE  UNCHANGED banVars \/ (FailureInv' /\ banned' \subseteq banned)
  <2>1. CASE UNCHANGED banVars
    BY <2>1
  <2>2. CASE ~Barred(a) /\ a \in banned /\ Forget({a})
    BY <1>2, <2>2 DEF Barred
  <2>. QED
    BY <1>3, <2>1, <2>2 DEF Accept
<1>4. ASSUME NEW c \in Conns, AuthFails(c)
      PROVE  /\ FailureInv'
             /\ \A a \in Addrs : a \notin banned /\ a \in banned' =>
                  AtLeast(MaxFailures + 1, a)'
  <2>1. addr[c] \in Addrs /\ RecordFailure(addr[c])
    BY <1>4 DEF AuthFails, IInv, Known
  <2>. QED
    BY <2>1, RecordsFailure
<1>5. CASE Cleanup
  <2> DEFINE over == {a \in Addrs : IF a \in banned THEN BanOver(a)
                                    ELSE count[a] > 0 /\ first[a] > Window}
  <2>1. over \in SUBSET Addrs /\ Forget(over)
    BY <1>5 DEF Cleanup
  <2>2. \A a \in over : IF a \in banned THEN BanOver(a)
                        ELSE count[a] > 0 /\ first[a] > Window
    OBVIOUS
  <2> HIDE DEF over
  <2>3. FailureInv' /\ banned' \subseteq banned
    BY <1>2, <2>1, <2>2
  <2>. QED
    BY <2>3
<1>6. CASE Tick
  BY <1>6, TickFailures DEF Tick
<1>7. CASE \/ \E c \in Conns, u \in Users : Authenticate(c, u)
           \/ \E c \in Conns : \/ HandshakeFails(c) \/ TooManyDevices(c)
                               \/ Track(c) \/ Remove(c)
           \/ UNCHANGED vars
  <2>1. UNCHANGED banVars
    BY <1>7 DEF Authenticate, HandshakeFails, TooManyDevices, Track, Remove, vars, banVars
  <2>. QED
    BY <1>1, <2>1
<1>. QED
  BY <1>1, <1>3, <1>4, <1>5, <1>6, <1>7 DEF Next

LEMMA FailuresInvariance == Spec => [](IInv /\ FailureInv)
<1>1. Init => IInv /\ FailureInv
  BY InitInv, InitFailures
<1>2. IInv /\ FailureInv /\ [Next]_vars => (IInv /\ FailureInv)'
  BY NextInv, FailureNext
<1>. QED
  BY <1>1, <1>2, PTL DEF Spec

\* The variables have their types in every reachable state; of the code: no
\* record counts beyond one more than maxFailures.
THEOREM AdmissionTypeCorrect == Spec => []TypeOK
<1>1. IInv => TypeOK
  BY DEF IInv
<1>2. QED
  BY <1>1, Invariance, PTL

\* Nobody stays in the tracker's list of devices without a connection: every
\* Track has its Remove, and no Remove leaves the entry of its device.
THEOREM NobodyGhostsOnline == Spec => []NoGhosts
<1>1. IInv => NoGhosts
  BY DEF IInv
<1>2. QED
  BY <1>1, Invariance, PTL

\* No step of ConnRateLimiter shortens a ban or sets its clock back.
THEOREM BansLast == Spec => BanLasts
<1> DEFINE Lasts(a) == a \in banned' /\ banAge'[a] >= banAge[a]
<1>1. ASSUME IInv, [Next]_vars, NEW a \in Addrs, a \in banned
      PROVE  Lasts(a) \/ BanOver(a)
  <2> USE AdmissionAssumption
  <2>0. TypeOK /\ Known /\ BannedBeyond /\ banAge[a] \in Nat
    BY <1>1 DEF IInv, TypeOK
  <2>1. ASSUME NEW b \in Addrs, b \in banned, ~Barred(b), Forget({b})
        PROVE  Lasts(a) \/ BanOver(a)
    BY <1>1, <2>0, <2>1 DEF Forget, Barred
  <2>2. ASSUME NEW c \in Conns, AuthFails(c) PROVE Lasts(a)
    <3>1. addr[c] \in Addrs /\ RecordFailure(addr[c])
      BY <2>0, <2>2 DEF AuthFails, Known
    <3>2. QED
      BY <1>1, <2>0, <3>1, RecordFailureKeeps
  <2>3. CASE Cleanup
    BY <1>1, <2>0, <2>3 DEF Cleanup, Forget
  <2>4. CASE Tick
    BY <1>1, <2>0, <2>4 DEF Tick, Older, TypeOK
  <2>5. CASE UNCHANGED << banned, banAge >>
    BY <1>1, <2>0, <2>5
  <2>6. ASSUME NEW c \in Conns, NEW b \in Addrs, Accept(c, b)
        PROVE  Lasts(a) \/ BanOver(a)
    BY <2>1, <2>5, <2>6 DEF Accept, banVars
  <2>7. QED
    BY <1>1, <2>2, <2>3, <2>4, <2>5, <2>6
       DEF Next, Authenticate, HandshakeFails, TooManyDevices, Track, Remove,
           banVars, vars
<1>2. IInv /\ [Next]_vars => [\A a \in Addrs : a \in banned /\ ~Lasts(a) => BanOver(a)]_vars
  BY <1>1
<1>3. QED
  BY <1>2, Invariance, PTL DEF Spec, BanLasts

\* Whatever mixture of late failures, windows that end, bans and clean-ups: an address
\* that ConnRateLimiter lets in has failed less than twice as often as allowed in any
\* time as long as the window.
THEOREM FailuresAreBounded == Spec => []FailuresBounded
<1>1. IInv /\ FailureInv => FailuresBounded
  <2> SUFFICES ASSUME IInv, FailureInv, NEW a \in Addrs, a \notin banned
               PROVE  ~AtLeast(2 * MaxFailures, a)
    BY DEF FailuresBounded
  <2>1. /\ count[a] + MaxFailures \in Latest /\ 2 * MaxFailures \in Latest
        /\ count[a] + MaxFailures <= 2 * MaxFailures
    BY Places, AdmissionAssumption DEF Latest
  <2>2. recent[a][count[a] + MaxFailures] <= recent[a][2 * MaxFailures]
    BY <2>1 DEF FailureInv, LatestFirst
  <2>3. ~(recent[a][count[a] + MaxFailures] <= Window)
    BY DEF FailureInv, RecordsLatest, AtLeast
  <2>. QED
    BY <2>1, <2>2, <2>3, Places, AdmissionAssumption DEF AtLeast
<1>. QED
  BY <1>1, FailuresInvariance, PTL

\* RecordFailure bans nobody for failures that are spread over more than the window.
THEOREM BansAreDeserved == Spec => BanDeserved
<1>1. IInv /\ FailureInv /\ [Next]_vars =>
        [\A a \in Addrs : a \notin banned /\ a \in banned' => AtLeast(MaxFailures + 1, a)']_vars
  BY FailureNext
<1>. QED
  BY <1>1, FailuresInvariance, PTL DEF Spec, BanDeserved
=============================================================================
