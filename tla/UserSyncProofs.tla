---------------------------- MODULE UserSyncProofs ----------------------------
(***************************************************************************)
(* What UserSync keeps of Admission, and what a pull leaves in the table,   *)
(* for any number of connections, addresses and users.                     *)
(***************************************************************************)
EXTENDS UserSync, AdmissionProofs

\* The handlers with the pull cycle do nothing that Admission does not allow: a user
\* that is not in the table can only fail, and clean-ups come at the end of a pull.
LEMMA StepsOfAdmission == [SyncNext]_allVars => [Next]_vars
<1> SUFFICES ASSUME [SyncNext]_allVars PROVE [Next]_vars
  OBVIOUS
<1>1. CASE PanelChanges \/ StartPull \/ Ask \/ PullStep
  BY <1>1 DEF PanelChanges, StartPull, Ask,
              PullStep, NewList, UpdateUsers, KeepList, Retry, FetchFails
<1>2. CASE EndPull
  BY <1>2 DEF EndPull, Next
<1>3. CASE \E c \in Conns, u \in Users : LogIn(c, u)
  BY <1>3 DEF LogIn, Next
<1>4. CASE Handle
  BY <1>4 DEF Handle, Next
<1>5. CASE UNCHANGED allVars
  BY <1>5 DEF allVars
<1>. QED
  BY <1>1, <1>2, <1>3, <1>4, <1>5 DEF SyncNext

\* With the user table in its place, the server still admits, bans and tracks as
\* Admission says, so that all that holds of it holds here.
THEOREM SyncIsAdmission == SyncSpec => Spec
<1>1. SyncInit => Init
  BY DEF SyncInit
<1>. QED
  BY <1>1, StepsOfAdmission, PTL DEF SyncSpec, Spec

\* No ghosts are online, whoever is listed when (handleConnection, Tracker) ...
THEOREM NoGhostsWithSync == SyncSpec => []NoGhosts
BY SyncIsAdmission, NobodyGhostsOnline, PTL

\* ... and bans last their time under the clean-ups of doPull.
THEOREM BansLastWithSync == SyncSpec => BanLasts
BY SyncIsAdmission, BansLast, PTL

\* Who is let in has failed less than twice as often as allowed within a window ...
THEOREM FailuresBoundedWithSync == SyncSpec => []FailuresBounded
BY SyncIsAdmission, FailuresAreBounded, PTL

\* ... and who is banned more often than allowed: the clean-up that ends a pull gives
\* up no record the count still needs.
THEOREM BansDeservedWithSync == SyncSpec => BanDeserved
BY SyncIsAdmission, BansAreDeserved, PTL

LEMMA SyncInitInv == SyncInit /\ TypeOK => SyncInv
BY SyncAssumption
   DEF SyncInit, SyncInv, SyncTypeOK, TagMatchesTable, Lists, NoAnswer

LEMMA SyncNextInv == SyncInv /\ TypeOK' /\ [SyncNext]_allVars => SyncInv'
<1> SUFFICES ASSUME SyncInv, TypeOK', [SyncNext]_allVars PROVE SyncInv'
  OBVIOUS
<1> USE SyncAssumption
    DEF SyncInv, SyncTypeOK, TagMatchesTable, Lists, NoAnswer, NotModified, OK, Settled
<1>1. CASE PanelChanges
  BY <1>1 DEF PanelChanges
<1>2. CASE StartPull
  BY <1>2 DEF StartPull
<1>3. CASE Ask
  <2>1. CASE userETag = {listed}
    BY <1>3, <2>1 DEF Ask
  <2>2. CASE userETag # {listed}
    BY <1>3, <2>2 DEF Ask
  <2>. QED
    BY <2>1, <2>2
<1>4. CASE NewList
  BY <1>4 DEF NewList, UpdateUsers
<1>5. CASE KeepList
  BY <1>5 DEF KeepList
<1>6. CASE Retry
  BY <1>6 DEF Retry
<1>7. CASE FetchFails
  BY <1>7 DEF FetchFails
<1>8. CASE EndPull
  BY <1>8 DEF EndPull
<1>9. CASE \E c \in Conns, u \in Users : LogIn(c, u)
  BY <1>9 DEF LogIn, syncVars
<1>10. CASE Handle
  BY <1>10 DEF Handle, syncVars
<1>11. CASE UNCHANGED allVars
  BY <1>11 DEF allVars, syncVars
<1>. QED
  BY <1>1, <1>2, <1>3, <1>4, <1>5, <1>6, <1>7, <1>8, <1>9, <1>10, <1>11
     DEF SyncNext, PullStep

LEMMA SyncInvariance == SyncSpec => []SyncInv
<1>1. SyncSpec => []TypeOK
  BY SyncIsAdmission, AdmissionTypeCorrect, PTL
<1>. QED
  BY <1>1, SyncInitInv, SyncNextInv, PTL DEF SyncSpec

\* Every variable keeps the type its declaration gives it, the server's included.
THEOREM SyncTypeCorrect == SyncSpec => []SyncTypeOK
<1>1. SyncInv => SyncTypeOK
  BY DEF SyncInv
<1>. QED
  BY <1>1, SyncInvariance, PTL

\* The tag is as old as the table (FetchUsers keeps it when the list has been read), so
\* that neither a new list nor a 304 leaves a table older than the panel's answer.
THEOREM PullIsUpToDate == SyncSpec => PullBringsUpToDate
<1>1. SyncInv => (NewList \/ KeepList => table' \in seen)
  BY DEF SyncInv, TagMatchesTable, NewList, UpdateUsers, KeepList
<1>. QED
  BY <1>1, SyncInvariance, PTL DEF SyncSpec, PullBringsUpToDate
=============================================================================
