------------------------------- MODULE Admission -------------------------------
(***************************************************************************)
(* Who gets in at the server and who counts as online (handleConnection in *)
(* internal/server/handler.go, ConnRateLimiter in internal/ratelimit,      *)
(* Tracker in internal/alive): connections from several addresses, users   *)
(* with several connections from the same one, failures to authenticate,   *)
(* bans that begin and end, and the clean-up of syncLoop.                   *)
(*                                                                         *)
(* Each element of Conns is a goroutine running handleConnection; when it  *)
(* is done it serves as the next one.  Time passes in Tick: what the code   *)
(* compares with time.Now is the age of something, which is kept instead,  *)
(* up to the age at which nothing tells it from older ones.                 *)
(***************************************************************************)
EXTENDS Naturals, FiniteSets

CONSTANTS
    Conns, Addrs, Users,
    MaxFailures,  \* maxFailures
    Window,       \* failWindow, in ticks
    BanTime       \* banDuration, in ticks

ASSUME AdmissionAssumption ==
    /\ MaxFailures \in Nat \ {0}
    /\ Window \in Nat /\ BanTime \in Nat /\ Window <= BanTime

VARIABLES
    pc,      \* where handleConnection is
    addr,    \* remoteIP
    user,    \* userEntry.ID
    count,   \* a failureRecord: count, 0 when the address has none ...
    first,   \* ... the age of firstFail ...
    banned,  \* ... the addresses with a bannedAt ...
    banAge,  \* ... and its age
    online,  \* t.online, as pairs of user and address
    recent   \* history: the ages of the latest failures that counted, latest first

\* No more failures are kept than the properties look at.
Latest == 1 .. 2 * MaxFailures

\* What is older than the window is, like what never was, of age Window + 1.
Older(age, limit) == IF age > limit THEN age ELSE age + 1

vars == << pc, addr, user, count, first, banned, banAge, online, recent >>

connVars == << pc, addr, user >>
banVars == << count, first, banned, banAge, recent >>

Steps == {"idle", "handshake", "limits", "session"}

TypeOK ==
    /\ pc \in [Conns -> Steps]
    /\ addr \in [Conns -> Addrs \cup {"none"}]
    /\ user \in [Conns -> Users \cup {"none"}]
    /\ count \in [Addrs -> 0 .. MaxFailures + 1]
    /\ first \in [Addrs -> 0 .. Window + 1]
    /\ banned \in SUBSET Addrs
    /\ banAge \in [Addrs -> 0 .. BanTime + 1]
    /\ online \in SUBSET (Users \X Addrs)
    /\ recent \in [Addrs -> [Latest -> 0 .. Window + 1]]

Init ==
    /\ pc = [c \in Conns |-> "idle"]
    /\ addr = [c \in Conns |-> "none"] /\ user = [c \in Conns |-> "none"]
    /\ count = [a \in Addrs |-> 0] /\ first = [a \in Addrs |-> 0]
    /\ banned = {} /\ banAge = [a \in Addrs |-> 0]
    /\ online = {}
    /\ recent = [a \in Addrs |-> [i \in Latest |-> Window + 1]]

Goto(c, step) == pc' = [pc EXCEPT ![c] = step]

Done(c) ==
    /\ Goto(c, "idle")
    /\ addr' = [addr EXCEPT ![c] = "none"] /\ user' = [user EXCEPT ![c] = "none"]

(***************************************************************************)
(* ConnRateLimiter                                                         *)
(***************************************************************************)
BanOver(a) == banAge[a] > BanTime

\* What IsBanned tells of an address.
Barred(a) == a \in banned /\ ~BanOver(a)

\* delete(r.failures, ip)
Forget(as) ==
    /\ count' = [a \in Addrs |-> IF a \in as THEN 0 ELSE count[a]]
    /\ first' = [a \in Addrs |-> IF a \in as THEN 0 ELSE first[a]]
    /\ banAge' = [a \in Addrs |-> IF a \in as THEN 0 ELSE banAge[a]]
    /\ banned' = banned \ as
    /\ UNCHANGED recent

\* A failure that counts: n is the new count, since a firstFail of age t.
Counted(a, n, t) ==
    /\ count' = [count EXCEPT ![a] = n] /\ first' = [first EXCEPT ![a] = t]
    /\ recent' = [recent EXCEPT ![a] = [i \in Latest |-> IF i = 1 THEN 0 ELSE @[i - 1]]]

\* Mutant: the window is not looked at.
RecordFailureForever(a) ==
    \/ a \in banned /\ UNCHANGED banVars
    \/ /\ a \notin banned
       /\ Counted(a, count[a] + 1, first[a])
       /\ banned' = IF count[a] + 1 > MaxFailures THEN banned \cup {a} ELSE banned
       /\ UNCHANGED banAge

\* Mutant: a window that is over is looked for first, also under a ban.
RecordFailureUnbans(a) ==
    \/ a \in banned /\ first[a] <= Window /\ UNCHANGED banVars
    \/ /\ count[a] = 0 \/ first[a] > Window
       /\ Counted(a, 1, 0)
       /\ banned' = banned \ {a} /\ banAge' = [banAge EXCEPT ![a] = 0]
    \/ /\ a \notin banned /\ count[a] > 0 /\ first[a] <= Window
       /\ Counted(a, count[a] + 1, first[a])
       /\ banned' = IF count[a] + 1 > MaxFailures THEN banned \cup {a} ELSE banned
       /\ UNCHANGED banAge

\* Mutant: the ban comes one failure late.
RecordFailureBansLate(a) ==
    \/ a \in banned /\ UNCHANGED banVars
    \/ /\ a \notin banned /\ (count[a] = 0 \/ first[a] > Window)
       /\ Counted(a, 1, 0)
       /\ UNCHANGED << banned, banAge >>
    \/ /\ a \notin banned /\ count[a] > 0 /\ first[a] <= Window
       /\ Counted(a, count[a] + 1, first[a])
       /\ banned' = IF count[a] > MaxFailures THEN banned \cup {a} ELSE banned
       /\ UNCHANGED banAge

\* Under r.mu.  A ban does not count on; a window that is over begins again.
RecordFailure(a) ==
    \/ a \in banned /\ UNCHANGED banVars
    \/ /\ a \notin banned /\ (count[a] = 0 \/ first[a] > Window)
       /\ Counted(a, 1, 0)
       /\ UNCHANGED << banned, banAge >>
    \/ /\ a \notin banned /\ count[a] > 0 /\ first[a] <= Window
       /\ Counted(a, count[a] + 1, first[a])
       /\ banned' = IF count[a] + 1 > MaxFailures THEN banned \cup {a} ELSE banned
       /\ UNCHANGED banAge

\* Mutant: every record without a ban goes.
CleanupForgetsAll ==
    /\ Forget({a \in Addrs : a \in banned => BanOver(a)})
    /\ UNCHANGED << connVars, online >>

\* doPull ends with it.
Cleanup ==
    /\ Forget({a \in Addrs : IF a \in banned THEN BanOver(a)
                             ELSE count[a] > 0 /\ first[a] > Window})
    /\ UNCHANGED << connVars, online >>

Tick ==
    /\ first' = [a \in Addrs |-> IF count[a] > 0 THEN Older(first[a], Window) ELSE 0]
    /\ banAge' = [a \in Addrs |-> IF a \in banned THEN Older(banAge[a], BanTime) ELSE 0]
    /\ recent' = [a \in Addrs |-> [i \in Latest |-> Older(recent[a][i], Window)]]
    /\ UNCHANGED << connVars, count, banned, online >>

(***************************************************************************)
(* handleConnection                                                        *)
(***************************************************************************)
\* Mutant: an address that comes back under a ban begins it anew.
AcceptProlongs(c, a) ==
    /\ pc[c] = "idle"
    /\ IF a \in banned
       THEN banAge' = [banAge EXCEPT ![a] = 0] /\ UNCHANGED << pc, addr >>
       ELSE /\ Goto(c, "handshake") /\ addr' = [addr EXCEPT ![c] = a]
            /\ UNCHANGED banAge
    /\ UNCHANGED << user, count, first, banned, recent, online >>

\* A new connection: IsBanned, which deletes the record of a ban that is over.
Accept(c, a) ==
    /\ pc[c] = "idle"
    /\ IF Barred(a) THEN UNCHANGED << pc, addr, banVars >>
       ELSE /\ Goto(c, "handshake")
            /\ addr' = [addr EXCEPT ![c] = a]
            /\ IF a \in banned THEN Forget({a}) ELSE UNCHANGED banVars
    /\ UNCHANGED << user, online >>

\* The TLS handshake, or reading the first packet, fails.
HandshakeFails(c) ==
    /\ pc[c] = "handshake"
    /\ Done(c)
    /\ UNCHANGED << banVars, online >>

\* No password, an unknown one, or no padding after it.  The fallback that
\* follows relays to another server.
AuthFails(c) ==
    /\ pc[c] = "handshake"
    /\ RecordFailure(addr[c])
    /\ Done(c)
    /\ UNCHANGED online

Authenticate(c, u) ==
    /\ pc[c] = "handshake"
    /\ Goto(c, "limits")
    /\ user' = [user EXCEPT ![c] = u]
    /\ UNCHANGED << addr, banVars, online >>

\* CheckDeviceLimit finds the panel's count at the limit.  The panel is
\* external, and its count as old as its last report: any answer is possible.
TooManyDevices(c) ==
    /\ pc[c] = "limits"
    /\ Done(c)
    /\ UNCHANGED << banVars, online >>

Device(c) == << user[c], addr[c] >>

Track(c) ==
    /\ pc[c] = "limits"
    /\ Goto(c, "session")
    /\ online' = online \cup {Device(c)}
    /\ UNCHANGED << addr, user, banVars >>

\* Mutant: the address stays while another connection from there is handled,
\* which may yet fail to authenticate.
RemoveKeeps(c) ==
    /\ pc[c] = "session"
    /\ online' = IF \E d \in Conns \ {c} : addr[d] = addr[c]
                 THEN online ELSE online \ {Device(c)}
    /\ Done(c)
    /\ UNCHANGED banVars

\* The session has ended, or a panic has: the deferred Remove.
Remove(c) ==
    /\ pc[c] = "session"
    /\ online' = online \ {Device(c)}
    /\ Done(c)
    /\ UNCHANGED banVars

(***************************************************************************)
(* The specification                                                       *)
(***************************************************************************)
Next ==
    \/ \E c \in Conns, a \in Addrs : Accept(c, a)
    \/ \E c \in Conns, u \in Users : Authenticate(c, u)
    \/ \E c \in Conns : HandshakeFails(c) \/ AuthFails(c) \/ TooManyDevices(c)
    \/ \E c \in Conns : Track(c) \/ Remove(c)
    \/ Cleanup \/ Tick

Spec == Init /\ [][Next]_vars

\* Time passes, and nothing else need happen.
FairSpec == Spec /\ WF_vars(Tick)

(***************************************************************************)
(* Properties                                                              *)
(***************************************************************************)
\* Of the failures that counted at least n are no older than the window.
AtLeast(n, a) == recent[a][n] <= Window

\* A ban is deserved: when it begins, more failures than allowed are no older
\* than the window (and not merely more than allowed since the last clean-up).
BanDeserved ==
    [][\A a \in Addrs : a \notin banned /\ a \in banned' => AtLeast(MaxFailures + 1, a)']_vars

\* A ban lasts: neither late failures of connections accepted before it nor a
\* clean-up let an address in again too soon.
BanLasts ==
    [][\A a \in Addrs : a \in banned /\ ~(a \in banned' /\ banAge'[a] >= banAge[a]) =>
            BanOver(a)]_vars

\* A ban ends, however often the address comes back meanwhile.
BanEnds == \A a \in Addrs : Barred(a) ~> ~Barred(a)

\* The window is fixed at its first failure, so failures around its end are
\* not all counted together; still an address that is not banned always has less
\* than twice as many counted as allowed in any time as long as the window.
\* (Late failures of connections accepted before a ban do not count under it.)
\* What goes beyond the allowed number is what MoreThanAllowedBans is about.
FailuresBounded == \A a \in Addrs : a \notin banned => ~AtLeast(2 * MaxFailures, a)

\* What docs/faq.md and the comment on maxFailures say: more failures than
\* allowed within the time of the window bring a ban.
MoreThanAllowedBans == \A a \in Addrs : a \notin banned => ~AtLeast(MaxFailures + 1, a)

\* No ghosts: who counts as online has a connection, whatever the order in
\* which the connections of a user begin, fail and end.
NoGhosts ==
    \A d \in online : \E c \in Conns : pc[c] = "session" /\ Device(c) = d

\* A connection past a step of handleConnection has what the step got, and a
\* count beyond the allowed one comes with a ban.  With these, NoGhosts and
\* TypeOK are inductive.
Known ==
    \A c \in Conns :
        /\ pc[c] # "idle" => addr[c] \in Addrs
        /\ pc[c] \in {"limits", "session"} => user[c] \in Users

BannedBeyond == \A a \in Addrs : a \notin banned => count[a] <= MaxFailures

\* The record counts the latest failures, since the one firstFail tells of; of
\* those before it fewer than allowed are no older than the window, since the
\* record that counted them was given up only when it was over.  All failures
\* that counted are at least as old as the ban.  With these FailuresBounded is
\* inductive, and BanDeserved follows.
LatestFirst == \A a \in Addrs : \A i, j \in Latest : i <= j => recent[a][i] <= recent[a][j]

RecordsLatest ==
    \A a \in Addrs : a \notin banned =>
        /\ banAge[a] = 0
        /\ count[a] > 0 => recent[a][count[a]] = first[a]
        /\ ~AtLeast(count[a] + MaxFailures, a)

BanIsLater ==
    \A a \in banned : \A i \in Latest : recent[a][i] >= banAge[a] \/ recent[a][i] > Window

FailureInv == LatestFirst /\ RecordsLatest /\ BanIsLater

IInv == TypeOK /\ Known /\ BannedBeyond /\ NoGhosts

\* What the comment on Snapshot says of its result, a snapshot of the users
\* that are online now: every device with a session is in it.
SnapshotComplete ==
    \A c \in Conns : pc[c] = "session" => Device(c) \in online
=============================================================================
