----------------------------- MODULE SessionPool -----------------------------
(***************************************************************************)
(* The client's pool of reusable sessions (proxy/session/client.go) with   *)
(* the parts of Session and Stream that feed it: Session.Close, OpenStream *)
(* and the closing of a Stream, whose die hook returns the session to the  *)
(* pool.                                                                   *)
(*                                                                         *)
(* Every element of Conns is one proxied connection: the goroutine that    *)
(* calls CreateStream once, uses the stream and closes it.  A step of the  *)
(* model is what a goroutine does between two points where another one may *)
(* see the difference: a section under a lock, an atomic load, a call of   *)
(* sync.Once.  A goroutine about to call Session.Close leaves the call to  *)
(* a step of its own and does not wait for it, which only allows more      *)
(* interleavings than the code.                                            *)
(***************************************************************************)
EXTENDS Naturals, FiniteSets

CONSTANTS
    Conns,       \* the proxied connections
    MaxSession,  \* bound of the model: dialOut succeeds at most so often
    MinIdle      \* c.minIdleSession

ASSUME PoolAssumption == MaxSession \in Nat /\ MinIdle \in Nat

VARIABLES
    closer,    \* progress of Client.Close, which first cancels c.die
    cleaner,   \* the goroutine of StartRoutine(idleCleanup)
    counter,   \* c.sessionCounter
    idle,      \* the sessions, by seq, in c.idleSession
    expired,   \* those of them idle for longer than idleSessionTimeout
    sessions,  \* the sessions, by seq, in c.sessions
    life,      \* how far every session is on its way to closed
    pc,        \* progress of CreateStream
    sess,      \* the session the connection works on, 0 before it has one
    strm,      \* its stream: not yet made, open, or how far its closing got
    finDue     \* the streams whose closer, closeWithError, has yet to send FIN

vars == << closer, cleaner, counter, idle, expired, sessions, life, pc, sess,
           strm, finDue >>

Seqs == 1 .. MaxSession

\* "given": the cleanup or a die hook has given the session up and will call
\* its Close; "taken": Client.Close will.  Then the stages of Session.Close.
LifeStages == {"unborn", "open", "given", "taken", "died", "unhooked", "closed"}
CallSteps == {"start", "pick", "dial", "open", "hook", "serving", "failed"}
StreamSteps == {"none", "open", "unlisted", "hookSession", "hookClient", "hookPut", "fin", "dead"}

TypeOK ==
    /\ closer \in {"none", "cancelled", "done"}
    /\ cleaner \in {"sleep", "stopped"}
    /\ counter \in 0 .. MaxSession
    /\ idle \in SUBSET Seqs /\ expired \in SUBSET Seqs
    /\ sessions \in SUBSET Seqs
    /\ life \in [Seqs -> LifeStages]
    /\ pc \in [Conns -> CallSteps]
    /\ sess \in [Conns -> 0 .. MaxSession]
    /\ strm \in [Conns -> StreamSteps]
    /\ finDue \in SUBSET Conns

Init ==
    /\ closer = "none" /\ cleaner = "sleep" /\ counter = 0
    /\ idle = {} /\ expired = {} /\ sessions = {}
    /\ life = [s \in Seqs |-> "unborn"]
    /\ pc = [p \in Conns |-> "start"]
    /\ sess = [p \in Conns |-> 0]
    /\ strm = [p \in Conns |-> "none"]
    /\ finDue = {}

poolVars == << idle, expired >>
clientVars == << closer, cleaner, counter, sessions >>
callVars == << pc, sess >>
streamVars == << strm, finDue >>

(***************************************************************************)
(* Session.Close                                                           *)
(***************************************************************************)
IsClosed(s) == life[s] \in {"died", "unhooked", "closed"}

\* The first caller closes s.die and goes on with the steps below; dieOnce
\* turns every other call into a no-op.
Closing(s) ==
    [life EXCEPT ![s] = IF @ \in {"open", "given", "taken"} THEN "died" ELSE @]

\* recvLoop ends (the peer closed, the network failed, an alert came) or the
\* SYN watchdog of OpenStream fires.
SessionFails(s) ==
    /\ life[s] \in {"open", "given", "taken"}
    /\ life' = Closing(s)
    /\ UNCHANGED << clientVars, poolVars, callVars, streamVars >>

\* A goroutine gets to the session.Close() it is committed to.
CloseDoomed(s) ==
    /\ life[s] \in {"given", "taken"}
    /\ life' = Closing(s)
    /\ UNCHANGED << clientVars, poolVars, callVars, streamVars >>

\* The hook set by createSession.  It takes two locks in turn, and nothing
\* that looks under one of them has looked under the other.
CloseHook(s) ==
    /\ life[s] = "died"
    /\ life' = [life EXCEPT ![s] = "unhooked"]
    /\ idle' = idle \ {s} /\ expired' = expired \ {s}
    /\ sessions' = sessions \ {s}
    /\ UNCHANGED << closer, cleaner, counter, callVars, streamVars >>

\* Mutant: the streams of a closing session are not closed.
CloseStreamsKeepsThem(s) ==
    /\ life[s] = "unhooked"
    /\ life' = [life EXCEPT ![s] = "closed"]
    /\ UNCHANGED << clientVars, poolVars, callVars, streamVars >>

\* Under streamLock: closeLocally on every stream, whose hook finds the
\* session closed and does nothing; then a fresh map and conn.Close.
CloseStreams(s) ==
    /\ life[s] = "unhooked"
    /\ life' = [life EXCEPT ![s] = "closed"]
    /\ strm' = [p \in Conns |-> IF sess[p] = s /\ strm[p] = "open"
                                THEN "dead" ELSE strm[p]]
    /\ UNCHANGED << clientVars, poolVars, callVars, finDue >>

(***************************************************************************)
(* CreateStream                                                            *)
(***************************************************************************)
Cancelled == closer # "none"

Goto(p, step) == pc' = [pc EXCEPT ![p] = step]

CheckClient(p) ==
    /\ pc[p] = "start"
    /\ Goto(p, IF Cancelled THEN "failed" ELSE "pick")
    /\ UNCHANGED << clientVars, poolVars, life, sess, streamVars >>

\* Mutant: the session is looked up and not removed.
PeekIdleSession(p) ==
    /\ pc[p] = "pick"
    /\ \E s \in idle :
         /\ \A t \in idle : t <= s
         /\ sess' = [sess EXCEPT ![p] = s]
    /\ Goto(p, "open")
    /\ UNCHANGED << clientVars, poolVars, life, streamVars >>

\* The keys are MaxUint64 - seq, so the first entry is the largest seq.
GetIdleSession(p) ==
    /\ pc[p] = "pick"
    /\ \E s \in idle :
         /\ \A t \in idle : t <= s
         /\ idle' = idle \ {s} /\ expired' = expired \ {s}
         /\ sess' = [sess EXCEPT ![p] = s]
    /\ Goto(p, "open")
    /\ UNCHANGED << clientVars, life, streamVars >>

NoIdleSession(p) ==
    /\ pc[p] = "pick" /\ idle = {}
    /\ Goto(p, "dial")
    /\ UNCHANGED << clientVars, poolVars, life, sess, streamVars >>

\* Mutant: the counter is read and not advanced.
CreateSessionSameSeq(p) ==
    LET seq == counter + 1 IN
    /\ pc[p] = "dial" /\ counter < MaxSession
    /\ sessions' = sessions \cup {seq}
    /\ life' = [life EXCEPT ![seq] = "open"]
    /\ sess' = [sess EXCEPT ![p] = seq]
    /\ Goto(p, "open")
    /\ UNCHANGED << closer, cleaner, counter, poolVars, streamVars >>

CreateSession(p) ==
    LET seq == counter + 1 IN
    /\ pc[p] = "dial" /\ counter < MaxSession
    /\ counter' = seq
    /\ sessions' = sessions \cup {seq}
    /\ life' = [life EXCEPT ![seq] = "open"]
    /\ sess' = [sess EXCEPT ![p] = seq]
    /\ Goto(p, "open")
    /\ UNCHANGED << closer, cleaner, poolVars, streamVars >>

DialFails(p) ==
    /\ pc[p] = "dial"
    /\ Goto(p, "failed")
    /\ UNCHANGED << clientVars, poolVars, life, sess, streamVars >>

\* Mutant: a failed OpenStream leaves the session as it is.
OpenStreamNoClose(p) ==
    /\ pc[p] = "open"
    /\ \/ /\ ~IsClosed(sess[p])
          /\ Goto(p, "hook")
          /\ strm' = [strm EXCEPT ![p] = "open"]
       \/ Goto(p, "failed") /\ UNCHANGED strm
    /\ UNCHANGED << clientVars, poolVars, life, sess, finDue >>

\* CreateStream closes the session when OpenStream fails, be it that the SYN
\* cannot be written.  A closed session takes no stream, whichever of the two
\* looks at s.die notices; the second one holds streamLock.
OpenStream(p) ==
    /\ pc[p] = "open"
    /\ \/ /\ ~IsClosed(sess[p])
          /\ Goto(p, "hook")
          /\ strm' = [strm EXCEPT ![p] = "open"]
          /\ UNCHANGED life
       \/ /\ Goto(p, "failed")
          /\ life' = Closing(sess[p])
          /\ UNCHANGED strm
    /\ UNCHANGED << clientVars, poolVars, sess, finDue >>

SetDieHook(p) ==
    /\ pc[p] = "hook"
    /\ Goto(p, "serving")
    /\ UNCHANGED << clientVars, poolVars, life, sess, streamVars >>

(***************************************************************************)
(* The end of a stream.  dieOnce lets one closer through; it runs the die  *)
(* hook and, in closeWithError, goes on to streamClosed.                   *)
(***************************************************************************)
StreamGoto(p, step) == strm' = [strm EXCEPT ![p] = step]

AfterHook(p) == IF p \in finDue THEN "fin" ELSE "dead"

\* closeWithError: the owner calls Stream.Close when its relay is over, or
\* recvLoop gets a cmdSYNACK that reports an error.  The peer has read the
\* address by then, which is written after SetDieHook.
CloseStream(p) ==
    /\ pc[p] = "serving" /\ strm[p] \in {"open", "unlisted"}
    /\ StreamGoto(p, "hookSession")
    /\ finDue' = finDue \cup {p}
    /\ UNCHANGED << clientVars, poolVars, life, callVars >>

\* Mutant: without dieOnce the hook runs once more.
RemoteFINAgain(p) ==
    /\ pc[p] = "serving" /\ strm[p] \in {"open", "dead"}
    /\ StreamGoto(p, "unlisted")
    /\ UNCHANGED << clientVars, poolVars, life, callVars, finDue >>

\* recvLoop gets a cmdFIN, which follows the address as well, and takes the stream
\* out of s.streams: Session.Close does not find it there any more ...
RemoteFIN(p) ==
    /\ pc[p] = "serving" /\ strm[p] = "open"
    /\ StreamGoto(p, "unlisted")
    /\ UNCHANGED << clientVars, poolVars, life, callVars, finDue >>

\* ... and closes it without the lock: closeLocally, unless the owner was faster.
CloseFINed(p) ==
    /\ strm[p] = "unlisted"
    /\ StreamGoto(p, "hookSession")
    /\ UNCHANGED << clientVars, poolVars, life, callVars, finDue >>

\* The hook set by CreateStream, one step for each of its two checks.
HookCheckSession(p) ==
    /\ strm[p] = "hookSession"
    /\ StreamGoto(p, IF IsClosed(sess[p]) THEN AfterHook(p) ELSE "hookClient")
    /\ UNCHANGED << clientVars, poolVars, life, callVars, finDue >>

\* Mutant: the hook does not ask whether the client is closed ...
HookIgnoresClient(p) ==
    /\ strm[p] = "hookClient"
    /\ StreamGoto(p, "hookPut")
    /\ UNCHANGED << clientVars, poolVars, life, callVars, finDue >>

\* ... or does, and does not close the session.
HookLeavesSession(p) ==
    /\ strm[p] = "hookClient"
    /\ StreamGoto(p, IF Cancelled THEN AfterHook(p) ELSE "hookPut")
    /\ UNCHANGED << clientVars, poolVars, life, callVars, finDue >>

HookCheckClient(p) ==
    /\ strm[p] = "hookClient"
    /\ IF Cancelled
       THEN /\ StreamGoto(p, AfterHook(p))
            /\ life' = [life EXCEPT ![sess[p]] = IF @ = "open" THEN "given" ELSE @]
       ELSE StreamGoto(p, "hookPut") /\ UNCHANGED life
    /\ UNCHANGED << clientVars, poolVars, callVars, finDue >>

\* Mutant: the key of the session is off by one.
HookPutOffByOne(p) ==
    /\ strm[p] = "hookPut"
    /\ StreamGoto(p, AfterHook(p))
    /\ idle' = idle \cup {sess[p] - 1} /\ expired' = expired \ {sess[p]}
    /\ UNCHANGED << clientVars, life, callVars, finDue >>

HookPut(p) ==
    /\ strm[p] = "hookPut"
    /\ StreamGoto(p, AfterHook(p))
    /\ idle' = idle \cup {sess[p]} /\ expired' = expired \ {sess[p]}
    /\ UNCHANGED << clientVars, life, callVars, finDue >>

\* streamClosed: a FIN that cannot be written closes the session, which may
\* serve another connection by now.
SendFin(p) ==
    /\ strm[p] = "fin"
    /\ StreamGoto(p, "dead")
    /\ finDue' = finDue \ {p}
    /\ life' \in {life, Closing(sess[p])}
    /\ UNCHANGED << clientVars, poolVars, callVars >>

(***************************************************************************)
(* idleCleanup                                                             *)
(***************************************************************************)
Expire(s) ==
    /\ s \in idle \ expired
    /\ expired' = expired \cup {s}
    /\ UNCHANGED << clientVars, idle, life, callVars, streamVars >>

\* Mutant: the reserve is one session short.
SurplusOffByOne ==
    {s \in idle \cap expired : Cardinality({t \in idle : t > s}) + 1 >= MinIdle}

\* The loop over the pool, newest first: active[s] is activeCount when it has passed
\* session s + 1, the newer sessions that stay, fresh ones or the first min.
SurplusLoop(pool, old, min, last) ==
    LET active[s \in 0 .. last] ==
          IF s = last THEN 0
          ELSE LET stays == s + 1 \in pool
                            /\ (s + 1 \notin old \/ active[s + 1] < min)
               IN  active[s + 1] + (IF stays THEN 1 ELSE 0)
    IN  {s \in pool \cap old : active[s] >= min}

\* What it comes to: the newest min sessions all stay, so that the count has got to
\* min, and stays there, after as many sessions of any age.  (MCSessionPool compares
\* the two.)
Surplus == {s \in idle \cap expired : Cardinality({t \in idle : t > s}) >= MinIdle}

\* Mutant: sessions are refreshed instead of removed.
CleanupRefreshes ==
    /\ cleaner = "sleep"
    /\ expired' = {}
    /\ cleaner' = IF Cancelled THEN "stopped" ELSE "sleep"
    /\ UNCHANGED << closer, counter, sessions, idle, life, callVars, streamVars >>

\* An expired session that stays gets a new idleSince.  The routine ends when
\* it finds the client cancelled after a cleanup.
Cleanup ==
    /\ cleaner = "sleep"
    /\ idle' = idle \ Surplus /\ expired' = {}
    /\ life' = [s \in Seqs |-> IF s \in Surplus /\ life[s] \in {"open", "taken"}
                               THEN "given" ELSE life[s]]
    /\ cleaner' = IF Cancelled THEN "stopped" ELSE "sleep"
    /\ UNCHANGED << closer, counter, sessions, callVars, streamVars >>

(***************************************************************************)
(* Client.Close                                                            *)
(***************************************************************************)
ClientCancel ==
    /\ closer = "none"
    /\ closer' = "cancelled"
    /\ UNCHANGED << cleaner, counter, sessions, poolVars, life, callVars, streamVars >>

ClientTakeSessions ==
    /\ closer = "cancelled"
    /\ closer' = "done"
    /\ sessions' = {}
    /\ life' = [s \in Seqs |-> IF s \in sessions /\ life[s] = "open"
                               THEN "taken" ELSE life[s]]
    /\ UNCHANGED << cleaner, counter, poolVars, callVars, streamVars >>

(***************************************************************************)
(* The specification                                                       *)
(***************************************************************************)
CloseStep(s) == CloseHook(s) \/ CloseStreams(s)

CallStep(p) ==
    \/ GetIdleSession(p) \/ NoIdleSession(p) \/ CreateSession(p) \/ DialFails(p)
    \/ OpenStream(p) \/ SetDieHook(p)

StreamStep(p) ==
    CloseFINed(p) \/ HookCheckSession(p) \/ HookCheckClient(p) \/ HookPut(p) \/ SendFin(p)

\* What users, the peer, the network and the clock may do, or never do.
Environment ==
    \/ ClientCancel
    \/ \E s \in Seqs : SessionFails(s) \/ Expire(s)
    \/ \E p \in Conns : CheckClient(p) \/ CloseStream(p) \/ RemoteFIN(p)

Next ==
    \/ Environment
    \/ ClientTakeSessions
    \/ Cleanup
    \/ \E s \in Seqs : CloseDoomed(s) \/ CloseStep(s)
    \/ \E p \in Conns : CallStep(p) \/ StreamStep(p)

Spec == Init /\ [][Next]_vars

\* A goroutine that can take its next step takes it.
Fairness ==
    /\ WF_vars(ClientTakeSessions)
    /\ WF_vars(Cleanup)
    /\ \A s \in Seqs : WF_vars(CloseStep(s)) /\ WF_vars(CloseDoomed(s))
    /\ \A p \in Conns : WF_vars(CallStep(p)) /\ WF_vars(StreamStep(p))

FairSpec == Spec /\ Fairness

(***************************************************************************)
(* Properties                                                              *)
(***************************************************************************)
\* The connection still decides what becomes of its session: it is inside
\* CreateStream, its stream is open, or its die hook has not yet run.
Holds(p, s) ==
    /\ sess[p] = s
    /\ \/ pc[p] \in {"open", "hook"}
       \/ strm[p] \in {"open", "unlisted", "hookSession", "hookClient", "hookPut"}

\* Two connections never share a session: a reuse starts only where the former
\* use has ended, although its FIN may still be on its way (the point of
\* taking a session out of the pool and of returning it from the die hook).
ExclusiveUse ==
    \A s \in Seqs : \A p, q \in Conns : Holds(p, s) /\ Holds(q, s) => p = q

\* A session in the pool, or given up by the cleanup, belongs to no connection:
\* the cleanup never cuts off a stream in use.
PooledIsUnused ==
    \A s \in Seqs : s \in idle \/ life[s] = "given" => \A p \in Conns : ~Holds(p, s)

\* A session that nobody is about to close is never stranded: it can be
\* reused or cleaned up, or a connection holds it.
NoneStranded ==
    \A s \in Seqs : life[s] = "open" => s \in idle \/ \E p \in Conns : Holds(p, s)

\* Client.Close misses no session, the ones dialled while it ran included:
\* a session that is not about to close afterwards has a connection at work on
\* it, which will find the client closed.
CloseMissesNone ==
    closer = "done" =>
        \A s \in Seqs : life[s] = "open" =>
            s \notin idle /\ \E p \in Conns : Holds(p, s) /\ strm[p] # "hookPut"

\* Until Client.Close takes them over, the registry lists every session that
\* has not died, so that none can leak.
RegistryComplete ==
    closer # "done" =>
        \A s \in Seqs : life[s] \in {"open", "given", "taken"} => s \in sessions

\* The pool lends sessions as Lease says.  A session that somebody is committed to
\* close counts as ended, except that Client.Close leaves one its user until it gets
\* to it.
Live(s) == life[s] \in {"open", "taken"}
phase == [s \in Seqs |-> IF life[s] = "unborn" THEN "unborn"
                         ELSE IF Live(s) THEN "live" ELSE "ended"]
holders == [s \in Seqs |-> {p \in Conns : Live(s) /\ Holds(p, s)}]

L == INSTANCE Lease WITH Sessions <- Seqs, Users <- Conns

PoolIsLease == L!LeaseSpec

\* How the variables hang together; with it the invariants above are inductive.
Tracked ==
    /\ \A s \in Seqs :
         /\ life[s] = "unborn" <=> s > counter
         /\ life[s] = "given" => s \notin idle
    /\ \A s \in idle \cup sessions : s <= counter
    /\ \A p \in Conns :
         /\ sess[p] <= counter
         /\ pc[p] \in {"open", "hook", "serving"} => sess[p] # 0
         /\ pc[p] \in {"hook", "serving"} <=> strm[p] # "none"
         /\ pc[p] = "hook" => \/ strm[p] = "open"
                              \/ strm[p] = "dead" /\ life[sess[p]] = "closed"

IInv ==
    /\ TypeOK /\ Tracked
    /\ ExclusiveUse /\ PooledIsUnused /\ NoneStranded
    /\ RegistryComplete /\ CloseMissesNone

\* A cleanup leaves MinIdle newer sessions for every one it takes, and takes
\* only expired ones, the oldest first (idleCleanupExpTime).
CleanupReserve ==
    [][Cleanup =>
         \A s \in idle \ idle' :
           /\ Cardinality({t \in idle' : t > s}) >= MinIdle
           /\ s \in expired
           /\ \A t \in idle \cap expired : t < s => t \notin idle']_vars

\* What the comment in CreateStream's die hook and the protocol say of the
\* pool: a session that has closed is not put there.
IdleSessionsAlive == \A s \in idle : life[s] \notin {"unhooked", "closed"}

\* Client.Close ends: from some point on every session is closed for good or
\* serves a connection whose user has not finished.
CloseDrains ==
    closer = "done" ~>
        [](\A s \in Seqs : \/ life[s] \in {"unborn", "closed"}
                            \/ \E p \in Conns : sess[p] = s /\ strm[p] = "open")

\* Session.Close ends: in the end the owner of its stream, blocked in Read,
\* learns of it, also when the stream was registered while Close was running.
CloseWakesOwner ==
    \A p \in Conns :
        sess[p] # 0 /\ IsClosed(sess[p]) ~> sess[p] # 0 /\ strm[p] \in {"none", "dead"}

\* An idle session beyond the reserve is cleaned up in the end, unless it gets
\* reused or the reserve shrinks to the point where it needs the session.
SurplusReaped ==
    \A s \in Seqs :
        s \in Surplus ~> \/ s \notin idle
                         \/ Cardinality({t \in idle : t > s}) < MinIdle
                         \/ Cancelled
=============================================================================
