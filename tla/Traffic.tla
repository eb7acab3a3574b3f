------------------------------- MODULE Traffic -------------------------------
(***************************************************************************)
(* What becomes of the traffic the server counts (internal/traffic,        *)
(* internal/conn/traffic_conn.go, the traffic half of doPush in            *)
(* internal/server/sync.go, Shutdown, api.PushTraffic and its retries):    *)
(* connections add to counters, a push takes the counters to the panel and *)
(* merges back what the panel did not take, what is left goes to a file    *)
(* that the next start reads.                                              *)
(*                                                                         *)
(* One amount per user stands for upload and download, which every         *)
(* operation treats alike.  The panel is external: it adds up what it      *)
(* accepts.  This is the server with a panel (cfg.Standalone is false).    *)
(***************************************************************************)
EXTENDS Naturals, FiniteSets

CONSTANTS
    Users,
    Conns,           \* the goroutines that read from and write to connections
    Retries,         \* len(retryDelays)
    MaxMoved,        \* bound of the model: traffic per user
    MaxLostReplies,  \* bound of the model: replies of the panel that get lost
    MaxRestarts      \* bound of the model: starts after the first

\* Those who push: syncLoop and Shutdown.
Pushers == {"sync", "shutdown"}
Adders == Conns \cup Pushers

ASSUME TrafficAssumption ==
    /\ Retries \in Nat /\ MaxMoved \in Nat
    /\ MaxLostReplies \in Nat /\ MaxRestarts \in Nat
    /\ Conns \cap Pushers = {}

VARIABLES
    counter,   \* what the entry in c.counters holds, 0 as well when there is none
    live,      \* inside Add, with a pointer to the entry of the user in the map
    orphans,   \* inside Add, with a pointer to an entry no longer in the map
    pc,        \* where doPush and Shutdown are
    snap,      \* the snapshot they hold
    tries,     \* the attempts made to push it
    copy,      \* what SaveToFile is about to write
    disk,      \* what LoadFromFile finds: all 0 when no file or none it can parse
    moved,     \* history: traffic the connections had added
    reported,  \* the panel: what it has added up
    gone,      \* history: counted in no entry, file or snapshot any more
    again,     \* history: reported, or read from the file, while still held
    replies,   \* replies lost so far
    restarts,  \* restarts so far
    quiet      \* history: nothing else was going on since Shutdown began

vars == << counter, live, orphans, pc, snap, tries, copy, disk, moved, reported,
           gone, again, replies, restarts, quiet >>

addVars == << live, orphans >>
fileVars == << copy, disk >>
panelVars == << tries, reported, again, replies >>

None == [u \in Users |-> 0]
Plus(f, g) == [u \in Users |-> f[u] + g[u]]

Steps == {"idle", "prune", "push", "merge", "save", "truncate", "write", "vain",
          "waiting", "stopped", "exited"}

TypeOK ==
    /\ counter \in [Users -> Nat] /\ disk \in [Users -> Nat]
    /\ live \in SUBSET (Adders \X Users) /\ orphans \in SUBSET (Adders \X Users)
    /\ pc \in [Pushers -> Steps]
    /\ snap \in [Pushers -> [Users -> Nat]] /\ copy \in [Pushers -> [Users -> Nat]]
    /\ tries \in [Pushers -> 0 .. Retries]
    /\ moved \in [Users -> Nat] /\ reported \in [Users -> Nat]
    /\ gone \in [Users -> Nat] /\ again \in [Users -> Nat]
    /\ replies \in 0 .. MaxLostReplies /\ restarts \in 0 .. MaxRestarts
    /\ quiet \in BOOLEAN

Init ==
    /\ counter = None /\ disk = None
    /\ live = {} /\ orphans = {}
    /\ pc = [p \in Pushers |-> "idle"]
    /\ snap = [p \in Pushers |-> None] /\ copy = [p \in Pushers |-> None]
    /\ tries = [p \in Pushers |-> 0]
    /\ moved = None /\ reported = None /\ gone = None /\ again = None
    /\ replies = 0 /\ restarts = 0
    /\ quiet = TRUE

Running == pc["shutdown"] # "exited"

\* Snapshot holds c.mu from its swaps to its deletions.
Unlocked == \A p \in Pushers : pc[p] # "prune"

Goto(p, step) == pc' = [pc EXCEPT ![p] = step]

(***************************************************************************)
(* Counter.Add: find or make the entry under c.mu, then, without it, add.  *)
(***************************************************************************)
Adding(x) == \E u \in Users : << x, u >> \in live \cup orphans

FindEntry(x, u) ==
    /\ Running /\ Unlocked /\ ~Adding(x)
    /\ live' = live \cup {<< x, u >>}
    /\ UNCHANGED orphans

AddTo(x, u, n) ==
    /\ live' = live \ {<< x, u >>} /\ orphans' = orphans \ {<< x, u >>}
    /\ \/ /\ << x, u >> \in live
          /\ counter' = [counter EXCEPT ![u] = @ + n] /\ UNCHANGED gone
       \/ /\ << x, u >> \in orphans
          /\ gone' = [gone EXCEPT ![u] = @ + n] /\ UNCHANGED counter

Calm == quiet' = (quiet /\ pc["shutdown"] = "idle")

\* TrafficConn.Read and Write, after the bytes have moved.
ConnFindsEntry(c, u) ==
    /\ moved[u] < MaxMoved
    /\ FindEntry(c, u)
    /\ Calm
    /\ UNCHANGED << counter, pc, snap, fileVars, panelVars, moved, gone, restarts >>

ConnAdds(c, u) ==
    /\ Running /\ moved[u] < MaxMoved
    /\ AddTo(c, u, 1)
    /\ moved' = [moved EXCEPT ![u] = @ + 1]
    /\ Calm
    /\ UNCHANGED << pc, snap, fileVars, panelVars, restarts >>

(***************************************************************************)
(* Counter.Snapshot                                                        *)
(***************************************************************************)
\* The tick of pushTicker, or Shutdown, for which cancel() has been called.
Swap(p) ==
    /\ Running /\ pc[p] = "idle" /\ Unlocked
    /\ Goto(p, "prune")
    /\ snap' = [snap EXCEPT ![p] = counter]
    /\ counter' = None
    /\ quiet' = (quiet /\ IF p = "sync" THEN pc["shutdown"] = "idle"
                          ELSE pc["sync"] \in {"idle", "stopped"} /\ live = {})
    /\ UNCHANGED << addVars, fileVars, panelVars, moved, gone, restarts >>

\* Entries that are zero leave the map, whoever may hold a pointer to them.
Prune(p) ==
    LET held == {a \in live : counter[a[2]] = 0} IN
    /\ Running /\ pc[p] = "prune"
    /\ Goto(p, IF snap[p] = None THEN "save" ELSE "push")
    /\ live' = live \ held /\ orphans' = orphans \cup held
    /\ tries' = [tries EXCEPT ![p] = 0]
    /\ UNCHANGED << counter, snap, fileVars, reported, again, replies, moved, gone,
                    restarts, quiet >>

(***************************************************************************)
(* PushTraffic and doWithRetry                                             *)
(***************************************************************************)
\* Mutant: after a successful push the file is left as it was.
PushAcceptedNoSave(p) ==
    /\ Running /\ pc[p] = "push"
    /\ Goto(p, IF p = "sync" THEN "idle" ELSE "waiting")
    /\ reported' = Plus(reported, snap[p])
    /\ snap' = [snap EXCEPT ![p] = None]
    /\ UNCHANGED << counter, addVars, fileVars, tries, again, replies, moved, gone,
                    restarts, quiet >>

PushAccepted(p) ==
    /\ Running /\ pc[p] = "push"
    /\ Goto(p, "save")
    /\ reported' = Plus(reported, snap[p])
    /\ snap' = [snap EXCEPT ![p] = None]
    /\ UNCHANGED << counter, addVars, fileVars, tries, again, replies, moved, gone,
                    restarts, quiet >>

\* Mutant: a refused snapshot is not merged back.
PushRefusedForgets(p) ==
    /\ Running /\ pc[p] = "push"
    /\ Goto(p, "save")
    /\ UNCHANGED << counter, addVars, snap, fileVars, panelVars, moved, gone,
                    restarts, quiet >>

\* A status that is neither 200 nor 5xx ends the attempts.
PushRefused(p) ==
    /\ Running /\ pc[p] = "push"
    /\ Goto(p, "merge")
    /\ UNCHANGED << counter, addVars, snap, fileVars, panelVars, moved, gone,
                    restarts, quiet >>

\* Mutant: one attempt too many ...
TryAgainOnceMore(p) ==
    /\ Goto(p, IF tries[p] > Retries THEN "merge" ELSE "push")
    /\ tries' = [tries EXCEPT ![p] = IF @ > Retries THEN @ ELSE @ + 1]

\* ... or the snapshot is given up after the last.
TryAgainForgets(p) ==
    /\ Goto(p, IF tries[p] = Retries THEN "save" ELSE "push")
    /\ tries' = [tries EXCEPT ![p] = IF @ = Retries THEN @ ELSE @ + 1]

TryAgain(p) ==
    /\ Goto(p, IF tries[p] = Retries THEN "merge" ELSE "push")
    /\ tries' = [tries EXCEPT ![p] = IF @ = Retries THEN @ ELSE @ + 1]

\* A 5xx status or a network error, before the panel counted anything ...
PushFails(p) ==
    /\ Running /\ pc[p] = "push"
    /\ TryAgain(p)
    /\ UNCHANGED << counter, addVars, snap, fileVars, reported, again, replies,
                    moved, gone, restarts, quiet >>

\* ... or after.
ReplyLost(p) ==
    /\ Running /\ pc[p] = "push" /\ replies < MaxLostReplies
    /\ replies' = replies + 1
    /\ TryAgain(p)
    /\ reported' = Plus(reported, snap[p]) /\ again' = Plus(again, snap[p])
    /\ UNCHANGED << counter, addVars, snap, fileVars, moved, gone, restarts, quiet >>

\* Counter.Merge, one Add per user of the snapshot.
MergeFindsEntry(p, u) ==
    /\ pc[p] = "merge" /\ snap[p][u] > 0
    /\ FindEntry(p, u)
    /\ UNCHANGED << counter, pc, snap, fileVars, panelVars, moved, gone, restarts, quiet >>

MergeAdds(p, u) ==
    LET left == [snap[p] EXCEPT ![u] = 0] IN
    /\ Running /\ pc[p] = "merge"
    /\ AddTo(p, u, snap[p][u])
    /\ snap' = [snap EXCEPT ![p] = left]
    /\ Goto(p, IF left = None THEN "save" ELSE "merge")
    /\ UNCHANGED << fileVars, panelVars, moved, restarts, quiet >>

(***************************************************************************)
(* Counter.SaveToFile: a copy under c.mu; then, without it, the file.      *)
(***************************************************************************)
AfterSave(p) == IF p = "sync" THEN "idle" ELSE "waiting"

\* Mutant: the copy takes the counters, as Snapshot does.
CopyCountersResets(p) ==
    /\ Running /\ pc[p] = "save" /\ Unlocked
    /\ Goto(p, "truncate")
    /\ copy' = [copy EXCEPT ![p] = counter]
    /\ counter' = None
    /\ UNCHANGED << addVars, snap, disk, panelVars, moved, gone, restarts, quiet >>

CopyCounters(p) ==
    /\ Running /\ pc[p] = "save" /\ Unlocked
    /\ Goto(p, "truncate")
    /\ copy' = [copy EXCEPT ![p] = counter]
    /\ UNCHANGED << counter, addVars, snap, disk, panelVars, moved, gone, restarts, quiet >>

\* With nothing to save the file is removed, also from under another writer.
RemoveFile(p) ==
    /\ Running /\ pc[p] = "truncate" /\ copy[p] = None
    /\ pc' = [q \in Pushers |-> IF q = p THEN AfterSave(p)
                                ELSE IF pc[q] = "write" THEN "vain" ELSE pc[q]]
    /\ disk' = None
    /\ UNCHANGED << counter, addVars, snap, copy, panelVars, moved, gone, restarts, quiet >>

Truncate(p) ==
    /\ Running /\ pc[p] = "truncate" /\ copy[p] # None
    /\ Goto(p, "write")
    /\ disk' = None
    /\ UNCHANGED << counter, addVars, snap, copy, panelVars, moved, gone, restarts, quiet >>

\* What overwrites the text of another writer may leave the end of it behind.
WriteFile(p) ==
    /\ Running /\ pc[p] \in {"write", "vain"}
    /\ Goto(p, AfterSave(p))
    /\ \/ pc[p] = "write" /\ disk' = copy[p]
       \/ pc[p] = "write" /\ disk # None /\ disk' = None
       \/ pc[p] = "vain" /\ UNCHANGED disk
    /\ UNCHANGED << counter, addVars, snap, copy, panelVars, moved, gone, restarts, quiet >>

(***************************************************************************)
(* The end of the process, and its next start                              *)
(***************************************************************************)
SyncStops ==
    /\ Running /\ pc["sync"] = "idle" /\ pc["shutdown"] # "idle"
    /\ Goto("sync", "stopped")
    /\ UNCHANGED << counter, addVars, snap, fileVars, panelVars, moved, gone, restarts, quiet >>

\* All goroutines have ended, or thirty seconds are over.
Exit ==
    /\ pc["shutdown"] = "waiting"
    /\ Goto("shutdown", "exited")
    /\ UNCHANGED << counter, addVars, snap, fileVars, panelVars, moved, gone, restarts, quiet >>

\* After an exit or a crash: main loads the file, and leaves it where it is.
Restart ==
    /\ restarts < MaxRestarts
    /\ restarts' = restarts + 1
    /\ counter' = disk
    /\ live' = {} /\ orphans' = {}
    /\ pc' = [p \in Pushers |-> "idle"]
    /\ snap' = [p \in Pushers |-> None] /\ copy' = [p \in Pushers |-> None]
    /\ tries' = [p \in Pushers |-> 0]
    /\ gone' = Plus(gone, Plus(counter, Plus(snap["sync"], snap["shutdown"])))
    /\ again' = Plus(again, disk)
    /\ quiet' = TRUE
    /\ UNCHANGED << disk, moved, reported, replies >>

(***************************************************************************)
(* The specification                                                       *)
(***************************************************************************)
PushStep(p) ==
    \/ Prune(p) \/ PushAccepted(p) \/ PushRefused(p) \/ PushFails(p) \/ ReplyLost(p)
    \/ \E u \in Users : MergeFindsEntry(p, u) \/ MergeAdds(p, u)
    \/ CopyCounters(p) \/ RemoveFile(p) \/ Truncate(p) \/ WriteFile(p)

Next ==
    \/ \E c \in Conns, u \in Users : ConnFindsEntry(c, u) \/ ConnAdds(c, u)
    \/ \E p \in Pushers : Swap(p) \/ PushStep(p)
    \/ SyncStops \/ Exit \/ Restart

Spec == Init /\ [][Next]_vars

\* The goroutines go on and the ticker ticks.  The panel must accept now and
\* then; whoever moves traffic and whoever stops the server need not.
Fairness ==
    /\ WF_vars(Swap("sync")) /\ WF_vars(PushStep("sync"))
    /\ SF_vars(PushAccepted("sync"))

FairSpec == Spec /\ Fairness

(***************************************************************************)
(* Properties                                                              *)
(***************************************************************************)
\* Traffic is conserved: through every race of Add, Snapshot, Merge, retry and
\* restart, what was moved is reported, counted or held by a push, once, but
\* for what the two histories say was lost or doubled.
Conserved ==
    \A u \in Users :
        reported[u] + counter[u] + snap["sync"][u] + snap["shutdown"][u] + gone[u]
            = moved[u] + again[u]

\* Between pushes the file never holds more than what is still to be reported:
\* a crash then makes no traffic count twice.
FileNotAhead ==
    pc["sync"] = "idle" /\ pc["shutdown"] = "idle" =>
        \A u \in Users : disk[u] <= counter[u]

\* How the variables hang together.  A snapshot is held by a push in progress
\* only; and while the server runs nobody but syncLoop takes counters away, so
\* that its copy is never ahead of them.  With these two, Conserved and
\* FileNotAhead are inductive.
Held == \A p \in Pushers : pc[p] \notin {"prune", "push", "merge"} => snap[p] = None

CopyNotAhead ==
    pc["shutdown"] = "idle" =>
        /\ pc["sync"] # "vain"
        /\ pc["sync"] \in {"truncate", "write"} =>
             \A u \in Users : copy["sync"][u] <= counter[u]

\* A shutdown that nothing disturbs is alone with the counters and the file:
\* what it is about to write, and what it leaves, is what the counters hold, and
\* it finds the file as it truncated it.
AloneWithFile ==
    quiet /\ pc["shutdown"] # "idle" =>
        /\ pc["sync"] \in {"idle", "stopped"} /\ pc["shutdown"] # "vain"
        /\ pc["shutdown"] \in {"truncate", "write"} => copy["shutdown"] = counter
        /\ pc["shutdown"] = "write" => disk = None
        /\ pc["shutdown"] \in {"waiting", "exited"} => disk = counter

IInv == TypeOK /\ Conserved /\ FileNotAhead /\ Held /\ CopyNotAhead /\ AloneWithFile

\* A server that is shut down while nothing goes on leaves nothing out: what
\* the panel does not take is in the file.
QuietShutdownSaves ==
    pc["shutdown"] = "exited" /\ quiet =>
        \A u \in Users : reported[u] + disk[u] + gone[u] = moved[u] + again[u]

\* Traffic that is moved is reported in the end, unless it was lost or the
\* server is shut down.
Reported ==
    \A u \in Users : \A k \in 1 .. MaxMoved :
        moved[u] >= k ~> reported[u] + gone[u] >= k \/ pc["shutdown"] # "idle"

\* What the comment at counter.go:41 says, a snapshot takes the data and clears
\* what it took, and the test of Counter (counter_test.go:52), the totals of
\* concurrent Adds are the sum of all inputs, whoever takes a snapshot
\* meanwhile: in one run of the process nothing gets lost.
AddsAreCounted == restarts = 0 => gone = None
=============================================================================
