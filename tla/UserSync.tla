------------------------------- MODULE UserSync -------------------------------
(***************************************************************************)
(* The pull cycle of syncLoop (doPull in internal/server/sync.go,          *)
(* FetchUsers and doWithRetry in internal/api, Manager in internal/user)   *)
(* with the handlers of Admission, which authenticate by the user table it *)
(* replaces and by the failure records it cleans up.                       *)
(*                                                                         *)
(* A list of users is a set.  An ETag stands for the list it came with:     *)
(* the panel, which is external, sends one with every list and derives it  *)
(* from the list.  Its lists change at any time, also while an answer is    *)
(* on its way or a request is being retried.                               *)
(***************************************************************************)
EXTENDS Admission

CONSTANT MaxRetry  \* len(retryDelays)

ASSUME SyncAssumption == MaxRetry \in Nat

VARIABLES
    listed,    \* the panel's list
    table,     \* m.users
    userETag,  \* c.userETag, as the set of the list that it came with, or {}
    pull,      \* doPull: idle, about to ask, with an answer on its way, or past the users
    answer,    \* the answer to the request that is under way
    attempt,   \* attempt of doWithRetry
    seen       \* history: the panel's lists since it gave that answer

syncVars == << listed, table, userETag, pull, answer, attempt, seen >>
allVars == << vars, syncVars >>

Lists == SUBSET Users

NoAnswer == [status |-> "none", users |-> {}]
NotModified == [status |-> "304", users |-> {}]
OK(users) == [status |-> "200", users |-> users]

SyncTypeOK ==
    /\ TypeOK
    /\ listed \in Lists /\ table \in Lists /\ userETag \in SUBSET Lists
    /\ pull \in {"idle", "ask", "answered", "config"}
    /\ answer \in [status : {"none", "200", "304"}, users : Lists]
    /\ attempt \in 0 .. MaxRetry
    /\ seen \in SUBSET Lists

\* Start has fetched the list; or the panel refused, which it took for a list that
\* had not changed.
SyncInit ==
    /\ Init
    /\ listed \in Lists
    /\ \/ table = listed /\ userETag = {listed}
       \/ table = {} /\ userETag = {}
    /\ pull = "idle" /\ answer = NoAnswer /\ attempt = 0 /\ seen = {}

(***************************************************************************)
(* FetchUsers                                                              *)
(***************************************************************************)
PanelChanges ==
    /\ listed' \in Lists \ {listed}
    /\ seen' = IF pull = "answered" THEN seen \cup {listed'} ELSE seen
    /\ UNCHANGED << vars, table, userETag, pull, answer, attempt >>

StartPull ==
    /\ pull = "idle"
    /\ pull' = "ask" /\ attempt' = 0
    /\ UNCHANGED << vars, listed, table, userETag, answer, seen >>

\* The request says which list the server has; the panel answers by the one it has.
Ask ==
    /\ pull = "ask"
    /\ pull' = "answered"
    /\ answer' = IF userETag = {listed} THEN NotModified ELSE OK(listed)
    /\ seen' = {listed}
    /\ UNCHANGED << vars, listed, table, userETag, attempt >>

Settled(step) == pull' = step /\ answer' = NoAnswer /\ seen' = {}

\* Mutant: a list without users counts as no list.
UpdateUnlessEmpty(users) == table' = IF users = {} THEN table ELSE users
\* A new table takes the place of the old one, as a whole.
UpdateUsers(users) == table' = users

\* Status 200: the tag is kept, and the list becomes the table.
NewList ==
    /\ pull = "answered" /\ answer.status = "200"
    /\ userETag' = {answer.users}
    /\ UpdateUsers(answer.users)
    /\ Settled("config")
    /\ UNCHANGED << vars, listed, attempt >>

KeepList ==
    /\ pull = "answered" /\ answer.status = "304"
    /\ Settled("config")
    /\ UNCHANGED << vars, listed, table, userETag, attempt >>

\* No answer in time, or one of status 5xx, as often as doWithRetry lets pass.
Retry ==
    /\ pull = "answered" /\ attempt < MaxRetry
    /\ Settled("ask") /\ attempt' = attempt + 1
    /\ UNCHANGED << vars, listed, table, userETag >>

\* Mutant: the tag is kept before the list is read.
FetchFailsTagged ==
    /\ pull = "answered"
    /\ userETag' = IF answer.status = "200" THEN {answer.users} ELSE userETag
    /\ Settled("config")
    /\ UNCHANGED << vars, listed, table, attempt >>

\* The last attempt was in vain, the list breaks off or cannot be parsed; or a status
\* 4xx comes, which is not looked at: no users in it read like a 304.
FetchFails ==
    /\ pull = "answered"
    /\ Settled("config")
    /\ UNCHANGED << vars, listed, table, userETag, attempt >>

\* FetchConfig has brought an answer or not: nothing here depends on it.  The clean-up
\* of the failure records comes last.
EndPull ==
    /\ pull = "config"
    /\ pull' = "idle"
    /\ Cleanup
    /\ UNCHANGED << listed, table, userETag, answer, attempt, seen >>

(***************************************************************************)
(* handleConnection: who is not in the table of the moment fails.          *)
(***************************************************************************)
LogIn(c, u) ==
    /\ u \in table
    /\ Authenticate(c, u)
    /\ UNCHANGED syncVars

Handle ==
    /\ \/ \E c \in Conns, a \in Addrs : Accept(c, a)
       \/ \E c \in Conns : HandshakeFails(c) \/ AuthFails(c) \/ TooManyDevices(c)
       \/ \E c \in Conns : Track(c) \/ Remove(c)
       \/ Tick
    /\ UNCHANGED syncVars

(***************************************************************************)
(* The specification                                                       *)
(***************************************************************************)
PullStep == NewList \/ KeepList \/ Retry \/ FetchFails

SyncNext ==
    \/ PanelChanges \/ StartPull \/ Ask \/ PullStep \/ EndPull
    \/ \E c \in Conns, u \in Users : LogIn(c, u)
    \/ Handle

SyncSpec == SyncInit /\ [][SyncNext]_allVars

\* syncLoop goes on: requests time out, pulls and pushes end.  A panel that is asked
\* again and again answers again and again.  Time passes.
SyncFairSpec ==
    /\ SyncSpec
    /\ WF_allVars(StartPull) /\ WF_allVars(Ask) /\ WF_allVars(EndPull)
    /\ SF_allVars(NewList \/ KeepList)
    /\ WF_allVars(Tick /\ UNCHANGED syncVars)

(***************************************************************************)
(* Properties                                                              *)
(***************************************************************************)
\* A pull that ends with a list or a 304 leaves the table at a list the panel has had
\* since it gave that answer, however many attempts it took and whatever changed.
PullBringsUpToDate ==
    [][NewList \/ KeepList => table' \in seen]_allVars

\* The table follows the panel, to a list without users as well: once the list changes
\* no more, it gets into the table for good.
TableFollows == \A l \in Lists : <>[](listed = l) => <>[](table = l)

\* The tag never promises more than the table holds, and the answer under way is one
\* to this tag.
TagMatchesTable ==
    /\ userETag \subseteq {table}
    /\ answer.status = "304" => table \in seen
    /\ answer.status = "200" => answer.users \in seen

SyncInv == SyncTypeOK /\ TagMatchesTable
=============================================================================
