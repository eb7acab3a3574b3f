-------------------------------- MODULE Lease --------------------------------
(***************************************************************************)
(* What the session pool of a client promises to those who open streams: a *)
(* session is lent to one of them at a time, from the pool or new, until   *)
(* it is given back, and a session that has ended is never lent again.     *)
(***************************************************************************)
CONSTANTS Sessions, Users

VARIABLES
    phase,   \* of every session: unborn, live or ended
    holders  \* of every session, those it is lent to

leaseVars == << phase, holders >>

LeaseTypeOK ==
    /\ phase \in [Sessions -> {"unborn", "live", "ended"}]
    /\ holders \in [Sessions -> SUBSET Users]

LeaseInit ==
    /\ phase = [s \in Sessions |-> "unborn"]
    /\ holders = [s \in Sessions |-> {}]

Create(s, u) ==
    /\ phase[s] = "unborn"
    /\ phase' = [phase EXCEPT ![s] = "live"]
    /\ holders' = [holders EXCEPT ![s] = {u}]

Lend(s, u) ==
    /\ phase[s] = "live" /\ holders[s] = {}
    /\ holders' = [holders EXCEPT ![s] = {u}]
    /\ UNCHANGED phase

GiveBack(s, u) ==
    /\ phase[s] = "live" /\ holders[s] = {u}
    /\ holders' = [holders EXCEPT ![s] = {}]
    /\ UNCHANGED phase

\* A session may end under its holder's hands, several at once only if nobody
\* holds them.
End(S) ==
    /\ \A s \in S : phase[s] = "live"
    /\ (\E s \in S : S = {s}) \/ (\A s \in S : holders[s] = {})
    /\ phase' = [s \in Sessions |-> IF s \in S THEN "ended" ELSE phase[s]]
    /\ holders' = [s \in Sessions |-> IF s \in S THEN {} ELSE holders[s]]

LeaseNext ==
    \/ \E s \in Sessions, u \in Users : Create(s, u) \/ Lend(s, u) \/ GiveBack(s, u)
    \/ \E S \in SUBSET Sessions : End(S)

LeaseSpec == LeaseInit /\ [][LeaseNext]_leaseVars
=============================================================================
