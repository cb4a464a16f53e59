--------------------------- MODULE ExclusiveLogin ---------------------------
(***************************************************************************)
(* What the lifecycle coordinator promises to the rest of the process,     *)
(* stated without coordinators, revisions or clocks: for one process epoch *)
(* a login target has at most one login at a time, every login has an      *)
(* identity of its own, and a login that was asked to stop, or was found   *)
(* stale, never ends as a success.                                         *)
(***************************************************************************)
CONSTANTS
    Slots,      \* a (process epoch, login target) pair
    LoginIds,   \* every identity a login may be given
    Nobody      \* the owner of a slot no login occupies

VARIABLES
    owner,      \* slot -> the login that occupies it
    admitted,   \* the identities given out so far
    doomed,     \* logins that were cancelled or found stale
    succeeded   \* logins that ended as a success

elVars == <<owner, admitted, doomed, succeeded>>

Init ==
    /\ owner = [s \in Slots |-> Nobody]
    /\ admitted = {}
    /\ doomed = {}
    /\ succeeded = {}

Admit(s, id) ==
    /\ id \notin admitted
    /\ admitted' = admitted \cup {id}
    /\ UNCHANGED <<doomed, succeeded>>
    /\ owner[s] = Nobody
    /\ owner' = [owner EXCEPT ![s] = id]

\* Cancelling one login, or finding several of them stale in one sweep.
Doom ==
    /\ UNCHANGED <<admitted, succeeded, owner>>
    /\ doomed \subseteq doomed'
    /\ \A id \in doomed' \ doomed : \E s \in Slots : owner[s] = id

Succeed(s) ==
    /\ UNCHANGED <<admitted, doomed>>
    /\ owner[s] # Nobody
    /\ owner[s] \notin doomed
    /\ succeeded' = succeeded \cup {owner[s]}
    /\ owner' = [owner EXCEPT ![s] = Nobody]

\* Cancelled, timed out, failed, or cleaned up after having gone stale.
GiveUp(s) ==
    /\ UNCHANGED <<admitted, doomed, succeeded>>
    /\ owner[s] # Nobody
    /\ owner' = [owner EXCEPT ![s] = Nobody]

Next ==
    \/ \E s \in Slots, id \in LoginIds : Admit(s, id)
    \/ Doom
    \/ \E s \in Slots : Succeed(s) \/ GiveUp(s)

Spec == Init /\ [][Next]_elVars
=============================================================================
