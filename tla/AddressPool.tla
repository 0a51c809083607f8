---------------------------- MODULE AddressPool ----------------------------
(***************************************************************************)
(* What the pool of loopback addresses promises its projects: an address   *)
(* is held by one of them at most, is listened on by its holder alone, and *)
(* is handed over only when nobody else listens on it any longer.  A       *)
(* project may listen on for a while on addresses it no longer holds.      *)
(*                                                                         *)
(* IngressOwnership, with its handlers, claims, probes and listeners, is   *)
(* shown to implement this.                                                *)
(***************************************************************************)
CONSTANTS
    Clients,
    Addresses,
    None        \* no address

VARIABLES
    held,       \* the address a client holds, or None
    uses        \* the addresses a client listens on

pool == <<held, uses>>

Init ==
    /\ held = [c \in Clients |-> None]
    /\ uses = [c \in Clients |-> {}]

\* A client is given an address that nobody holds and nobody else listens on.
Acquire(c, i) ==
    /\ held[c] = None
    /\ \A d \in Clients : held[d] # i /\ (d # c => i \notin uses[d])
    /\ held' = [held EXCEPT ![c] = i]
    /\ UNCHANGED uses

Release(c) ==
    /\ held' = [held EXCEPT ![c] = None]
    /\ UNCHANGED uses

\* A client begins to listen on the address it holds, and on no other; it may
\* leave addresses at the same time, or just leave some.
Listen(c) ==
    /\ \E left \in SUBSET uses[c] :
          uses' = [uses EXCEPT ![c] = left \cup ({held[c]} \ {None})]
    /\ UNCHANGED held

Leave(c) ==
    /\ \E left \in SUBSET uses[c] : uses' = [uses EXCEPT ![c] = left]
    /\ UNCHANGED held

Next ==
    \E c \in Clients :
        \/ \E i \in Addresses : Acquire(c, i)
        \/ Release(c) \/ Listen(c) \/ Leave(c)

Spec == Init /\ [][Next]_pool

-----------------------------------------------------------------------------

\* Whatever a client holds or listens on is no other client's.
Exclusive ==
    \A c, d \in Clients : c # d =>
        /\ held[c] # None => held[d] # held[c] /\ held[c] \notin uses[d]
        /\ uses[c] \cap uses[d] = {}
=============================================================================
