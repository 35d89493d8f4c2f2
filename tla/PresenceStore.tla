---------------------------- MODULE PresenceStore ----------------------------
(***************************************************************************)
(* Presence in Redis: a sorted set of socket leases per user, and one of   *)
(* online users scored by their longest lease.  Each Lua script is atomic. *)
(* Scores come from the clocks of the API processes, which differ from     *)
(* Redis' clock by at most Skew, and from calls that may have waited.      *)
(***************************************************************************)
EXTENDS Integers, FiniteSets, FiniteSetsExt

CONSTANTS
    Users,
    Sockets,
    Lease,   \* PRESENCE_TTL_SECONDS
    KeyTTL,  \* PRESENCE_KEY_TTL_SECONDS
    Skew,    \* clock difference between a process and Redis
    MaxTime  \* bound: the last point in time

ASSUME PresenceAssumption ==
    /\ Lease \in Nat \ {0} /\ KeyTTL \in Nat /\ Skew \in Nat /\ MaxTime \in Nat
    /\ Lease + Skew <= KeyTTL

VARIABLES
    now,         \* Redis' clock
    leases,      \* leases[u][s]: expiry of s in chatapp:presence:user:u:sockets
    index,       \* index[u]: score of u in chatapp:presence:users
    keyDeadline  \* keyDeadline[u]: when Redis drops u's sockets key

redis == <<now, leases, index, keyDeadline>>

Absent == 0   \* no member; scores are positive

\* ZRANGE -1 -1: the highest score, if there is one.
Longest(row) == Max({row[s] : s \in Sockets} \cup {Absent})

\* What a process may read on its clock, now or when it issued a call.
Readings == 0..(now + Skew)

-----------------------------------------------------------------------------
Tick ==
    /\ now < MaxTime
    /\ now' = now + 1
    /\ UNCHANGED <<leases, index, keyDeadline>>

\* MARK_ONLINE_SCRIPT, on connection and on every heartbeat.
MarkOnline(u, s, at) ==
    /\ leases' = [leases EXCEPT ![u][s] = at + Lease]
    /\ index' = [index EXCEPT ![u] = Longest(leases'[u])]
    /\ keyDeadline' = [keyDeadline EXCEPT ![u] = now + KeyTTL]
    /\ UNCHANGED now

\* Mutant: the index is left to expire.
MarkOfflineSocketOnly(u, s) ==
    /\ leases' = [leases EXCEPT ![u][s] = Absent]
    /\ UNCHANGED <<now, index, keyDeadline>>

\* Mutant: the user goes with the socket.
MarkOfflineWhole(u, s) ==
    /\ leases' = [leases EXCEPT ![u][s] = Absent]
    /\ index' = [index EXCEPT ![u] = Absent]
    /\ UNCHANGED <<now, keyDeadline>>

\* MARK_OFFLINE_SCRIPT.
MarkOffline(u, s) ==
    /\ leases' = [leases EXCEPT ![u][s] = Absent]
    /\ index' = [index EXCEPT ![u] = Longest(leases'[u])]
    /\ UNCHANGED <<now, keyDeadline>>

\* IS_ONLINE_SCRIPT drops the leases that have run out.
IsUserOnline(u, at) ==
    /\ leases' = [leases EXCEPT ![u] =
                    [s \in Sockets |-> IF @[s] <= at THEN Absent ELSE @[s]]]
    /\ index' = [index EXCEPT ![u] = Longest(leases'[u])]
    /\ UNCHANGED <<now, keyDeadline>>

\* GET_ONLINE_USERS_SCRIPT: who is online, read on a clock that says at.
Online(at) == {u \in Users : index[u] > at}

GetOnlineUsers(at) ==
    /\ index' = [u \in Users |-> IF index[u] <= at THEN Absent ELSE index[u]]
    /\ UNCHANGED <<now, leases, keyDeadline>>

\* EXPIRE: Redis drops the sockets key, and with it all leases of u.
KeyExpires(u) ==
    /\ now >= keyDeadline[u]
    /\ leases' = [leases EXCEPT ![u] = [s \in Sockets |-> Absent]]
    /\ UNCHANGED <<now, index, keyDeadline>>

-----------------------------------------------------------------------------
Init ==
    /\ now = 0
    /\ leases = [u \in Users |-> [s \in Sockets |-> Absent]]
    /\ index = [u \in Users |-> Absent]
    /\ keyDeadline = [u \in Users |-> 0]

Next ==
    \/ Tick
    \/ \E u \in Users, s \in Sockets :
          MarkOffline(u, s) \/ \E at \in Readings : MarkOnline(u, s, at)
    \/ \E at \in Readings :
          GetOnlineUsers(at) \/ \E u \in Users : IsUserOnline(u, at)
    \/ \E u \in Users : KeyExpires(u)

Spec == Init /\ [][Next]_redis

-----------------------------------------------------------------------------
(* Properties. *)

\* No score lies more than a lease ahead of the fastest clock.
Scores == 0..(MaxTime + Lease + Skew)

TypeOK ==
    /\ now \in 0..MaxTime
    /\ leases \in [Users -> [Sockets -> Scores]]
    /\ index \in [Users -> Scores]
    /\ keyDeadline \in [Users -> Nat]

\* Whoever the index still shows has a socket whose lease runs that long: no
\* user stays online on the lease of a socket that has left, nor on a lease
\* that went with the expired key.
ShownHasLease ==
    \A u \in Users :
        index[u] > now => \E s \in Sockets : leases[u][s] = index[u]

\* A lease that no clock takes for expired keeps its user in the index, through
\* the leaving of other sockets and the pruning by readers with a fast clock.
LeaseIsShown ==
    \A u \in Users, s \in Sockets :
        leases[u][s] > now + Skew => index[u] >= leases[u][s]

\* What ties the two to the key's time to live: scores are never further ahead
\* than a lease that starts when the key was last touched.
LeasesWithinKey ==
    \A u \in Users :
        /\ keyDeadline[u] <= now + KeyTTL
        /\ index[u] # Absent => index[u] <= keyDeadline[u] + Lease + Skew - KeyTTL
        /\ \A s \in Sockets : leases[u][s] # Absent =>
             leases[u][s] <= keyDeadline[u] + Lease + Skew - KeyTTL

StoreInv ==
    /\ TypeOK
    /\ LeasesWithinKey
    /\ ShownHasLease
    /\ \A u \in Users, s \in Sockets :
         index[u] # Absent => leases[u][s] <= index[u]
    /\ \A u \in Users, s \in Sockets :
         index[u] = Absent => leases[u][s] <= now + Skew
=============================================================================
