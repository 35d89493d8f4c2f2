---------------------------- MODULE PresenceProofs ----------------------------
(***************************************************************************)
(* Theorems about PresenceStore and about PresenceServer, which uses it,   *)
(* for any number of processes, users, sockets and faults and for all time *)
(* limits and clock differences that the assumptions allow.                *)
(***************************************************************************)
EXTENDS PresenceServer, WellFoundedInduction, TLAPS

\* ZRANGE -1 -1 returns a score of the set that none exceeds.  The scores are
\* bounded, so there is a least upper bound, which is one of them.
LEMMA LongestIsMax ==
    ASSUME NEW row \in [Sockets -> Nat], NEW B \in Nat,
           \A s \in Sockets : row[s] <= B
    PROVE  /\ Longest(row) \in Nat
           /\ Longest(row) <= B
           /\ \A s \in Sockets : row[s] <= Longest(row)
           /\ Longest(row) # Absent =>
                \E s \in Sockets : row[s] = Longest(row)
<1> DEFINE S == {row[s] : s \in Sockets} \cup {Absent}
           R == OpToRel(<, Nat)
           T == {b \in Nat : \A s \in Sockets : row[s] <= b}
<1>1. T \subseteq Nat /\ B \in T
  OBVIOUS
<1>2. PICK x \in T : \A y \in T : ~ (<<y, x>> \in R)
  <2> HIDE DEF T, R
  <2>1. IsWellFoundedOn(R, Nat)
    BY NatLessThanWellFounded DEF R
  <2> QED BY <1>1, <2>1, WFMin
<1>3. \A y \in T : ~ (y < x)
  BY <1>2 DEF OpToRel
<1>4. x \in S
  <2> SUFFICES ASSUME x # 0, \A s \in Sockets : row[s] # x
               PROVE  FALSE
    BY DEF Absent
  <2>1. x - 1 \in T
    OBVIOUS
  <2> QED BY <2>1, <1>3
<1>5. \A y \in S : x >= y
  BY DEF Absent
<1>6. /\ Max(S) \in S
      /\ \A y \in S : Max(S) >= y
  BY <1>4, <1>5 DEF Max
<1>7. Longest(row) = Max(S)
  BY DEF Longest
<1>8. S \subseteq Nat /\ (\A y \in S : y <= B)
  BY DEF Absent
<1> HIDE DEF T, R
<1> QED BY <1>6, <1>7, <1>8 DEF Absent

-----------------------------------------------------------------------------
LEMMA StoreStarts == Init => StoreInv
  BY PresenceAssumption
     DEF Init, StoreInv, TypeOK, Scores, LeasesWithinKey, ShownHasLease, Absent

\* A script that rewrites u's leases and then scores u with the longest of them
\* keeps the invariant, whatever the bound the new leases respect.
LEMMA Rescored ==
    ASSUME StoreInv, NEW u \in Users, NEW row \in [Sockets -> Nat],
           NEW deadline \in Nat, deadline <= now + KeyTTL,
           keyDeadline[u] <= deadline,
           \A s \in Sockets : row[s] # Absent =>
               row[s] <= deadline + Lease + Skew - KeyTTL,
           leases' = [leases EXCEPT ![u] = row],
           index' = [index EXCEPT ![u] = Longest(row)],
           keyDeadline' = [keyDeadline EXCEPT ![u] = deadline],
           now' = now
    PROVE  StoreInv'
<1> USE PresenceAssumption DEF Absent
<1>0. TypeOK
  BY DEF StoreInv
<1>1. /\ now \in Nat /\ leases \in [Users -> [Sockets -> Nat]]
      /\ index \in [Users -> Nat] /\ keyDeadline \in [Users -> Nat]
      /\ now <= MaxTime
  BY <1>0 DEF TypeOK, Scores
<1>2. \A s \in Sockets : row[s] <= now + Lease + Skew
  BY <1>1
<1>3. now + Lease + Skew \in Nat
  BY <1>1
<1>4. /\ Longest(row) \in Nat
      /\ \A s \in Sockets : row[s] <= Longest(row)
      /\ Longest(row) # Absent => \E s \in Sockets : row[s] = Longest(row)
  BY <1>2, <1>3, LongestIsMax
<1>5. /\ leases'[u] = row /\ index'[u] = Longest(row)
      /\ keyDeadline'[u] = deadline
      /\ \A v \in Users \ {u} : /\ leases'[v] = leases[v]
                                /\ index'[v] = index[v]
                                /\ keyDeadline'[v] = keyDeadline[v]
  BY <1>1
<1>6. TypeOK'
  <2>1. row \in [Sockets -> Scores]
    BY <1>1, <1>2 DEF Scores
  <2>2. Longest(row) \in Scores
    BY <1>1, <1>2, <1>4 DEF Scores
  <2> QED BY <1>0, <2>1, <2>2 DEF TypeOK
<1>7. LeasesWithinKey'
  BY <1>1, <1>4, <1>5 DEF StoreInv, LeasesWithinKey
<1>8. ShownHasLease'
  BY <1>1, <1>4, <1>5 DEF StoreInv, ShownHasLease
<1>9. (\A v \in Users, s \in Sockets :
         index[v] # Absent => leases[v][s] <= index[v])'
  BY <1>1, <1>4, <1>5 DEF StoreInv
<1>10. (\A v \in Users, s \in Sockets :
         index[v] = Absent => leases[v][s] <= now + Skew)'
  <2> SUFFICES ASSUME NEW v \in Users, NEW s \in Sockets, index'[v] = Absent
               PROVE  leases'[v][s] <= now + Skew
    OBVIOUS
  <2>1. CASE v = u
    BY <2>1, <1>1, <1>4, <1>5
  <2>2. CASE v # u
    BY <2>2, <1>1, <1>5 DEF StoreInv
  <2> QED BY <2>1, <2>2
<1> QED BY <1>6, <1>7, <1>8, <1>9, <1>10 DEF StoreInv

\* Every step keeps the invariant: one step of the proof per script, and one
\* each for the clock and Redis' own expiry.
LEMMA StoreStep == StoreInv /\ [Next]_redis => StoreInv'
<1> SUFFICES ASSUME StoreInv, [Next]_redis
             PROVE  StoreInv'
  OBVIOUS
<1> USE PresenceAssumption
<1>1. /\ now \in Nat /\ leases \in [Users -> [Sockets -> Nat]]
      /\ index \in [Users -> Nat] /\ keyDeadline \in [Users -> Nat]
  BY DEF StoreInv, TypeOK, Scores
<1>2. ASSUME Tick
      PROVE  StoreInv'
  BY <1>1, <1>2 DEF Tick, StoreInv, TypeOK, Scores, LeasesWithinKey, ShownHasLease
<1>3. ASSUME NEW u \in Users, NEW s \in Sockets, NEW at \in Readings,
             MarkOnline(u, s, at)
      PROVE  StoreInv'
  <2> DEFINE row == [leases[u] EXCEPT ![s] = at + Lease]
             deadline == now + KeyTTL
  <2>1. at \in Nat /\ at <= now + Skew
    BY <1>1 DEF Readings
  <2>2. row \in [Sockets -> Nat] /\ leases'[u] = row
    BY <1>1, <1>3, <2>1 DEF MarkOnline
  <2>3. /\ leases' = [leases EXCEPT ![u] = row]
        /\ index' = [index EXCEPT ![u] = Longest(row)]
        /\ keyDeadline' = [keyDeadline EXCEPT ![u] = deadline]
        /\ now' = now
    BY <1>1, <1>3, <2>2 DEF MarkOnline
  <2>4. deadline \in Nat /\ keyDeadline[u] <= deadline
    BY <1>1 DEF StoreInv, LeasesWithinKey
  <2>5. \A r \in Sockets : row[r] # Absent =>
            row[r] <= deadline + Lease + Skew - KeyTTL
    BY <1>1, <2>1, <2>4 DEF StoreInv, LeasesWithinKey
  <2> HIDE DEF row, deadline
  <2>6. deadline <= now + KeyTTL
    BY <1>1 DEF deadline
  <2> QED BY <2>2, <2>3, <2>4, <2>5, <2>6, Rescored
<1>4. ASSUME NEW u \in Users, NEW s \in Sockets, MarkOffline(u, s)
      PROVE  StoreInv'
  <2> DEFINE row == [leases[u] EXCEPT ![s] = Absent]
  <2>1. row \in [Sockets -> Nat] /\ leases'[u] = row
    BY <1>1, <1>4 DEF MarkOffline, Absent
  <2>2. /\ leases' = [leases EXCEPT ![u] = row]
        /\ index' = [index EXCEPT ![u] = Longest(row)]
        /\ keyDeadline' = [keyDeadline EXCEPT ![u] = keyDeadline[u]]
        /\ now' = now
    BY <1>1, <1>4, <2>1 DEF MarkOffline
  <2>3. \A r \in Sockets : row[r] # Absent =>
            row[r] <= keyDeadline[u] + Lease + Skew - KeyTTL
    BY <1>1 DEF StoreInv, LeasesWithinKey
  <2>4. /\ keyDeadline[u] \in Nat /\ keyDeadline[u] <= now + KeyTTL
        /\ keyDeadline[u] <= keyDeadline[u]
    BY <1>1 DEF StoreInv, LeasesWithinKey
  <2> HIDE DEF row
  <2> QED BY <2>1, <2>2, <2>3, <2>4, Rescored
<1>5. ASSUME NEW u \in Users, NEW at \in Readings, IsUserOnline(u, at)
      PROVE  StoreInv'
  <2> DEFINE row == [s \in Sockets |->
                        IF leases[u][s] <= at THEN Absent ELSE leases[u][s]]
  <2>1. row \in [Sockets -> Nat] /\ leases'[u] = row
    BY <1>1, <1>5 DEF IsUserOnline, Absent
  <2>2. /\ leases' = [leases EXCEPT ![u] = row]
        /\ index' = [index EXCEPT ![u] = Longest(row)]
        /\ keyDeadline' = [keyDeadline EXCEPT ![u] = keyDeadline[u]]
        /\ now' = now
    BY <1>1, <1>5, <2>1 DEF IsUserOnline
  <2>3. \A r \in Sockets : row[r] # Absent =>
            row[r] <= keyDeadline[u] + Lease + Skew - KeyTTL
    BY <1>1 DEF StoreInv, LeasesWithinKey
  <2>4. /\ keyDeadline[u] \in Nat /\ keyDeadline[u] <= now + KeyTTL
        /\ keyDeadline[u] <= keyDeadline[u]
    BY <1>1 DEF StoreInv, LeasesWithinKey
  <2> HIDE DEF row
  <2> QED BY <2>1, <2>2, <2>3, <2>4, Rescored
<1>6. ASSUME NEW at \in Readings, GetOnlineUsers(at)
      PROVE  StoreInv'
  <2>1. at \in Nat /\ at <= now + Skew
    BY <1>1 DEF Readings
  <2>2. /\ now' = now /\ leases' = leases /\ keyDeadline' = keyDeadline
        /\ index' \in [Users -> Scores]
        /\ \A u \in Users : \/ index'[u] = index[u] /\ index[u] > at
                            \/ index'[u] = Absent /\ index[u] <= at
    BY <1>1, <1>6, <2>1 DEF GetOnlineUsers, Absent, Scores, StoreInv, TypeOK
  <2>3. TypeOK' /\ LeasesWithinKey'
    BY <1>1, <2>2 DEF StoreInv, TypeOK, LeasesWithinKey
  <2>4. ShownHasLease'
    BY <1>1, <2>2 DEF StoreInv, ShownHasLease, Absent
  <2>5. (\A u \in Users, s \in Sockets :
           index[u] # Absent => leases[u][s] <= index[u])'
    BY <1>1, <2>2 DEF StoreInv
  <2>6. (\A u \in Users, s \in Sockets :
           index[u] = Absent => leases[u][s] <= now + Skew)'
    BY <1>1, <2>1, <2>2 DEF StoreInv, Absent
  <2> QED BY <2>3, <2>4, <2>5, <2>6 DEF StoreInv
<1>7. ASSUME NEW u \in Users, KeyExpires(u)
      PROVE  StoreInv'
  <2>1. /\ now' = now /\ index' = index /\ keyDeadline' = keyDeadline
        /\ leases' \in [Users -> [Sockets -> Scores]]
        /\ \A s \in Sockets : leases'[u][s] = Absent
        /\ \A v \in Users \ {u} : leases'[v] = leases[v]
        /\ now >= keyDeadline[u]
    BY <1>1, <1>7 DEF KeyExpires, Absent, Scores, StoreInv, TypeOK
  <2>2. TypeOK'
    BY <1>1, <2>1 DEF StoreInv, TypeOK
  <2>3. LeasesWithinKey'
    BY <1>1, <2>1 DEF StoreInv, LeasesWithinKey
  <2>4. ShownHasLease'
    <3> SUFFICES ASSUME NEW v \in Users, index[v] > now
                 PROVE  \E s \in Sockets : leases'[v][s] = index[v]
      BY <2>1 DEF ShownHasLease
    <3>1. v # u
      BY <1>1, <2>1 DEF StoreInv, LeasesWithinKey, Absent
    <3> QED BY <3>1, <2>1 DEF StoreInv, ShownHasLease
  <2>5. (\A v \in Users, s \in Sockets :
           index[v] # Absent => leases[v][s] <= index[v])'
    BY <1>1, <2>1 DEF StoreInv, Absent
  <2>6. (\A v \in Users, s \in Sockets :
           index[v] = Absent => leases[v][s] <= now + Skew)'
    BY <1>1, <2>1 DEF StoreInv, Absent
  <2> QED BY <2>2, <2>3, <2>4, <2>5, <2>6 DEF StoreInv
<1>8. CASE UNCHANGED redis
  BY <1>8 DEF redis, StoreInv, TypeOK, LeasesWithinKey, ShownHasLease
<1> QED BY <1>2, <1>3, <1>4, <1>5, <1>6, <1>7, <1>8 DEF Next

\* The inductive invariant holds of every behaviour of the store.
THEOREM StoreInvariant == Spec => []StoreInv
  BY StoreStarts, StoreStep, PTL DEF Spec

\* Presence keeps its types.
THEOREM PresenceTypeCorrect == Spec => []TypeOK
<1>1. StoreInv => TypeOK
  BY DEF StoreInv
<1> QED BY <1>1, StoreInvariant, PTL

\* Nobody is shown online without a socket whose lease runs that long, however
\* connects, heartbeats, disconnects, readers and expiries interleave.
THEOREM NoGhostOnline == Spec => []ShownHasLease
<1>1. StoreInv => ShownHasLease
  BY DEF StoreInv
<1> QED BY <1>1, StoreInvariant, PTL

\* A lease that is live on every clock keeps its user online.
THEOREM NobodyHidden == Spec => []LeaseIsShown
<1>1. StoreInv => LeaseIsShown
  <2> SUFFICES ASSUME StoreInv, NEW u \in Users, NEW s \in Sockets,
                      leases[u][s] > now + Skew
               PROVE  index[u] >= leases[u][s]
    BY DEF LeaseIsShown
  <2>1. /\ now \in Nat /\ leases[u][s] \in Nat /\ index[u] \in Nat
    BY DEF StoreInv, TypeOK, Scores
  <2>2. index[u] # Absent
    BY <2>1, PresenceAssumption DEF StoreInv
  <2> QED BY <2>1, <2>2 DEF StoreInv
<1> QED BY <1>1, StoreInvariant, PTL

-----------------------------------------------------------------------------
(* The servers. *)

LEMMA Durations ==
    /\ Beat \in Nat /\ Lease \in Nat /\ KeyTTL \in Nat /\ Skew \in Nat
    /\ MaxTime \in Nat /\ MaxFaults \in Nat
    /\ 0 < Beat /\ Beat < Lease /\ Lease + Skew <= KeyTTL
BY PresenceAssumption, ServerAssumption

\* What the scripts keep true of Redis: no lease outlasts its key, and one that
\* the index does not cover has run out.
RedisInv ==
    /\ TypeOK
    /\ \A u \in Users : keyDeadline[u] <= now + KeyTTL
    /\ \A u \in Users, s \in Sockets :
         /\ leases[u][s] <= keyDeadline[u]
         /\ leases[u][s] <= index[u] \/ leases[u][s] <= now

\* c is a mark of s; one of them is in q; the last of them in q is a leave.
Entries(q) == {q[k] : k \in DOMAIN q}
MarkOf(c, s) == c.op \in Marks /\ c.socket = s
Has(q, s) == \E k \in DOMAIN q : MarkOf(q[k], s)
EndsInLeave(q, s) ==
    \E k \in DOMAIN q :
        /\ MarkOf(q[k], s) /\ q[k].op = "offline"
        /\ \A n \in DOMAIN q : n > k => ~ MarkOf(q[n], s)

\* Time does not pass over a command, and a command is the one of a socket of
\* this process that has been connected.
QueueInv ==
    \A i \in Instances : \A c \in Entries(queue[i]) :
        c.op # "publish" =>
            c.at = now /\ state[c.socket] # "new" /\ home[c.socket] = i

\* The heartbeat of a connected socket is never overdue.  Its last mark is as
\* old as its interval, whether it waits or has become the lease.
UpInv(s) ==
    state[s] = "up" =>
      /\ now <= nextBeat[s] /\ nextBeat[s] <= now + Beat
      /\ \A c \in Entries(queue[home[s]]) : MarkOf(c, s) => c.op # "offline"
      /\ s \in lost \/
           IF Has(queue[home[s]], s)
           THEN nextBeat[s] = now + Beat
           ELSE leases[user[s]][s] = nextBeat[s] - Beat + Lease

\* No mark of a socket follows its leave.
GoneInv(s) ==
    state[s] = "gone" /\ s \notin lost =>
      IF Has(queue[home[s]], s)
      THEN EndsInLeave(queue[home[s]], s)
      ELSE leases[user[s]][s] = Absent

ServerInv ==
    /\ RedisInv
    /\ ServerTypeOK
    /\ QueueInv
    /\ \A s \in Sockets : UpInv(s) /\ GoneInv(s)

-----------------------------------------------------------------------------
(* Redis. *)

\* What holds of the Redis variables without their time-dependent bounds.
RedisNats ==
    /\ now \in Nat /\ now <= MaxTime
    /\ leases \in [Users -> [Sockets -> Nat]]
    /\ index \in [Users -> Nat]
    /\ keyDeadline \in [Users -> Nat]
    /\ \A u \in Users, s \in Sockets : leases[u][s] <= MaxTime + Lease + Skew
    /\ \A u \in Users : index[u] <= MaxTime + Lease + Skew

LEMMA RedisNatsOfInv == RedisInv => RedisNats
  BY Durations DEF RedisInv, TypeOK, Scores, RedisNats

\* A script that changes u's leases and scores u with the longest of them keeps
\* the invariant, and no other socket's lease.
LEMMA MarkKeepsRedis ==
    ASSUME RedisInv, NEW u \in Users, NEW s \in Sockets,
           MarkOnline(u, s, now) \/ MarkOffline(u, s)
    PROVE  /\ RedisInv'
           /\ now' = now
           /\ \A v \in Users, r \in Sockets : r # s => leases'[v][r] = leases[v][r]
           /\ MarkOnline(u, s, now) => leases'[u][s] = now + Lease
           /\ MarkOffline(u, s) => leases'[u][s] = Absent
<1> USE Durations DEF Absent
<1>1. RedisNats
  BY RedisNatsOfInv
<1>2. PICK x \in {0, now + Lease}, d \in {keyDeadline[u], now + KeyTTL} :
        /\ leases' = [leases EXCEPT ![u][s] = x]
        /\ index' = [index EXCEPT ![u] = Longest(leases'[u])]
        /\ keyDeadline' = [keyDeadline EXCEPT ![u] = d]
        /\ now' = now
        /\ x <= d
        /\ MarkOnline(u, s, now) => x = now + Lease
        /\ MarkOffline(u, s) => x = 0
  <2>1. CASE MarkOnline(u, s, now)
    BY <1>1, <2>1 DEF MarkOnline, MarkOffline, RedisNats
  <2>2. CASE MarkOffline(u, s)
    BY <1>1, <2>2 DEF MarkOnline, MarkOffline, RedisNats
  <2> QED BY <2>1, <2>2
<1> DEFINE row == [leases[u] EXCEPT ![s] = x]
           B == keyDeadline[u] + d
<1>3. /\ row \in [Sockets -> Nat] /\ leases'[u] = row /\ row[s] = x
      /\ \A r \in Sockets \ {s} : row[r] = leases[u][r]
      /\ \A v \in Users \ {u} : leases'[v] = leases[v]
      /\ leases' \in [Users -> [Sockets -> Nat]]
  BY <1>1, <1>2 DEF RedisNats
<1>4. /\ d \in Nat /\ keyDeadline[u] \in Nat /\ keyDeadline[u] <= d
      /\ d <= now + KeyTTL
  BY <1>1, <1>2 DEF RedisNats, RedisInv
<1>5. \A r \in Sockets : row[r] <= d /\ row[r] <= MaxTime + Lease + Skew
  BY <1>1, <1>2, <1>3, <1>4 DEF RedisNats, RedisInv
<1>6. MaxTime + Lease + Skew \in Nat
  OBVIOUS
<1> HIDE DEF row
<1>7. /\ Longest(row) \in Nat
      /\ Longest(row) <= MaxTime + Lease + Skew
      /\ \A r \in Sockets : row[r] <= Longest(row)
  BY <1>3, <1>5, <1>6, LongestIsMax
<1>8. /\ index' \in [Users -> Nat] /\ index'[u] = Longest(row)
      /\ \A v \in Users \ {u} : index'[v] = index[v]
  BY <1>1, <1>2, <1>3, <1>7 DEF RedisNats
<1>9. /\ keyDeadline' \in [Users -> Nat] /\ keyDeadline'[u] = d
      /\ \A v \in Users \ {u} : keyDeadline'[v] = keyDeadline[v]
  BY <1>1, <1>2, <1>4 DEF RedisNats
<1>10. TypeOK'
  <2>1. leases' \in [Users -> [Sockets -> Scores]]
    BY <1>1, <1>3, <1>5 DEF RedisNats, Scores
  <2>2. index' \in [Users -> Scores]
    BY <1>1, <1>7, <1>8 DEF RedisNats, Scores
  <2> QED BY <1>1, <1>2, <1>9, <2>1, <2>2 DEF RedisNats, TypeOK, Scores
<1>11. \A v \in Users : keyDeadline'[v] <= now' + KeyTTL
  BY <1>2, <1>4, <1>9 DEF RedisInv
<1>12. \A v \in Users, r \in Sockets :
         /\ leases'[v][r] <= keyDeadline'[v]
         /\ leases'[v][r] <= index'[v] \/ leases'[v][r] <= now'
  <2> SUFFICES ASSUME NEW v \in Users, NEW r \in Sockets
               PROVE  /\ leases'[v][r] <= keyDeadline'[v]
                      /\ leases'[v][r] <= index'[v] \/ leases'[v][r] <= now'
    OBVIOUS
  <2>1. CASE v = u
    BY <1>3, <1>5, <1>7, <1>8, <1>9, <2>1
  <2>2. CASE v # u
    BY <1>2, <1>3, <1>8, <1>9, <2>2 DEF RedisInv
  <2> QED BY <2>1, <2>2
<1> QED BY <1>2, <1>3, <1>10, <1>11, <1>12 DEF RedisInv

\* A read prunes the index of what has run out.
LEMMA ReadKeepsRedis ==
    ASSUME RedisInv, GetOnlineUsers(now)
    PROVE  RedisInv' /\ now' = now /\ leases' = leases
<1>1. RedisNats
  BY RedisNatsOfInv
<1>2. /\ now' = now /\ leases' = leases /\ keyDeadline' = keyDeadline
      /\ index' \in [Users -> Nat]
      /\ \A u \in Users : \/ index'[u] = index[u]
                          \/ index'[u] = 0 /\ index[u] <= now
  BY <1>1 DEF GetOnlineUsers, Absent, RedisNats
<1>3. TypeOK'
  <2>1. index' \in [Users -> Scores]
    BY <1>1, <1>2, Durations DEF RedisNats, Scores
  <2> QED BY <1>2, <2>1 DEF RedisInv, TypeOK, Scores
<1> QED BY <1>1, <1>2, <1>3 DEF RedisInv, RedisNats

\* A key that Redis drops held no lease that had not run out.
LEMMA ExpiryKeepsRedis ==
    ASSUME RedisInv, NEW u \in Users, KeyExpires(u)
    PROVE  /\ RedisInv' /\ now' = now
           /\ \A v \in Users, r \in Sockets :
                \/ leases'[v][r] = leases[v][r]
                \/ leases'[v][r] = Absent /\ leases[v][r] <= now
<1> USE DEF Absent
<1>1. RedisNats
  BY RedisNatsOfInv
<1>2. /\ now' = now /\ index' = index /\ keyDeadline' = keyDeadline
      /\ leases' \in [Users -> [Sockets -> Nat]]
      /\ \A r \in Sockets : leases'[u][r] = 0
      /\ \A v \in Users \ {u} : leases'[v] = leases[v]
      /\ now >= keyDeadline[u]
  BY <1>1 DEF RedisNats, KeyExpires
<1>3. \A v \in Users, r \in Sockets :
        \/ leases'[v][r] = leases[v][r]
        \/ leases'[v][r] = 0 /\ leases[v][r] <= now
  <2>1. \A r \in Sockets : leases[u][r] <= now
    BY <1>1, <1>2 DEF RedisInv, RedisNats
  <2> QED BY <1>2, <2>1
<1>4. TypeOK'
  <2>1. leases' \in [Users -> [Sockets -> Scores]]
    BY <1>1, <1>2, <1>3, Durations DEF RedisNats, Scores
  <2> QED BY <1>2, <2>1 DEF RedisInv, TypeOK, Scores
<1> QED BY <1>1, <1>2, <1>3, <1>4 DEF RedisInv, RedisNats

-----------------------------------------------------------------------------
(* Queues. *)

LEMMA Appended ==
    ASSUME NEW S, NEW q \in Seq(S), NEW c \in S, NEW s
    PROVE  /\ Append(q, c) \in Seq(S)
           /\ Entries(Append(q, c)) = Entries(q) \cup {c}
           /\ Has(Append(q, c), s) <=> Has(q, s) \/ MarkOf(c, s)
           /\ EndsInLeave(q, s) /\ ~ MarkOf(c, s) => EndsInLeave(Append(q, c), s)
           /\ MarkOf(c, s) /\ c.op = "offline" => EndsInLeave(Append(q, c), s)
<1> DEFINE p == Append(q, c)
<1>1. /\ p \in Seq(S) /\ Len(q) \in Nat
      /\ DOMAIN q = 1..Len(q) /\ DOMAIN p = 1..(Len(q) + 1)
      /\ \A k \in 1..Len(q) : p[k] = q[k]
      /\ p[Len(q) + 1] = c
  OBVIOUS
<1> HIDE DEF p
<1>2. Has(p, s) <=> Has(q, s) \/ MarkOf(c, s)
  <2>1. ASSUME Has(p, s) PROVE Has(q, s) \/ MarkOf(c, s)
    <3> PICK k \in DOMAIN p : MarkOf(p[k], s)
      BY <2>1 DEF Has
    <3>1. CASE k = Len(q) + 1
      BY <3>1, <1>1
    <3>2. CASE k \in 1..Len(q)
      BY <3>2, <1>1 DEF Has
    <3> QED BY <3>1, <3>2, <1>1
  <2>2. ASSUME Has(q, s) PROVE Has(p, s)
    <3> PICK k \in DOMAIN q : MarkOf(q[k], s)
      BY <2>2 DEF Has
    <3>1. k \in DOMAIN p /\ p[k] = q[k]
      BY <1>1
    <3> QED BY <3>1 DEF Has
  <2>3. ASSUME MarkOf(c, s) PROVE Has(p, s)
    <3>1. Len(q) + 1 \in DOMAIN p
      BY <1>1
    <3> QED BY <3>1, <1>1, <2>3 DEF Has
  <2> QED BY <2>1, <2>2, <2>3
<1>3. ASSUME EndsInLeave(q, s), ~ MarkOf(c, s)
      PROVE  EndsInLeave(p, s)
  <2> PICK k \in DOMAIN q :
        /\ MarkOf(q[k], s) /\ q[k].op = "offline"
        /\ \A n \in DOMAIN q : n > k => ~ MarkOf(q[n], s)
    BY <1>3 DEF EndsInLeave
  <2>1. k \in DOMAIN p /\ p[k] = q[k]
    BY <1>1
  <2>2. ASSUME NEW n \in DOMAIN p, n > k PROVE ~ MarkOf(p[n], s)
    <3>1. CASE n = Len(q) + 1
      BY <3>1, <1>1, <1>3
    <3>2. CASE n \in 1..Len(q)
      BY <3>2, <1>1, <2>2
    <3> QED BY <3>1, <3>2, <1>1
  <2> QED BY <2>1, <2>2 DEF EndsInLeave
<1>4. ASSUME MarkOf(c, s), c.op = "offline"
      PROVE  EndsInLeave(p, s)
  <2>1. /\ Len(q) + 1 \in DOMAIN p
        /\ \A n \in DOMAIN p : ~ (n > Len(q) + 1)
    BY <1>1
  <2> QED BY <1>1, <1>4, <2>1 DEF EndsInLeave
<1>5. Entries(p) = Entries(q) \cup {c}
  BY <1>1 DEF Entries
<1> QED BY <1>1, <1>2, <1>3, <1>4, <1>5 DEF p

LEMMA Removed ==
    ASSUME NEW S, NEW q \in Seq(S), q # <<>>, NEW s
    PROVE  /\ Tail(q) \in Seq(S) /\ Head(q) \in S
           /\ Entries(Tail(q)) \subseteq Entries(q) /\ Head(q) \in Entries(q)
           /\ Has(q, s) <=> MarkOf(Head(q), s) \/ Has(Tail(q), s)
           /\ EndsInLeave(q, s) => \/ EndsInLeave(Tail(q), s)
                                   \/ /\ ~ Has(Tail(q), s)
                                      /\ MarkOf(Head(q), s) /\ Head(q).op = "offline"
<1> DEFINE p == Tail(q)
<1>1. /\ p \in Seq(S) /\ Head(q) \in S /\ Len(q) \in Nat \ {0}
      /\ DOMAIN q = 1..Len(q) /\ DOMAIN p = 1..(Len(q) - 1)
      /\ \A k \in 1..(Len(q) - 1) : p[k] = q[k + 1]
      /\ Head(q) = q[1]
  OBVIOUS
<1> HIDE DEF p
<1>2. Has(q, s) <=> MarkOf(Head(q), s) \/ Has(p, s)
  <2>1. ASSUME Has(q, s) PROVE MarkOf(Head(q), s) \/ Has(p, s)
    <3> PICK k \in DOMAIN q : MarkOf(q[k], s)
      BY <2>1 DEF Has
    <3>1. CASE k = 1
      BY <3>1, <1>1
    <3>2. CASE k # 1
      <4>1. k - 1 \in DOMAIN p /\ p[k - 1] = q[k]
        BY <3>2, <1>1
      <4> QED BY <4>1 DEF Has
    <3> QED BY <3>1, <3>2
  <2>2. ASSUME MarkOf(Head(q), s) PROVE Has(q, s)
    <3>1. 1 \in DOMAIN q
      BY <1>1
    <3> QED BY <3>1, <2>2, <1>1 DEF Has
  <2>3. ASSUME Has(p, s) PROVE Has(q, s)
    <3> PICK k \in DOMAIN p : MarkOf(p[k], s)
      BY <2>3 DEF Has
    <3>1. k + 1 \in DOMAIN q /\ q[k + 1] = p[k]
      BY <1>1
    <3> QED BY <3>1 DEF Has
  <2> QED BY <2>1, <2>2, <2>3
<1>3. ASSUME EndsInLeave(q, s)
      PROVE  \/ EndsInLeave(p, s)
             \/ /\ ~ Has(p, s)
                /\ MarkOf(Head(q), s) /\ Head(q).op = "offline"
  <2> PICK k \in DOMAIN q :
        /\ MarkOf(q[k], s) /\ q[k].op = "offline"
        /\ \A n \in DOMAIN q : n > k => ~ MarkOf(q[n], s)
    BY <1>3 DEF EndsInLeave
  <2>1. ASSUME NEW n \in DOMAIN p, n > k - 1 PROVE ~ MarkOf(p[n], s)
    <3>1. n + 1 \in DOMAIN q /\ n + 1 > k /\ q[n + 1] = p[n]
      BY <1>1, <2>1
    <3> QED BY <3>1
  <2>2. CASE k = 1
    <3>1. \A n \in DOMAIN p : n > k - 1
      BY <1>1, <2>2
    <3> QED BY <1>1, <2>1, <2>2, <3>1 DEF Has
  <2>3. CASE k # 1
    <3>1. k - 1 \in DOMAIN p /\ p[k - 1] = q[k]
      BY <1>1, <2>3
    <3> QED BY <2>1, <3>1 DEF EndsInLeave
  <2> QED BY <2>2, <2>3
<1>4. Entries(p) \subseteq Entries(q) /\ Head(q) \in Entries(q)
  BY <1>1 DEF Entries
<1> QED BY <1>1, <1>2, <1>3, <1>4 DEF p

LEMMA LeaveIsMark == \A q, s : EndsInLeave(q, s) => Has(q, s)
  BY DEF EndsInLeave, Has

LEMMA MarkIsEntry == \A q, s : Has(q, s) <=> \E c \in Entries(q) : MarkOf(c, s)
  BY DEF Has, Entries

-----------------------------------------------------------------------------
(* The invariant. *)

LEMMA ServersStart == ServerInit => ServerInv
<1> SUFFICES ASSUME ServerInit PROVE ServerInv
  OBVIOUS
<1> USE Durations DEF ServerInit, Init, Absent
<1>1. RedisInv
  BY DEF RedisInv, TypeOK, Scores
<1>2. ServerTypeOK
  BY <1>1 DEF ServerTypeOK, RedisInv
<1>3. QueueInv
  BY DEF QueueInv, Entries
<1>4. \A s \in Sockets : UpInv(s) /\ GoneInv(s)
  BY DEF UpInv, GoneInv
<1> QED BY <1>1, <1>2, <1>3, <1>4 DEF ServerInv

\* A socket keeps its part of the invariant as long as none of its marks comes
\* or goes and its lease only vanishes when it has run out.
LEMMA Unconcerned ==
    ASSUME ServerInv, NEW r \in Sockets,
           state'[r] = state[r], user'[r] = user[r], home'[r] = home[r],
           nextBeat'[r] = nextBeat[r], now' = now, lost \subseteq lost',
           state[r] # "new" =>
             /\ Has(queue'[home[r]], r) <=> Has(queue[home[r]], r)
             /\ EndsInLeave(queue[home[r]], r) => EndsInLeave(queue'[home[r]], r)
             /\ \A c \in Entries(queue'[home[r]]) :
                  MarkOf(c, r) => c \in Entries(queue[home[r]])
             /\ \/ leases'[user[r]][r] = leases[user[r]][r]
                \/ /\ leases'[user[r]][r] = Absent
                   /\ leases[user[r]][r] <= now
    PROVE  UpInv(r)' /\ GoneInv(r)'
<1>1. UpInv(r) /\ GoneInv(r) /\ now \in Nat /\ nextBeat[r] \in Nat
  BY Durations DEF ServerInv, ServerTypeOK, RedisInv, TypeOK
<1>2. UpInv(r)'
  <2> SUFFICES ASSUME state[r] = "up" PROVE UpInv(r)'
    BY DEF UpInv
  <2>1. leases[user[r]][r] = nextBeat[r] - Beat + Lease =>
           leases'[user[r]][r] = leases[user[r]][r]
    BY <1>1, Durations DEF UpInv
  <2> QED BY <1>1, <2>1 DEF UpInv
<1>3. GoneInv(r)'
  BY <1>1, LeaveIsMark DEF GoneInv
<1> QED BY <1>2, <1>3

-----------------------------------------------------------------------------
(* One lemma per kind of step. *)

\* A handler issues mark c of socket s in process i.
LEMMA Issued ==
    ASSUME ServerInv, NEW s \in Sockets, NEW i \in Instances, NEW c \in Commands,
           MarkOf(c, s), Issue(i, c)
    PROVE  /\ queue' \in [Instances -> Seq(Commands)]
           /\ Entries(queue'[i]) = Entries(queue[i]) \cup {c}
           /\ \A j \in Instances \ {i} : queue'[j] = queue[j]
           /\ Has(queue'[i], s)
           /\ c.op = "offline" => EndsInLeave(queue'[i], s)
           /\ \A r \in Sockets \ {s}, j \in Instances :
                /\ Has(queue'[j], r) <=> Has(queue[j], r)
                /\ EndsInLeave(queue[j], r) => EndsInLeave(queue'[j], r)
                /\ \A d \in Entries(queue'[j]) :
                     MarkOf(d, r) => d \in Entries(queue[j])
<1>1. /\ queue \in [Instances -> Seq(Commands)]
      /\ queue[i] \in Seq(Commands)
      /\ queue' = [queue EXCEPT ![i] = Append(queue[i], c)]
  BY DEF ServerInv, ServerTypeOK, Issue
<1>2. \A r \in Sockets \ {s} : ~ MarkOf(c, r)
  BY DEF MarkOf
<1>3. /\ queue'[i] = Append(queue[i], c)
      /\ \A j \in Instances \ {i} : queue'[j] = queue[j]
  BY <1>1
<1>4. Append(queue[i], c) \in Seq(Commands)
  BY <1>1
<1>5. queue' \in [Instances -> Seq(Commands)]
  BY <1>1, <1>4
<1>6. /\ Entries(queue'[i]) = Entries(queue[i]) \cup {c}
      /\ Has(queue'[i], s)
      /\ c.op = "offline" => EndsInLeave(queue'[i], s)
  BY <1>1, <1>3, Appended
<1>7. ASSUME NEW r \in Sockets \ {s}, NEW j \in Instances
      PROVE  /\ Has(queue'[j], r) <=> Has(queue[j], r)
             /\ EndsInLeave(queue[j], r) => EndsInLeave(queue'[j], r)
             /\ \A d \in Entries(queue'[j]) :
                  MarkOf(d, r) => d \in Entries(queue[j])
  <2>1. CASE j = i
    BY <1>1, <1>2, <1>3, <2>1, Appended
  <2>2. CASE j # i
    BY <1>3, <2>2
  <2> QED BY <2>1, <2>2
<1> QED BY <1>3, <1>5, <1>6, <1>7

LEMMA CommandTyped ==
    ASSUME ServerInv, NEW op \in Marks \cup {"get"}, NEW s \in Sockets,
           NEW wide \in BOOLEAN
    PROVE  /\ Command(op, s, wide) \in Commands
           /\ Command(op, s, wide).op = op /\ Command(op, s, wide).socket = s
           /\ Command(op, s, wide).at = now
  BY DEF Command, Commands, ServerInv, RedisInv, TypeOK

LEMMA ConnectStep ==
    ASSUME ServerInv, NEW s \in Sockets, NEW u \in Users, NEW i \in Instances,
           Connect(s, u, i)
    PROVE  ServerInv'
<1> DEFINE c == Command("online", s, Became(i, u, s))
<1>1. /\ c \in Commands /\ c.op = "online" /\ c.socket = s /\ c.at = now
      /\ MarkOf(c, s)
  <2>1. Became(i, u, s) \in BOOLEAN
    BY DEF Became
  <2> QED BY <2>1, CommandTyped DEF Marks, MarkOf
<1> HIDE DEF c
<1>2. Issue(i, c)
  BY DEF Connect, c
<1>3. /\ RedisInv /\ ServerTypeOK /\ QueueInv /\ now \in Nat
      /\ now' = now /\ leases' = leases /\ index' = index
      /\ keyDeadline' = keyDeadline /\ view' = view /\ lost' = lost
      /\ faults' = faults
  BY DEF Connect, ServerInv, RedisInv, TypeOK
<1>4. /\ state[s] = "new" /\ state'[s] = "up" /\ user'[s] = u /\ home'[s] = i
      /\ nextBeat'[s] = now + Beat
      /\ \A r \in Sockets \ {s} :
           /\ state'[r] = state[r] /\ user'[r] = user[r]
           /\ home'[r] = home[r] /\ nextBeat'[r] = nextBeat[r]
      /\ state' \in [Sockets -> {"new", "up", "gone"}]
      /\ user' \in [Sockets -> Users \cup {NoOne}]
      /\ home' \in [Sockets -> Instances \cup {NoOne}]
      /\ nextBeat' \in [Sockets -> 0..(MaxTime + Beat)]
  <2>1. now + Beat \in 0..(MaxTime + Beat)
    BY <1>3, Durations DEF RedisInv, TypeOK
  <2> QED BY <1>3, <2>1 DEF Connect, ServerTypeOK
<1>5. RedisInv'
  BY <1>3 DEF RedisInv, TypeOK, Scores
<1>6. ServerTypeOK'
  <2>1. /\ TypeOK'
        /\ queue' \in [Instances -> Seq(Commands)]
    BY <1>1, <1>2, <1>5, Issued DEF RedisInv
  <2> QED BY <1>3, <1>4, <2>1 DEF ServerTypeOK
<1>7. QueueInv'
  <2> SUFFICES ASSUME NEW j \in Instances, NEW d \in Entries(queue'[j]),
                      d.op # "publish"
               PROVE  d.at = now' /\ state'[d.socket] # "new" /\ home'[d.socket] = j
    BY DEF QueueInv
  <2>1. CASE d = c /\ j = i
    BY <1>1, <1>3, <1>4, <2>1
  <2>2. CASE ~ (d = c /\ j = i)
    <3>1. d \in Entries(queue[j])
      <4>1. /\ Entries(queue'[i]) = Entries(queue[i]) \cup {c}
            /\ \A l \in Instances \ {i} : queue'[l] = queue[l]
        BY <1>1, <1>2, Issued
      <4> QED BY <2>2, <4>1
    <3>2. d.at = now /\ state[d.socket] # "new" /\ home[d.socket] = j
      BY <1>3, <3>1 DEF QueueInv
    <3>3. d.socket # s /\ d.socket \in Sockets
      <4>1. d \in Commands
        BY <1>3, <3>1 DEF ServerTypeOK, Entries
      <4> QED BY <3>2, <4>1, <1>4 DEF Commands
    <3> QED BY <1>3, <1>4, <3>2, <3>3
  <2> QED BY <2>1, <2>2
<1>8. ASSUME NEW r \in Sockets PROVE UpInv(r)' /\ GoneInv(r)'
  <2>1. CASE r = s
    <3>1. Has(queue'[home'[s]], s)
      BY <1>1, <1>2, <1>4, Issued
    <3>2. \A d \in Entries(queue'[home'[s]]) : MarkOf(d, s) => d.op # "offline"
      <4> SUFFICES ASSUME NEW d \in Entries(queue'[home'[s]]), MarkOf(d, s)
                   PROVE  d.op # "offline"
        OBVIOUS
      <4>1. CASE d = c
        BY <1>1, <4>1
      <4>2. CASE d # c
        <5>1. Entries(queue'[i]) = Entries(queue[i]) \cup {c}
          BY <1>1, <1>2, Issued
        <5>2. d \in Entries(queue[i])
          BY <1>4, <4>2, <5>1
        <5> QED BY <1>3, <1>4, <5>2 DEF QueueInv, MarkOf, Marks
      <4> QED BY <4>1, <4>2
    <3> QED BY <1>3, <1>4, <2>1, <3>1, <3>2, Durations DEF UpInv, GoneInv
  <2>2. CASE r # s
    <3>1. state[r] # "new" => home[r] \in Instances
      BY <1>3 DEF ServerTypeOK
    <3> QED BY <1>1, <1>2, <1>3, <1>4, <2>2, <3>1, Issued, Unconcerned
  <2> QED BY <2>1, <2>2
<1> QED BY <1>5, <1>6, <1>7, <1>8 DEF ServerInv

LEMMA HeartbeatStep ==
    ASSUME ServerInv, NEW s \in Sockets, Heartbeat(s)
    PROVE  ServerInv'
<1> DEFINE i == home[s]
           c == Command("beat", s, FALSE)
<1>1. /\ c \in Commands /\ c.op = "beat" /\ c.socket = s /\ c.at = now
      /\ MarkOf(c, s)
  BY CommandTyped DEF Marks, MarkOf
<1>2. i \in Instances /\ Issue(i, c) /\ state[s] = "up"
  BY DEF Heartbeat, ServerInv, ServerTypeOK
<1>3. i = home[s]
  OBVIOUS
<1> HIDE DEF i, c
<1>4. /\ queue' \in [Instances -> Seq(Commands)]
      /\ Entries(queue'[i]) = Entries(queue[i]) \cup {c}
      /\ \A j \in Instances \ {i} : queue'[j] = queue[j]
  BY <1>1, <1>2, Issued
<1>5. /\ RedisInv /\ ServerTypeOK /\ QueueInv /\ UpInv(s)
      /\ now \in Nat /\ now' = now /\ leases' = leases /\ index' = index
      /\ keyDeadline' = keyDeadline /\ view' = view /\ lost' = lost
      /\ faults' = faults /\ state' = state /\ user' = user /\ home' = home
  BY DEF Heartbeat, ServerInv, RedisInv, TypeOK
<1>6. /\ nextBeat'[s] = now + Beat
      /\ \A r \in Sockets \ {s} : nextBeat'[r] = nextBeat[r]
      /\ nextBeat' \in [Sockets -> 0..(MaxTime + Beat)]
  <2>1. now + Beat \in 0..(MaxTime + Beat)
    BY <1>5, Durations DEF RedisInv, TypeOK
  <2> QED BY <1>5, <2>1 DEF Heartbeat, ServerTypeOK
<1>7. RedisInv'
  BY <1>5 DEF RedisInv, TypeOK, Scores
<1>8. ServerTypeOK'
  <2>1. /\ TypeOK'
        /\ queue' \in [Instances -> Seq(Commands)]
    BY <1>4, <1>7 DEF RedisInv
  <2> QED BY <1>5, <1>6, <2>1 DEF ServerTypeOK
<1>9. QueueInv'
  <2> SUFFICES ASSUME NEW j \in Instances, NEW d \in Entries(queue'[j]),
                      d.op # "publish"
               PROVE  d.at = now /\ state[d.socket] # "new" /\ home[d.socket] = j
    BY <1>5 DEF QueueInv
  <2>1. d \in Entries(queue[j]) \/ (d = c /\ j = i)
    BY <1>4
  <2>2. CASE d = c /\ j = i
    BY <1>1, <1>2, <1>3, <2>2
  <2>3. CASE d \in Entries(queue[j])
    BY <1>5, <2>3 DEF QueueInv
  <2> QED BY <2>1, <2>2, <2>3
<1>10. ASSUME NEW r \in Sockets PROVE UpInv(r)' /\ GoneInv(r)'
  <2>1. CASE r = s
    <3>1. Has(queue'[i], s)
      BY <1>1, <1>2, Issued
    <3> QED BY <1>1, <1>2, <1>3, <1>4, <1>5, <1>6, <2>1, <3>1, Durations
            DEF UpInv, GoneInv
  <2>2. CASE r # s
    <3>1. state[r] # "new" => home[r] \in Instances
      BY <1>5 DEF ServerTypeOK
    <3> QED BY <1>1, <1>2, <1>5, <1>6, <2>2, <3>1, Issued, Unconcerned
  <2> QED BY <2>1, <2>2
<1> QED BY <1>7, <1>8, <1>9, <1>10 DEF ServerInv

LEMMA DisconnectStep ==
    ASSUME ServerInv, NEW s \in Sockets, Disconnect(s)
    PROVE  ServerInv'
<1> DEFINE i == home[s]
           c == Command("offline", s, Became(i, user[s], s))
<1>1. /\ c \in Commands /\ c.op = "offline" /\ c.socket = s /\ c.at = now
      /\ MarkOf(c, s)
  <2>1. Became(i, user[s], s) \in BOOLEAN
    BY DEF Became
  <2> QED BY <2>1, CommandTyped DEF Marks, MarkOf
<1>2. i \in Instances /\ Issue(i, c) /\ state[s] = "up"
  BY DEF Disconnect, ServerInv, ServerTypeOK
<1>3. i = home[s]
  OBVIOUS
<1> HIDE DEF i, c
<1>4. /\ queue' \in [Instances -> Seq(Commands)]
      /\ Entries(queue'[i]) = Entries(queue[i]) \cup {c}
      /\ \A j \in Instances \ {i} : queue'[j] = queue[j]
  BY <1>1, <1>2, Issued
<1>5. /\ RedisInv /\ ServerTypeOK /\ QueueInv
      /\ now \in Nat /\ now' = now /\ leases' = leases /\ index' = index
      /\ keyDeadline' = keyDeadline /\ lost' = lost /\ nextBeat' = nextBeat
      /\ faults' = faults /\ user' = user /\ home' = home
  BY DEF Disconnect, ServerInv, RedisInv, TypeOK
<1>6. /\ state'[s] = "gone" /\ view'[s] = {}
      /\ \A r \in Sockets \ {s} : state'[r] = state[r] /\ view'[r] = view[r]
      /\ state' \in [Sockets -> {"new", "up", "gone"}]
      /\ view' \in [Sockets -> SUBSET Users]
  BY <1>5 DEF Disconnect, ServerTypeOK
<1>7. RedisInv'
  BY <1>5 DEF RedisInv, TypeOK, Scores
<1>8. ServerTypeOK'
  <2>1. /\ TypeOK'
        /\ queue' \in [Instances -> Seq(Commands)]
    BY <1>4, <1>7 DEF RedisInv
  <2> QED BY <1>2, <1>5, <1>6, <2>1 DEF ServerTypeOK
<1>9. QueueInv'
  <2> SUFFICES ASSUME NEW j \in Instances, NEW d \in Entries(queue'[j]),
                      d.op # "publish"
               PROVE  d.at = now /\ state'[d.socket] # "new" /\ home[d.socket] = j
    BY <1>5 DEF QueueInv
  <2>1. d \in Entries(queue[j]) \/ (d = c /\ j = i)
    BY <1>4
  <2>2. CASE d = c /\ j = i
    BY <1>1, <1>2, <1>3, <1>6, <2>2
  <2>3. CASE d \in Entries(queue[j])
    <3>1. d.at = now /\ state[d.socket] # "new" /\ home[d.socket] = j
      BY <1>5, <2>3 DEF QueueInv
    <3>2. d.socket \in Sockets
      <4>1. d \in Commands
        BY <1>5, <2>3 DEF ServerTypeOK, Entries
      <4> QED BY <4>1 DEF Commands
    <3> QED BY <1>6, <3>1, <3>2
  <2> QED BY <2>1, <2>2, <2>3
<1>10. ASSUME NEW r \in Sockets PROVE UpInv(r)' /\ GoneInv(r)'
  <2>1. CASE r = s
    <3>1. Has(queue'[i], s) /\ EndsInLeave(queue'[i], s)
      BY <1>1, <1>2, Issued
    <3> QED BY <1>3, <1>5, <1>6, <2>1, <3>1 DEF UpInv, GoneInv
  <2>2. CASE r # s
    <3>1. state[r] # "new" => home[r] \in Instances
      BY <1>5 DEF ServerTypeOK
    <3> QED BY <1>1, <1>2, <1>5, <1>6, <2>2, <3>1, Issued, Unconcerned
  <2> QED BY <2>1, <2>2
<1> QED BY <1>7, <1>8, <1>9, <1>10 DEF ServerInv

\* The first command of process i leaves its queue; what is issued on its
\* answer is no mark.
LEMMA Taken ==
    ASSUME ServerInv, NEW i \in Instances, queue[i] # <<>>, NEW r,
           \/ queue'[i] = Tail(queue[i])
           \/ \E g \in Commands :
                g.op \notin Marks /\ queue'[i] = Append(Tail(queue[i]), g)
    PROVE  /\ Has(queue[i], r) <=> MarkOf(Head(queue[i]), r) \/ Has(queue'[i], r)
           /\ EndsInLeave(queue[i], r) =>
                \/ EndsInLeave(queue'[i], r)
                \/ /\ ~ Has(queue'[i], r) /\ MarkOf(Head(queue[i]), r)
                   /\ Head(queue[i]).op = "offline"
           /\ \A d \in Entries(queue'[i]) : MarkOf(d, r) => d \in Entries(queue[i])
<1> DEFINE q == queue[i]
           p == Tail(queue[i])
<1>1. q \in Seq(Commands) /\ q # <<>>
  BY DEF ServerInv, ServerTypeOK
<1>2. /\ p \in Seq(Commands) /\ Entries(p) \subseteq Entries(q)
      /\ Has(q, r) <=> MarkOf(Head(q), r) \/ Has(p, r)
      /\ EndsInLeave(q, r) => \/ EndsInLeave(p, r)
                              \/ /\ ~ Has(p, r)
                                 /\ MarkOf(Head(q), r) /\ Head(q).op = "offline"
  BY <1>1, Removed
<1>3. CASE queue'[i] = p
  BY <1>2, <1>3
<1>4. ASSUME NEW g \in Commands, g.op \notin Marks, queue'[i] = Append(p, g)
      PROVE  /\ Entries(queue'[i]) = Entries(p) \cup {g} /\ ~ MarkOf(g, r)
             /\ Has(queue'[i], r) <=> Has(p, r)
             /\ EndsInLeave(p, r) => EndsInLeave(queue'[i], r)
  <2>1. ~ MarkOf(g, r)
    BY <1>4 DEF MarkOf
  <2> HIDE DEF p
  <2> QED BY <1>2, <1>4, <2>1, Appended
<1> HIDE DEF p, q
<1>5. CASE \E g \in Commands : g.op \notin Marks /\ queue'[i] = Append(p, g)
  <2> PICK g \in Commands : g.op \notin Marks /\ queue'[i] = Append(p, g)
    BY <1>5
  <2>1. /\ Entries(queue'[i]) = Entries(p) \cup {g} /\ ~ MarkOf(g, r)
        /\ Has(queue'[i], r) <=> Has(p, r)
        /\ EndsInLeave(p, r) => EndsInLeave(queue'[i], r)
    BY <1>4
  <2> QED BY <1>2, <2>1 DEF q
<1> QED BY <1>3, <1>5 DEF p, q

\* What a queued command does to Redis.
LEMMA Applied ==
    ASSUME ServerInv, NEW i \in Instances, NEW c \in Entries(queue[i]), Apply(c)
    PROVE  /\ RedisInv' /\ now' = now
           /\ \A v \in Users, r \in Sockets :
                ~ MarkOf(c, r) => leases'[v][r] = leases[v][r]
           /\ \A r \in Sockets : MarkOf(c, r) =>
                IF c.op = "offline"
                THEN leases'[user[r]][r] = Absent
                ELSE leases'[user[r]][r] = now + Lease
<1>1. c \in Commands /\ RedisInv /\ RedisNats
  BY RedisNatsOfInv DEF ServerInv, ServerTypeOK, Entries
<1>2. CASE c.op \in Marks
  <2>1. c.socket \in Sockets /\ c.at = now /\ user[c.socket] \in Users
    <3>1. c.socket \in Sockets
      BY <1>1, <1>2 DEF Commands, Marks
    <3>2. c.at = now /\ state[c.socket] # "new"
      BY <1>2 DEF ServerInv, QueueInv, Marks
    <3> QED BY <3>1, <3>2 DEF ServerInv, ServerTypeOK
  <2>2. \A r \in Sockets : MarkOf(c, r) <=> r = c.socket
    BY <1>2 DEF MarkOf
  <2>3. CASE c.op = "offline"
    <3>1. MarkOffline(user[c.socket], c.socket)
      BY <2>3 DEF Apply
    <3>2. /\ RedisInv' /\ now' = now
          /\ \A v \in Users, r \in Sockets \ {c.socket} :
               leases'[v][r] = leases[v][r]
          /\ leases'[user[c.socket]][c.socket] = Absent
      BY <1>1, <2>1, <3>1, MarkKeepsRedis
    <3> QED BY <2>3, <2>2, <3>2
  <2>4. CASE c.op # "offline"
    <3>1. MarkOnline(user[c.socket], c.socket, now)
      BY <1>2, <2>1, <2>4 DEF Apply, Marks
    <3>2. /\ RedisInv' /\ now' = now
          /\ \A v \in Users, r \in Sockets \ {c.socket} :
               leases'[v][r] = leases[v][r]
          /\ leases'[user[c.socket]][c.socket] = now + Lease
      BY <1>1, <2>1, <3>1, MarkKeepsRedis
    <3> QED BY <2>4, <2>2, <3>2
  <2> QED BY <2>3, <2>4
<1>3. CASE c.op = "get"
  <2>1. c.at = now
    BY <1>3 DEF ServerInv, QueueInv
  <2>2. GetOnlineUsers(now)
    BY <1>3, <2>1 DEF Apply
  <2> QED BY <1>1, <1>3, <2>2, ReadKeepsRedis DEF MarkOf, Marks
<1>4. CASE c.op = "publish"
  <2>1. UNCHANGED <<now, leases, index, keyDeadline>>
    BY <1>4 DEF Apply
  <2>2. RedisInv'
    BY <1>1, <2>1 DEF RedisInv, TypeOK, Scores
  <2> QED BY <1>4, <2>1, <2>2 DEF MarkOf, Marks
<1> QED BY <1>1, <1>2, <1>3, <1>4 DEF Commands

\* What process i issues when command c is answered.
FollowUp(c, g) ==
    /\ g.op \notin Marks
    /\ g.op # "publish" =>
         c.op # "publish" /\ g.at = now /\ g.socket = c.socket

\* The first command of process i is gone, and it has been applied unless its
\* socket has lost it; whatever the step, every socket keeps its part of the
\* invariant.
LEMMA QueueStep ==
    ASSUME ServerInv, NEW i \in Instances, queue[i] # <<>>,
           \/ queue' = [queue EXCEPT ![i] = Tail(@)]
           \/ \E g \in Commands :
                /\ FollowUp(Head(queue[i]), g)
                /\ queue' = [queue EXCEPT ![i] = Append(Tail(@), g)],
           UNCHANGED sockets, lost \subseteq lost',
           \/ Apply(Head(queue[i]))
           \/ /\ UNCHANGED <<now, leases, index, keyDeadline>>
              /\ \A r \in Sockets : MarkOf(Head(queue[i]), r) => r \in lost'
    PROVE  /\ RedisInv' /\ now' = now
           /\ queue' \in [Instances -> Seq(Commands)]
           /\ QueueInv'
           /\ \A s \in Sockets : UpInv(s)' /\ GoneInv(s)'
<1> DEFINE c == Head(queue[i])
<1>1. /\ queue \in [Instances -> Seq(Commands)]
      /\ queue[i] \in Seq(Commands) /\ queue[i] # <<>>
      /\ QueueInv /\ ServerTypeOK /\ RedisInv
      /\ state' = state /\ user' = user /\ home' = home /\ nextBeat' = nextBeat
  BY DEF ServerInv, ServerTypeOK, sockets
<1>2. /\ Tail(queue[i]) \in Seq(Commands)
      /\ c \in Commands /\ c \in Entries(queue[i])
      /\ Entries(Tail(queue[i])) \subseteq Entries(queue[i])
  BY <1>1, Removed
<1> HIDE DEF c
<1>3. \A j \in Instances \ {i} : queue'[j] = queue[j]
  BY <1>1
<1>4. /\ queue' \in [Instances -> Seq(Commands)]
      /\ \A d \in Entries(queue'[i]) : d \in Entries(queue[i]) \/ FollowUp(c, d)
      /\ \/ queue'[i] = Tail(queue[i])
         \/ \E g \in Commands :
              g.op \notin Marks /\ queue'[i] = Append(Tail(queue[i]), g)
  <2>1. CASE queue' = [queue EXCEPT ![i] = Tail(@)]
    <3>1. queue'[i] = Tail(queue[i])
      BY <1>1, <2>1
    <3> QED BY <1>1, <1>2, <2>1, <3>1
  <2>2. CASE \E g \in Commands :
               FollowUp(c, g) /\ queue' = [queue EXCEPT ![i] = Append(Tail(@), g)]
    <3> PICK g \in Commands :
               FollowUp(c, g) /\ queue' = [queue EXCEPT ![i] = Append(Tail(@), g)]
      BY <2>2
    <3>1. queue'[i] = Append(Tail(queue[i]), g)
      BY <1>1
    <3>2. /\ Append(Tail(queue[i]), g) \in Seq(Commands)
          /\ Entries(queue'[i]) = Entries(Tail(queue[i])) \cup {g}
      BY <1>2, <3>1, Appended
    <3>3. queue' \in [Instances -> Seq(Commands)]
      BY <1>1, <3>2
    <3>4. g.op \notin Marks
      BY DEF FollowUp
    <3> QED BY <1>2, <3>1, <3>2, <3>3, <3>4
  <2> QED BY <2>1, <2>2 DEF c
<1>5. RedisInv' /\ now' = now
  <2>1. CASE Apply(c)
    BY <1>2, <2>1, Applied
  <2>2. CASE UNCHANGED <<now, leases, index, keyDeadline>>
    BY <1>1, <2>2 DEF RedisInv, TypeOK, Scores
  <2> QED BY <2>1, <2>2 DEF c
<1>6. QueueInv'
  <2> SUFFICES ASSUME NEW j \in Instances, NEW d \in Entries(queue'[j]),
                      d.op # "publish"
               PROVE  d.at = now /\ state[d.socket] # "new" /\ home[d.socket] = j
    BY <1>1, <1>5 DEF QueueInv
  <2>1. CASE d \in Entries(queue[j])
    BY <1>1, <2>1 DEF QueueInv
  <2>2. CASE d \notin Entries(queue[j])
    <3>1. j = i /\ FollowUp(c, d)
      BY <1>3, <1>4, <2>2
    <3>2. state[c.socket] # "new" /\ home[c.socket] = i
      BY <1>1, <1>2, <3>1 DEF QueueInv, FollowUp
    <3> QED BY <3>1, <3>2 DEF FollowUp
  <2> QED BY <2>1, <2>2
<1>7. ASSUME NEW s \in Sockets PROVE UpInv(s)' /\ GoneInv(s)'
  <2>1. /\ Has(queue[i], s) <=> MarkOf(c, s) \/ Has(queue'[i], s)
        /\ EndsInLeave(queue[i], s) =>
             \/ EndsInLeave(queue'[i], s)
             \/ ~ Has(queue'[i], s) /\ MarkOf(c, s) /\ c.op = "offline"
        /\ \A d \in Entries(queue'[i]) : MarkOf(d, s) => d \in Entries(queue[i])
    BY <1>1, <1>4, Taken DEF c
  <2>2. state[s] # "new" => home[s] \in Instances /\ user[s] \in Users
    BY <1>1 DEF ServerTypeOK
  <2>3. UpInv(s) /\ GoneInv(s)
    BY DEF ServerInv
  <2>4. CASE ~ MarkOf(c, s)
    <3>1. state[s] # "new" => leases'[user[s]][s] = leases[user[s]][s]
      <4>1. CASE Apply(c)
        BY <1>2, <2>2, <2>4, <4>1, Applied
      <4>2. CASE UNCHANGED leases
        BY <4>2
      <4> QED BY <4>1, <4>2 DEF c
    <3>2. state[s] # "new" =>
             /\ Has(queue'[home[s]], s) <=> Has(queue[home[s]], s)
             /\ EndsInLeave(queue[home[s]], s) => EndsInLeave(queue'[home[s]], s)
             /\ \A d \in Entries(queue'[home[s]]) :
                  MarkOf(d, s) => d \in Entries(queue[home[s]])
      <4>1. CASE home[s] = i
        BY <2>1, <2>4, <4>1
      <4>2. CASE home[s] # i
        BY <1>3, <2>2, <4>2
      <4> QED BY <4>1, <4>2
    <3> QED BY <1>1, <1>5, <3>1, <3>2, Unconcerned
  <2>5. CASE MarkOf(c, s)
    <3>1. state[s] # "new" /\ home[s] = i /\ user[s] \in Users
      BY <1>1, <1>2, <2>2, <2>5 DEF QueueInv, MarkOf, Marks
    <3>2. s \notin lost' =>
            leases'[user[s]][s] =
              IF c.op = "offline" THEN Absent ELSE now + Lease
      <4>1. CASE Apply(c)
        BY <1>2, <2>5, <4>1, Applied
      <4>2. CASE \A r \in Sockets : MarkOf(c, r) => r \in lost'
        BY <2>5, <4>2
      <4> QED BY <4>1, <4>2 DEF c
    <3>3. UpInv(s)'
      <4> SUFFICES ASSUME state[s] = "up" PROVE UpInv(s)'
        BY <1>1 DEF UpInv
      <4>1. /\ now' <= nextBeat'[s] /\ nextBeat'[s] <= now' + Beat
            /\ \A d \in Entries(queue'[i]) : MarkOf(d, s) => d.op # "offline"
        BY <1>1, <1>5, <2>1, <2>3, <3>1 DEF UpInv
      <4>2. s \notin lost' => nextBeat[s] = now + Beat
        BY <2>1, <2>3, <2>5, <3>1 DEF UpInv
      <4>3. c.op # "offline"
        BY <1>2, <2>3, <2>5, <3>1 DEF UpInv
      <4>4. now \in Nat
        BY <1>1 DEF RedisInv, TypeOK
      <4>5. nextBeat[s] = now + Beat => now + Lease = nextBeat[s] - Beat + Lease
        BY <4>4, Durations
      <4> QED BY <1>1, <1>5, <3>1, <3>2, <4>1, <4>2, <4>3, <4>5 DEF UpInv
    <3>4. GoneInv(s)'
      <4> SUFFICES ASSUME state[s] = "gone", s \notin lost' PROVE GoneInv(s)'
        BY <1>1 DEF GoneInv
      <4>1. EndsInLeave(queue[i], s)
        BY <2>1, <2>3, <2>5, <3>1 DEF GoneInv
      <4> QED BY <1>1, <2>1, <3>1, <3>2, <4>1, LeaveIsMark DEF GoneInv
    <3> QED BY <3>3, <3>4
  <2> QED BY <2>4, <2>5
<1> QED BY <1>4, <1>5, <1>6, <1>7

LEMMA ExecuteStep ==
    ASSUME ServerInv, NEW i \in Instances, Execute(i)
    PROVE  ServerInv'
<1> DEFINE c == Head(queue[i])
<1>1. /\ queue[i] # <<>> /\ Apply(c) /\ Answer(i, c)
      /\ UNCHANGED sockets /\ lost' = lost /\ faults' = faults
      /\ queue \in [Instances -> Seq(Commands)] /\ ServerTypeOK
  BY DEF Execute, ServerInv, ServerTypeOK
<1>2. c \in Commands /\ c \in Entries(queue[i])
  BY <1>1, Removed
<1> HIDE DEF c
<1>3. /\ \/ queue' = [queue EXCEPT ![i] = Tail(@)]
         \/ \E g \in Commands :
              /\ FollowUp(c, g)
              /\ queue' = [queue EXCEPT ![i] = Append(Tail(@), g)]
      /\ \/ view' = view
         \/ \E S \in SUBSET {s \in Sockets : state[s] = "up"}, W \in SUBSET Users :
              Show(S, W)
  <2>1. CASE /\ c.op = "online" \/ (c.op = "offline" /\ c.wide)
             /\ queue' = [queue EXCEPT ![i] =
                            Append(Tail(@), Command("get", c.socket, c.wide))]
             /\ UNCHANGED view
    <3>1. c.socket \in Sockets /\ c.wide \in BOOLEAN
      BY <1>2, <2>1 DEF Commands
    <3>2. /\ Command("get", c.socket, c.wide) \in Commands
          /\ FollowUp(c, Command("get", c.socket, c.wide))
      BY <2>1, <3>1, CommandTyped DEF FollowUp, Marks
    <3> QED BY <2>1, <3>2
  <2>2. CASE /\ c.op = "get" /\ c.wide
             /\ queue' = [queue EXCEPT ![i] = Append(Tail(@),
                            [op |-> "publish", users |-> Online(c.at)])]
             /\ Show(Up(i), Online(c.at))
    <3> DEFINE g == [op |-> "publish", users |-> Online(c.at)]
    <3>1. Online(c.at) \in SUBSET Users
      BY DEF Online
    <3>2. g \in Commands /\ FollowUp(c, g)
      BY <3>1 DEF Commands, FollowUp, Marks
    <3>3. Up(i) \in SUBSET {s \in Sockets : state[s] = "up"}
      BY DEF Up
    <3> QED BY <2>2, <3>1, <3>2, <3>3
  <2>3. CASE /\ c.op = "get" /\ ~ c.wide
             /\ queue' = [queue EXCEPT ![i] = Tail(@)]
             /\ Show({c.socket} \cap Up(i), Online(c.at))
    <3>1. Online(c.at) \in SUBSET Users
      BY DEF Online
    <3>2. {c.socket} \cap Up(i) \in SUBSET {s \in Sockets : state[s] = "up"}
      BY DEF Up
    <3> QED BY <2>3, <3>1, <3>2
  <2>4. CASE /\ c.op = "publish"
             /\ queue' = [queue EXCEPT ![i] = Tail(@)]
             /\ Show(UNION {Up(j) : j \in Instances \ {i}}, c.users)
    <3>1. c.users \in SUBSET Users
      BY <1>2, <2>4 DEF Commands, Marks
    <3>2. UNION {Up(j) : j \in Instances \ {i}}
             \in SUBSET {s \in Sockets : state[s] = "up"}
      BY DEF Up
    <3> QED BY <2>4, <3>1, <3>2
  <2>5. CASE /\ c.op = "beat" \/ (c.op = "offline" /\ ~ c.wide)
             /\ queue' = [queue EXCEPT ![i] = Tail(@)]
             /\ UNCHANGED view
    BY <2>5
  <2> QED BY <1>1, <2>1, <2>2, <2>3, <2>4, <2>5 DEF Answer
<1>4. /\ RedisInv' /\ QueueInv' /\ queue' \in [Instances -> Seq(Commands)]
      /\ \A s \in Sockets : UpInv(s)' /\ GoneInv(s)'
  BY <1>1, <1>3, QueueStep DEF c
<1>5. /\ view' \in [Sockets -> SUBSET Users]
      /\ \A s \in Sockets : state[s] # "up" => view'[s] = {}
  <2>1. CASE view' = view
    BY <1>1, <2>1 DEF ServerTypeOK
  <2>2. ASSUME NEW S \in SUBSET {s \in Sockets : state[s] = "up"},
               NEW W \in SUBSET Users, Show(S, W)
        PROVE  /\ view' \in [Sockets -> SUBSET Users]
               /\ \A s \in Sockets : state[s] # "up" => view'[s] = {}
    BY <1>1, <2>2 DEF ServerTypeOK, Show
  <2> QED BY <1>3, <2>1, <2>2
<1>6. ServerTypeOK'
  BY <1>1, <1>4, <1>5 DEF ServerTypeOK, RedisInv, sockets
<1> QED BY <1>4, <1>6 DEF ServerInv

LEMMA FailStep ==
    ASSUME ServerInv, NEW i \in Instances, CommandFails(i)
    PROVE  ServerInv'
<1> DEFINE c == Head(queue[i])
<1>1. /\ queue[i] # <<>> /\ UNCHANGED sockets /\ view' = view
      /\ Apply(c) \/ UNCHANGED <<now, leases, index, keyDeadline>>
      /\ lost' = IF c.op \in Marks THEN lost \cup {c.socket} ELSE lost
      /\ queue' = [queue EXCEPT ![i] = Tail(@)]
      /\ faults' = faults + 1 /\ faults < MaxFaults
      /\ queue \in [Instances -> Seq(Commands)] /\ ServerTypeOK
  BY DEF CommandFails, ServerInv, ServerTypeOK
<1>2. c \in Commands
  BY <1>1, Removed
<1> HIDE DEF c
<1>3. /\ lost \subseteq lost' /\ lost' \subseteq Sockets
      /\ \A r \in Sockets : MarkOf(c, r) => r \in lost'
  BY <1>1, <1>2 DEF Commands, MarkOf, ServerTypeOK, Marks
<1>4. /\ RedisInv' /\ QueueInv' /\ queue' \in [Instances -> Seq(Commands)]
      /\ \A s \in Sockets : UpInv(s)' /\ GoneInv(s)'
  BY <1>1, <1>3, QueueStep DEF c
<1>5. faults' \in 0..MaxFaults
  BY <1>1, Durations DEF ServerTypeOK
<1>6. ServerTypeOK'
  BY <1>1, <1>3, <1>4, <1>5 DEF ServerTypeOK, RedisInv, sockets
<1> QED BY <1>4, <1>6 DEF ServerInv

\* The sockets of a dead process are lost, and so are those whose marks it held.
LEMMA CrashStep ==
    ASSUME ServerInv, NEW i \in Instances, Crash(i)
    PROVE  ServerInv'
<1>1. /\ ServerTypeOK /\ RedisInv /\ QueueInv /\ faults < MaxFaults
      /\ now' = now /\ leases' = leases /\ index' = index
      /\ keyDeadline' = keyDeadline /\ faults' = faults + 1
      /\ user' = user /\ home' = home /\ nextBeat' = nextBeat
      /\ queue' = [queue EXCEPT ![i] = <<>>]
      /\ state' = [s \in Sockets |-> IF s \in Up(i) THEN "gone" ELSE state[s]]
      /\ view' = [s \in Sockets |-> IF s \in Up(i) THEN {} ELSE view[s]]
  BY DEF Crash, ServerInv
<1>2. /\ queue' \in [Instances -> Seq(Commands)] /\ queue'[i] = <<>>
      /\ \A j \in Instances \ {i} : queue'[j] = queue[j]
      /\ Entries(queue'[i]) = {}
  BY <1>1 DEF ServerTypeOK, Entries
<1>3. /\ lost \subseteq lost' /\ Up(i) \subseteq lost'
      /\ \A r \in Sockets : Has(queue[i], r) => r \in lost'
  BY DEF Crash, Has, MarkOf
<1>4. lost' \subseteq Sockets
  <2> DEFINE M == {c.socket : c \in {queue[i][k] : k \in
                     {n \in DOMAIN queue[i] : queue[i][n].op \in Marks}}}
  <2>1. M \subseteq Sockets
    <3> SUFFICES ASSUME NEW k \in DOMAIN queue[i], queue[i][k].op \in Marks
                 PROVE  queue[i][k].socket \in Sockets
      OBVIOUS
    <3>1. queue[i][k] \in Commands
      BY <1>1 DEF ServerTypeOK
    <3> QED BY <3>1 DEF Commands, Marks
  <2>2. lost' = lost \cup Up(i) \cup M
    BY DEF Crash
  <2> QED BY <1>1, <2>1, <2>2 DEF ServerTypeOK, Up
<1>5. RedisInv'
  BY <1>1 DEF RedisInv, TypeOK, Scores
<1>6. ServerTypeOK'
  <2>1. faults' \in 0..MaxFaults
    BY <1>1, Durations DEF ServerTypeOK
  <2>2. /\ state' \in [Sockets -> {"new", "up", "gone"}]
        /\ view' \in [Sockets -> SUBSET Users]
        /\ \A s \in Sockets : state'[s] # "up" => view'[s] = {}
        /\ \A s \in Sockets : state'[s] # "new" => state[s] # "new"
    BY <1>1 DEF ServerTypeOK, Up
  <2> QED BY <1>1, <1>2, <1>4, <1>5, <2>1, <2>2 DEF ServerTypeOK, RedisInv
<1>7. QueueInv'
  <2> SUFFICES ASSUME NEW j \in Instances, NEW d \in Entries(queue'[j]),
                      d.op # "publish"
               PROVE  d.at = now /\ state'[d.socket] # "new" /\ home[d.socket] = j
    BY <1>1 DEF QueueInv
  <2>1. j # i /\ d \in Entries(queue[j])
    BY <1>2
  <2>2. d.at = now /\ state[d.socket] # "new" /\ home[d.socket] = j
    BY <1>1, <2>1 DEF QueueInv
  <2>3. d.socket \in Sockets
    <3>1. d \in Commands
      BY <1>1, <2>1 DEF ServerTypeOK, Entries
    <3> QED BY <3>1 DEF Commands
  <2> QED BY <1>1, <2>2, <2>3
<1>8. ASSUME NEW r \in Sockets PROVE UpInv(r)' /\ GoneInv(r)'
  <2>1. UpInv(r) /\ GoneInv(r) /\ (state[r] # "new" => home[r] \in Instances)
    BY <1>1 DEF ServerInv, ServerTypeOK
  <2>2. CASE r \in Up(i)
    BY <1>1, <1>3, <2>2 DEF UpInv, GoneInv
  <2>3. CASE r \notin Up(i) /\ home[r] = i
    <3>1. state'[r] = state[r] /\ state[r] # "up"
      BY <1>1, <2>3 DEF Up
    <3>2. ~ Has(queue'[i], r)
      BY <1>2, MarkIsEntry
    <3> QED BY <1>1, <1>3, <2>1, <2>3, <3>1, <3>2 DEF UpInv, GoneInv
  <2>4. CASE r \notin Up(i) /\ home[r] # i
    <3>1. state'[r] = state[r]
      BY <1>1, <2>4
    <3>2. state[r] # "new" => queue'[home[r]] = queue[home[r]]
      BY <1>2, <2>1, <2>4
    <3> QED BY <1>1, <1>3, <3>1, <3>2, Unconcerned
  <2> QED BY <2>2, <2>3, <2>4
<1> QED BY <1>5, <1>6, <1>7, <1>8 DEF ServerInv

\* Time passes between two rounds of commands, and before the next heartbeat.
LEMMA TickStep ==
    ASSUME ServerInv, TimePasses
    PROVE  ServerInv'
<1>1. /\ ServerTypeOK /\ RedisInv /\ now \in Nat /\ now < MaxTime /\ now' = now + 1
      /\ leases' = leases /\ index' = index /\ keyDeadline' = keyDeadline
      /\ UNCHANGED <<sockets, queue, view, lost, faults>>
      /\ \A j \in Instances : queue[j] = <<>>
      /\ \A s \in Sockets : state[s] = "up" => nextBeat[s] > now
  BY DEF TimePasses, Tick, ServerInv, RedisInv, TypeOK
<1>2. RedisInv'
  <2>1. TypeOK'
    BY <1>1, Durations DEF RedisInv, TypeOK, Scores
  <2>2. \A u \in Users : keyDeadline[u] \in Nat /\ keyDeadline[u] <= now + KeyTTL
    BY <1>1 DEF RedisInv, TypeOK
  <2>3. \A u \in Users : keyDeadline'[u] <= now' + KeyTTL
    BY <1>1, <2>2, Durations
  <2>4. \A u \in Users, s \in Sockets :
          /\ leases[u][s] \in Nat
          /\ leases[u][s] <= keyDeadline[u]
          /\ leases[u][s] <= index[u] \/ leases[u][s] <= now
    BY <1>1, RedisNatsOfInv DEF RedisInv, RedisNats
  <2>5. \A u \in Users, s \in Sockets :
          /\ leases'[u][s] <= keyDeadline'[u]
          /\ leases'[u][s] <= index'[u] \/ leases'[u][s] <= now'
    BY <1>1, <2>4
  <2> QED BY <2>1, <2>3, <2>5 DEF RedisInv
<1>3. ServerTypeOK'
  BY <1>1, <1>2 DEF ServerTypeOK, RedisInv, sockets
<1>4. \A i \in Instances : \A s : ~ Has(queue[i], s) /\ Entries(queue[i]) = {}
  BY <1>1 DEF Has, Entries
<1>5. QueueInv'
  BY <1>1, <1>4 DEF QueueInv
<1>6. ASSUME NEW s \in Sockets PROVE UpInv(s)' /\ GoneInv(s)'
  <2>1. /\ UpInv(s) /\ GoneInv(s) /\ nextBeat[s] \in Nat
        /\ state[s] # "new" => home[s] \in Instances
    BY <1>1, Durations DEF ServerInv, ServerTypeOK
  <2>2. state[s] = "up" => now + 1 <= nextBeat[s] /\ nextBeat[s] <= now + 1 + Beat
    BY <1>1, <2>1, Durations DEF UpInv
  <2> QED BY <1>1, <1>4, <2>1, <2>2 DEF UpInv, GoneInv, sockets
<1> QED BY <1>2, <1>3, <1>5, <1>6 DEF ServerInv

\* A key expires too late to take the lease of a socket that still beats.
LEMMA KeyStep ==
    ASSUME ServerInv, NEW u \in Users, KeyTimesOut(u)
    PROVE  ServerInv'
<1>1. /\ ServerTypeOK /\ RedisInv /\ QueueInv /\ KeyExpires(u)
      /\ UNCHANGED <<sockets, queue, view, lost, faults>>
  BY DEF KeyTimesOut, ServerInv
<1>2. /\ RedisInv' /\ now' = now
      /\ \A v \in Users, r \in Sockets :
           \/ leases'[v][r] = leases[v][r]
           \/ leases'[v][r] = Absent /\ leases[v][r] <= now
  BY <1>1, ExpiryKeepsRedis
<1>3. ServerTypeOK'
  BY <1>1, <1>2 DEF ServerTypeOK, RedisInv, sockets
<1>4. QueueInv'
  BY <1>1, <1>2 DEF QueueInv, sockets
<1>5. ASSUME NEW r \in Sockets PROVE UpInv(r)' /\ GoneInv(r)'
  <2>1. state[r] # "new" => user[r] \in Users
    BY <1>1 DEF ServerTypeOK
  <2> QED BY <1>1, <1>2, <2>1, Unconcerned DEF sockets
<1> QED BY <1>2, <1>3, <1>4, <1>5 DEF ServerInv

LEMMA ServerStep == ServerInv /\ [ServerNext]_vars => ServerInv'
<1> SUFFICES ASSUME ServerInv, [ServerNext]_vars
             PROVE  ServerInv'
  OBVIOUS
<1>1. ASSUME NEW s \in Sockets, NEW u \in Users, NEW i \in Instances,
             Connect(s, u, i)
      PROVE  ServerInv'
  BY <1>1, ConnectStep
<1>2. ASSUME NEW s \in Sockets, Heartbeat(s)
      PROVE  ServerInv'
  BY <1>2, HeartbeatStep
<1>3. ASSUME NEW s \in Sockets, Disconnect(s)
      PROVE  ServerInv'
  BY <1>3, DisconnectStep
<1>4. ASSUME NEW i \in Instances, Execute(i)
      PROVE  ServerInv'
  BY <1>4, ExecuteStep
<1>5. ASSUME NEW i \in Instances, CommandFails(i)
      PROVE  ServerInv'
  BY <1>5, FailStep
<1>6. ASSUME NEW i \in Instances, Crash(i)
      PROVE  ServerInv'
  BY <1>6, CrashStep
<1>7. CASE TimePasses
  BY <1>7, TickStep
<1>8. ASSUME NEW u \in Users, KeyTimesOut(u)
      PROVE  ServerInv'
  BY <1>8, KeyStep
<1>9. CASE UNCHANGED vars
  <2>1. RedisInv' /\ ServerTypeOK'
    BY <1>9 DEF vars, sockets, ServerInv, RedisInv, ServerTypeOK, TypeOK,
                Scores
  <2>2. QueueInv' /\ \A s \in Sockets : UpInv(s)' /\ GoneInv(s)'
    BY <1>9 DEF vars, sockets, ServerInv, QueueInv, UpInv, GoneInv
  <2> QED BY <2>1, <2>2 DEF ServerInv
<1> QED BY <1>1, <1>2, <1>3, <1>4, <1>5, <1>6, <1>7, <1>8, <1>9 DEF ServerNext

-----------------------------------------------------------------------------
\* The inductive invariant holds of every behaviour of the servers.
THEOREM ServerInvariant == ServerSpec => []ServerInv
  BY ServersStart, ServerStep, PTL DEF ServerSpec

\* The servers, their queues and Redis keep their types.
THEOREM ServerTypeCorrect == ServerSpec => []ServerTypeOK
<1>1. ServerInv => ServerTypeOK
  BY DEF ServerInv
<1> QED BY <1>1, ServerInvariant, PTL

LEMMA PendingIsAtHome ==
    ASSUME ServerInv, NEW s \in Sockets, ~ Pending(s), state[s] # "new"
    PROVE  ~ Has(queue[home[s]], s)
  BY DEF ServerInv, ServerTypeOK, Pending, Has, MarkOf

\* A user with a connected socket is online for every reader, whatever other
\* sockets and processes do, unless a mark of the socket was lost.
THEOREM ConnectedAreOnline == ServerSpec => []ConnectedIsOnline
<1>1. ServerInv => ConnectedIsOnline
  <2> SUFFICES ASSUME ServerInv, NEW s \in Sockets,
                      state[s] = "up", s \notin lost, ~ Pending(s)
               PROVE  user[s] \in Online(now)
    BY DEF ConnectedIsOnline
  <2>1. /\ user[s] \in Users /\ now \in Nat /\ nextBeat[s] \in Nat
        /\ leases[user[s]][s] = nextBeat[s] - Beat + Lease
        /\ now <= nextBeat[s]
    <3>1. /\ UpInv(s) /\ ~ Has(queue[home[s]], s)
          /\ ServerTypeOK /\ RedisInv
      BY PendingIsAtHome DEF ServerInv
    <3>2. user[s] \in Users /\ now \in Nat /\ nextBeat[s] \in Nat
      BY <3>1, Durations DEF ServerTypeOK, TypeOK
    <3> QED BY <3>1, <3>2 DEF UpInv
  <2>2. leases[user[s]][s] > now
    BY <2>1, Durations
  <2>3. /\ index[user[s]] \in Nat /\ leases[user[s]][s] \in Nat
        /\ \/ leases[user[s]][s] <= index[user[s]]
           \/ leases[user[s]][s] <= now
    BY <2>1, RedisNatsOfInv DEF ServerInv, RedisInv, RedisNats
  <2>4. index[user[s]] > now
    BY <2>1, <2>2, <2>3
  <2> QED BY <2>1, <2>4 DEF Online
<1> QED BY <1>1, ServerInvariant, PTL

\* A socket that has left leaves no lease behind, although its heartbeats may
\* have been on their way, unless a mark of it was lost.
THEOREM NoLeaseIsLeft == ServerSpec => []NoLeaseAfterLeave
<1>1. ServerInv => NoLeaseAfterLeave
  BY PendingIsAtHome DEF ServerInv, GoneInv, NoLeaseAfterLeave
<1> QED BY <1>1, ServerInvariant, PTL

-----------------------------------------------------------------------------
(* The servers use the store as PresenceStore says it may be used. *)

\* A queued command runs one of the scripts, with a reading that is possible.
LEMMA AppliedByScript ==
    ASSUME ServerInv, NEW i \in Instances, queue[i] # <<>>, Apply(Head(queue[i]))
    PROVE  [Next]_redis
<1> DEFINE c == Head(queue[i])
<1>1. c \in Commands /\ c \in Entries(queue[i])
  <2>1. queue[i] \in Seq(Commands)
    BY DEF ServerInv, ServerTypeOK
  <2> QED BY <2>1, Removed
<1>2. CASE c.op = "publish"
  BY <1>2 DEF Apply, Marks, redis
<1>3. CASE c.op # "publish"
  <2>1. /\ c.op \in {"online", "beat", "offline", "get"}
        /\ c.socket \in Sockets
    BY <1>1, <1>3 DEF Commands, Marks
  <2>2. c.at = now /\ state[c.socket] # "new"
    BY <1>1, <1>3 DEF ServerInv, QueueInv
  <2>3. user[c.socket] \in Users /\ now \in Nat
    BY <2>1, <2>2, Durations DEF ServerInv, ServerTypeOK, TypeOK
  <2>4. now \in Readings
    BY <2>3, Durations DEF Readings
  <2> HIDE DEF c
  <2>5. \/ MarkOnline(user[c.socket], c.socket, now)
        \/ MarkOffline(user[c.socket], c.socket)
        \/ GetOnlineUsers(now)
    BY <1>3, <2>1, <2>2 DEF Apply, c
  <2> QED BY <2>1, <2>3, <2>4, <2>5 DEF Next
<1> QED BY <1>2, <1>3

LEMMA ServersStepStore == ServerInv /\ [ServerNext]_vars => [Next]_redis
<1> SUFFICES ASSUME ServerInv, [ServerNext]_vars
             PROVE  [Next]_redis
  OBVIOUS
<1>1. ASSUME NEW s \in Sockets,
             \/ \E u \in Users, i \in Instances : Connect(s, u, i)
             \/ Heartbeat(s) \/ Disconnect(s)
      PROVE  UNCHANGED redis
  BY <1>1 DEF Connect, Heartbeat, Disconnect, redis
<1>2. ASSUME NEW i \in Instances, Execute(i)
      PROVE  [Next]_redis
  BY <1>2, AppliedByScript DEF Execute
<1>3. ASSUME NEW i \in Instances, CommandFails(i)
      PROVE  [Next]_redis
  <2>1. CASE Apply(Head(queue[i]))
    BY <1>3, <2>1, AppliedByScript DEF CommandFails
  <2>2. CASE UNCHANGED <<now, leases, index, keyDeadline>>
    BY <2>2 DEF redis
  <2> QED BY <1>3, <2>1, <2>2 DEF CommandFails
<1>4. ASSUME NEW i \in Instances, Crash(i)
      PROVE  UNCHANGED redis
  BY <1>4 DEF Crash, redis
<1>5. CASE TimePasses
  BY <1>5 DEF TimePasses, Next
<1>6. ASSUME NEW u \in Users, KeyTimesOut(u)
      PROVE  Next
  BY <1>6 DEF KeyTimesOut, Next
<1>7. CASE UNCHANGED vars
  BY <1>7 DEF vars, redis
<1> QED BY <1>1, <1>2, <1>3, <1>4, <1>5, <1>6, <1>7 DEF ServerNext

\* Every behaviour of the servers is one of the store.
THEOREM ServersUseStore == ServerSpec => Spec
<1>1. ServerInit => Init
  BY DEF ServerInit
<1> QED BY <1>1, ServersStepStore, ServerInvariant, PTL DEF ServerSpec, Spec

\* With the servers at work, too, nobody is shown without a lease and no live
\* lease is hidden.
THEOREM ServersShowLeases == ServerSpec => [](ShownHasLease /\ LeaseIsShown)
  BY ServersUseStore, NoGhostOnline, NobodyHidden, PTL
=============================================================================
