---------------------------- MODULE PresenceServer ----------------------------
(***************************************************************************)
(* Socket.IO API processes that share the presence store: connections,     *)
(* heartbeats, disconnects and the getOnlineUsers snapshots they emit.     *)
(* Each process sends its Redis commands over one connection, so they are  *)
(* executed and answered in the order they were issued; what an answer     *)
(* triggers is issued when it arrives.  socketsByUser is the set of        *)
(* connected sockets with their home and user.                             *)
(***************************************************************************)
EXTENDS Sequences, PresenceStore

CONSTANTS
    Instances, \* API processes; a crashed one is restarted under its name
    NoOne,
    Beat,      \* HEARTBEAT_INTERVAL_MS
    MaxFaults  \* bound: failed commands and crashes

\* A lease outlives the interval between two heartbeats.
ASSUME ServerAssumption ==
    /\ Beat \in Nat \ {0} /\ Beat < Lease
    /\ MaxFaults \in Nat

VARIABLES
    state,     \* state[s]: "new", "up" or "gone"
    user,      \* user[s]: socket.data.userId
    home,      \* home[s]: the process s is connected to
    nextBeat,  \* nextBeat[s]: when its interval fires
    queue,     \* queue[i]: commands process i waits for
    view,      \* view[s]: onlineUsers of the client at s
    lost,      \* sockets a command of which was lost
    faults     \* counts up to MaxFaults

sockets == <<state, user, home, nextBeat>>
vars == <<now, leases, index, keyDeadline, sockets, queue, view, lost, faults>>

\* A command; wide says whether the snapshot that follows goes to everybody.
Command(op, s, wide) == [op |-> op, socket |-> s, at |-> now, wide |-> wide]

Marks == {"online", "beat", "offline"}

Commands ==
    [op : Marks \cup {"get"}, socket : Sockets, at : 0..MaxTime, wide : BOOLEAN]
    \cup [op : {"publish"}, users : SUBSET Users]

Up(i) == {s \in Sockets : state[s] = "up" /\ home[s] = i}

\* socketsByUser.get(u) in process i, other than s.
Others(i, u, s) == {r \in Up(i) \ {s} : user[r] = u}

\* Mutant: the outcome is inverted.
BecameIfOthers(i, u, s) == Others(i, u, s) # {}

\* addSocketForUser and removeSocketForUser: s is the only socket of u here.
Became(i, u, s) == Others(i, u, s) = {}

Issue(i, c) == queue' = [queue EXCEPT ![i] = Append(@, c)]

-----------------------------------------------------------------------------
(* Handlers of the process. *)

Connect(s, u, i) ==
    /\ state[s] = "new"
    /\ state' = [state EXCEPT ![s] = "up"]
    /\ user' = [user EXCEPT ![s] = u]
    /\ home' = [home EXCEPT ![s] = i]
    /\ nextBeat' = [nextBeat EXCEPT ![s] = now + Beat]
    /\ Issue(i, Command("online", s, Became(i, u, s)))
    /\ UNCHANGED <<now, leases, index, keyDeadline, view, lost, faults>>

Heartbeat(s) ==
    /\ state[s] = "up"
    /\ nextBeat[s] <= now
    /\ nextBeat' = [nextBeat EXCEPT ![s] = now + Beat]
    /\ Issue(home[s], Command("beat", s, FALSE))
    /\ UNCHANGED <<now, leases, index, keyDeadline, state, user, home, view,
                   lost, faults>>

\* Mutant: a last heartbeat is sent after the leave.
DisconnectThenBeat(s) ==
    /\ state[s] = "up"
    /\ state' = [state EXCEPT ![s] = "gone"]
    /\ view' = [view EXCEPT ![s] = {}]
    /\ queue' = [queue EXCEPT ![home[s]] = @ \o
         <<Command("offline", s, Became(home[s], user[s], s)),
           Command("beat", s, FALSE)>>]
    /\ UNCHANGED <<now, leases, index, keyDeadline, user, home, nextBeat, lost,
                   faults>>

\* clearInterval, removeSocketForUser, markUserOffline.
Disconnect(s) ==
    /\ state[s] = "up"
    /\ state' = [state EXCEPT ![s] = "gone"]
    /\ view' = [view EXCEPT ![s] = {}]
    /\ Issue(home[s], Command("offline", s, Became(home[s], user[s], s)))
    /\ UNCHANGED <<now, leases, index, keyDeadline, user, home, nextBeat, lost,
                   faults>>

-----------------------------------------------------------------------------
(* Redis. *)

\* Mutant: a leaving socket takes its user out of the index.
ApplyWhole(c) ==
    \/ /\ c.op \in {"online", "beat"}
       /\ MarkOnline(user[c.socket], c.socket, c.at)
    \/ c.op = "offline" /\ MarkOfflineWhole(user[c.socket], c.socket)
    \/ c.op = "get" /\ GetOnlineUsers(c.at)
    \/ c.op = "publish" /\ UNCHANGED <<now, leases, index, keyDeadline>>

\* What a command does to the store.
Apply(c) ==
    \/ /\ c.op \in {"online", "beat"}
       /\ MarkOnline(user[c.socket], c.socket, c.at)
    \/ c.op = "offline" /\ MarkOffline(user[c.socket], c.socket)
    \/ c.op = "get" /\ GetOnlineUsers(c.at)
    \/ c.op = "publish" /\ UNCHANGED <<now, leases, index, keyDeadline>>

Show(S, users) == view' = [s \in Sockets |-> IF s \in S THEN users ELSE view[s]]

\* What its answer triggers in process i: then() issues the read of the online
\* users, and io.emit reaches the own sockets at once and the sockets of other
\* processes through a publication.
Answer(i, c) ==
    \/ /\ c.op = "online" \/ (c.op = "offline" /\ c.wide)
       /\ queue' = [queue EXCEPT ![i] =
                      Append(Tail(@), Command("get", c.socket, c.wide))]
       /\ UNCHANGED view
    \/ /\ c.op = "get" /\ c.wide
       /\ queue' = [queue EXCEPT ![i] = Append(Tail(@),
                      [op |-> "publish", users |-> Online(c.at)])]
       /\ Show(Up(i), Online(c.at))
    \/ /\ c.op = "get" /\ ~ c.wide
       /\ queue' = [queue EXCEPT ![i] = Tail(@)]
       /\ Show({c.socket} \cap Up(i), Online(c.at))
    \/ /\ c.op = "publish"
       /\ queue' = [queue EXCEPT ![i] = Tail(@)]
       /\ Show(UNION {Up(j) : j \in Instances \ {i}}, c.users)
    \/ /\ c.op = "beat" \/ (c.op = "offline" /\ ~ c.wide)
       /\ queue' = [queue EXCEPT ![i] = Tail(@)]
       /\ UNCHANGED view

Execute(i) ==
    /\ queue[i] # <<>>
    /\ Apply(Head(queue[i]))
    /\ Answer(i, Head(queue[i]))
    /\ UNCHANGED <<sockets, lost, faults>>

\* The command fails, before or after Redis has executed it; the error is
\* logged and nothing follows.
CommandFails(i) ==
    /\ queue[i] # <<>> /\ faults < MaxFaults
    /\ LET c == Head(queue[i])
       IN  /\ Apply(c) \/ UNCHANGED <<now, leases, index, keyDeadline>>
           /\ lost' = IF c.op \in Marks THEN lost \cup {c.socket} ELSE lost
    /\ queue' = [queue EXCEPT ![i] = Tail(@)]
    /\ faults' = faults + 1
    /\ UNCHANGED <<sockets, view>>

\* The process dies with its sockets, its map and its outstanding commands.
Crash(i) ==
    /\ faults < MaxFaults
    /\ faults' = faults + 1
    /\ lost' = lost \cup Up(i)
         \cup {c.socket : c \in {queue[i][k] : k \in
                 {n \in DOMAIN queue[i] : queue[i][n].op \in Marks}}}
    /\ state' = [s \in Sockets |-> IF s \in Up(i) THEN "gone" ELSE state[s]]
    /\ view' = [s \in Sockets |-> IF s \in Up(i) THEN {} ELSE view[s]]
    /\ queue' = [queue EXCEPT ![i] = <<>>]
    /\ UNCHANGED <<now, leases, index, keyDeadline, user, home, nextBeat>>

\* Time passes.  Timers fire, and Redis answers, within the same unit of time.
TimePasses ==
    /\ \A i \in Instances : queue[i] = <<>>
    /\ \A s \in Sockets : state[s] = "up" => nextBeat[s] > now
    /\ Tick
    /\ UNCHANGED <<sockets, queue, view, lost, faults>>

KeyTimesOut(u) ==
    /\ KeyExpires(u)
    /\ UNCHANGED <<sockets, queue, view, lost, faults>>

-----------------------------------------------------------------------------
ServerInit ==
    /\ Init
    /\ state = [s \in Sockets |-> "new"]
    /\ user = [s \in Sockets |-> NoOne]
    /\ home = [s \in Sockets |-> NoOne]
    /\ nextBeat = [s \in Sockets |-> 0]
    /\ queue = [i \in Instances |-> <<>>]
    /\ view = [s \in Sockets |-> {}]
    /\ lost = {}
    /\ faults = 0

ServerNext ==
    \/ \E s \in Sockets :
          \/ \E u \in Users, i \in Instances : Connect(s, u, i)
          \/ Heartbeat(s)
          \/ Disconnect(s)
    \/ \E i \in Instances : Execute(i) \/ CommandFails(i) \/ Crash(i)
    \/ TimePasses
    \/ \E u \in Users : KeyTimesOut(u)

ServerSpec == ServerInit /\ [][ServerNext]_vars

\* Redis answers, intervals fire and time passes.  Nobody has to connect, and
\* nothing has to fail.
FairSpec ==
    /\ ServerSpec
    /\ \A i \in Instances : WF_vars(Execute(i))
    /\ \A s \in Sockets : WF_vars(Heartbeat(s))
    /\ WF_vars(TimePasses)

-----------------------------------------------------------------------------
(* Properties. *)

Pending(s) ==
    \E i \in Instances : \E k \in DOMAIN queue[i] :
        queue[i][k].op \in Marks /\ queue[i][k].socket = s

ServerTypeOK ==
    /\ TypeOK
    /\ state \in [Sockets -> {"new", "up", "gone"}]
    /\ user \in [Sockets -> Users \cup {NoOne}]
    /\ home \in [Sockets -> Instances \cup {NoOne}]
    /\ \A s \in Sockets :
         state[s] # "new" => user[s] \in Users /\ home[s] \in Instances
    /\ nextBeat \in [Sockets -> 0..(MaxTime + Beat)]
    /\ queue \in [Instances -> Seq(Commands)]
    /\ view \in [Sockets -> SUBSET Users]
    /\ \A s \in Sockets : state[s] # "up" => view[s] = {}
    /\ lost \subseteq Sockets
    /\ faults \in 0..MaxFaults

\* A user with a connected socket none of whose commands was lost is online for
\* every reader, whatever other sockets of the user come, go or crash.
ConnectedIsOnline ==
    \A s \in Sockets :
        state[s] = "up" /\ s \notin lost /\ ~ Pending(s)
            => user[s] \in Online(now)

\* A socket that has left cleanly leaves nothing behind: no heartbeat that was
\* on its way brings its lease back.
NoLeaseAfterLeave ==
    \A s \in Sockets :
        state[s] = "gone" /\ s \notin lost /\ ~ Pending(s)
            => leases[user[s]][s] = Absent

\* What is all that happens happens in process i.
OnlyIn(i) == faults = 0 /\ \A s \in Sockets : home[s] \in {NoOne, i}

\* ADR 009: presence is eventually consistent.  Once nobody comes or goes any
\* more, every client shows the users that Redis takes for online, as long as
\* one process serves them all and no command fails.  (Snapshots of two
\* processes may reach a client in another order than they were read.)
EventuallyConsistent ==
    \A i \in Instances :
        [] OnlyIn(i) =>
            <>[](\A s \in Sockets : state[s] = "up" => view[s] = Online(now))
=============================================================================
