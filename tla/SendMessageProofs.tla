-------------------------- MODULE SendMessageProofs --------------------------
(***************************************************************************)
(* Theorems about SendMessage, for any users and any number of racing      *)
(* requests: two users share one conversation, a message lies among its    *)
(* members, and a request that loses the race finds the winner's row.      *)
(***************************************************************************)
EXTENDS SendMessage, TLAPS

Holding == {"joining", "store", "storing", "stored"}

\* The users of a request that was let in.
Parties ==
    \A r \in Requests : pc[r] \notin {"start", "rejected"} =>
        /\ sender[r] \in Users /\ receiver[r] \in Users
        /\ sender[r] # receiver[r]

\* The rows are those of the requests that committed them, one for each pair,
\* and exactly the two users of the pair are members.
RowInv ==
    /\ \A c \in conversations :
         /\ pc[c.id] \notin {"start", "rejected", "find", "create", "resolve",
                             "creating", "joining"}
         /\ c.pair = Pair(c.id)
         /\ \A u \in Users : <<c.id, u>> \in members <=> u \in {c.pair[1], c.pair[2]}
    /\ \A c, d \in conversations : c.pair = d.pair => c = d
    /\ \A m \in members : \E c \in conversations : c.id = m[1]

\* An uncommitted row is the only one of its pair, committed or not, and a
\* request that has got past it works with a committed row.
RequestInv ==
    \A r \in Requests :
        /\ pc[r] = "creating" => conv[r] = r /\ Found(r) = {} /\ ~ PairPending(r)
        /\ pc[r] = "resolve" => Found(r) # {}
        /\ pc[r] \in Holding => \E c \in Found(r) : c.id = conv[r]
        /\ pc[r] = "stored" => \E m \in messages : m.id = r

MessageInv ==
    /\ \A m \in messages :
         /\ pc[m.id] \notin {"start", "rejected"}
         /\ \E c \in Found(m.id) : c.id = m.conv
    /\ \A e \in emitted :
         /\ pc[e[2]] \notin {"start", "rejected"}
         /\ e[1] = receiver[e[2]]
         /\ \E m \in messages : m.id = e[2]

SendInv == TypeOK /\ Parties /\ RowInv /\ RequestInv /\ MessageInv

LEMMA SendInit == Init => SendInv
BY SendMessageAssumption
   DEF Init, SendInv, TypeOK, PCs, Parties, RowInv, RequestInv, MessageInv, Holding

LEMMA PairType ==
    ASSUME SendInv, NEW r \in Requests, pc[r] \notin {"start", "rejected"}
    PROVE  /\ Pair(r) \in Users \X Users
           /\ {Pair(r)[1], Pair(r)[2]} = {sender[r], receiver[r]}
BY DEF SendInv, Parties, Pair, canonicalizeMemberPair

\* A step of r between places where its users are settled.
LEMMA PairKept ==
    ASSUME UNCHANGED params, NEW q
    PROVE  Pair(q)' = Pair(q) /\ (conversations' = conversations => Found(q)' = Found(q))
BY DEF params, Pair, Found

-----------------------------------------------------------------------------
\* A request is let in or rejected; nothing refers to it yet.
LEMMA ValidateStep ==
    ASSUME SendInv, NEW r \in Requests, NEW a \in Registered, NEW b \in Users,
           Validate(r, a, b)
    PROVE  SendInv'
<1> USE SendMessageAssumption
<1>1. /\ TypeOK /\ pc[r] = "start" /\ UNCHANGED <<conv, tables, emitted>>
      /\ sender' = [sender EXCEPT ![r] = a]
      /\ receiver' = [receiver EXCEPT ![r] = b]
      /\ a \in Users /\ b \in Users
      /\ UNCHANGED <<conversations, members, messages>>
  BY DEF SendInv, Validate, tables
<1>2. PICK ph \in {"rejected", "find"} :
        pc' = [pc EXCEPT ![r] = ph] /\ (ph = "find" => a # b)
  BY DEF Validate, Goto
<1>3. TypeOK'
  BY <1>1, <1>2 DEF TypeOK, PCs
<1>4. ASSUME NEW q \in Requests, q # r
      PROVE  /\ pc'[q] = pc[q] /\ sender'[q] = sender[q] /\ receiver'[q] = receiver[q]
             /\ Pair(q)' = Pair(q) /\ Found(q)' = Found(q)
  BY <1>1, <1>2, <1>4 DEF TypeOK, Pair, Found
<1>5. pc'[r] = ph /\ sender'[r] = a /\ receiver'[r] = b
  BY <1>1, <1>2 DEF TypeOK
<1>6. Parties'
  BY <1>1, <1>2, <1>4, <1>5 DEF SendInv, Parties
<1>7. RowInv'
  <2>1. \A c \in conversations : c.id \in Requests /\ c.id # r
    BY <1>1 DEF SendInv, RowInv, TypeOK
  <2> QED BY <1>1, <1>4, <2>1 DEF SendInv, RowInv
<1>8. RequestInv'
  <2> SUFFICES ASSUME NEW q \in Requests
               PROVE  /\ pc'[q] = "creating" =>
                            conv[q] = q /\ Found(q)' = {} /\ ~ PairPending(q)'
                      /\ pc'[q] = "resolve" => Found(q)' # {}
                      /\ pc'[q] \in Holding => \E c \in Found(q)' : c.id = conv[q]
                      /\ pc'[q] = "stored" => \E m \in messages : m.id = q
    BY <1>1 DEF RequestInv
  <2>1. CASE q = r
    BY <1>5, <2>1 DEF Holding
  <2>2. CASE q # r
    <3>1. PairPending(q)' => PairPending(q)
      BY <1>4, <1>5, <2>2 DEF PairPending
    <3> QED BY <1>4, <2>2, <3>1 DEF SendInv, RequestInv
  <2> QED BY <2>1, <2>2
<1>9. MessageInv'
  <2>1. \A m \in messages : m.id \in Requests /\ m.id # r
    BY <1>1 DEF SendInv, MessageInv, TypeOK
  <2>2. \A e \in emitted : e[2] \in Requests /\ e[2] # r
    BY <1>1 DEF SendInv, MessageInv, TypeOK
  <2> QED BY <1>1, <1>4, <2>1, <2>2 DEF SendInv, MessageInv
<1> QED BY <1>3, <1>6, <1>7, <1>8, <1>9 DEF SendInv

\* r goes on to ph without touching the tables.
LEMMA QuietStep ==
    ASSUME SendInv, NEW r \in Requests, NEW ph \in PCs,
           pc[r] \notin {"start", "rejected"}, ph \notin {"start", "rejected"},
           pc[r] = "creating" => ph = "failed",
           pc[r] \in {"joining", "store", "storing", "stored", "answered", "failed"} =>
             ph \in {"store", "storing", "stored", "answered", "failed"},
           pc' = [pc EXCEPT ![r] = ph],
           conv' \in [Requests -> Requests \cup {NoId}],
           \A q \in Requests \ {r} : conv'[q] = conv[q],
           UNCHANGED <<params, tables, emitted>>,
           ph = "creating" => conv'[r] = r /\ Found(r) = {} /\ ~ PairPending(r),
           ph = "resolve" => Found(r) # {},
           ph \in Holding => \E c \in Found(r) : c.id = conv'[r],
           ph = "stored" => \E m \in messages : m.id = r
    PROVE  SendInv'
<1>1. /\ TypeOK
      /\ UNCHANGED <<sender, receiver, conversations, members, messages, emitted>>
  BY DEF SendInv, params, tables
<1>2. /\ pc'[r] = ph /\ \A q \in Requests \ {r} : pc'[q] = pc[q]
      /\ pc' \in [Requests -> PCs]
  BY <1>1 DEF TypeOK
<1>3. \A q : Pair(q)' = Pair(q) /\ Found(q)' = Found(q)
  BY <1>1, PairKept
<1>4. TypeOK'
  <2>1. ph \in {"creating", "joining", "store", "storing", "stored"} => conv'[r] # NoId
    BY <1>1, SendMessageAssumption DEF TypeOK, Found, Holding
  <2>2. \A q \in Requests :
          pc'[q] \in {"creating", "joining", "store", "storing", "stored"}
            => conv'[q] # NoId
    BY <1>1, <1>2, <2>1 DEF TypeOK
  <2> QED BY <1>1, <1>2, <2>2 DEF TypeOK
<1>5. Parties'
  BY <1>1, <1>2 DEF SendInv, Parties
<1>6. RowInv'
  <2>1. \A c \in conversations : c.id \in Requests
    BY <1>1 DEF TypeOK
  <2>2. \A c \in conversations :
          pc'[c.id] \notin {"start", "rejected", "find", "create", "resolve",
                            "creating", "joining"}
    BY <1>2, <2>1 DEF SendInv, RowInv, PCs, TypeOK
  <2> QED BY <1>1, <1>3, <2>2 DEF SendInv, RowInv
<1>7. RequestInv'
  <2> SUFFICES ASSUME NEW q \in Requests
               PROVE  /\ pc'[q] = "creating" =>
                            conv'[q] = q /\ Found(q) = {} /\ ~ PairPending(q)'
                      /\ pc'[q] = "resolve" => Found(q) # {}
                      /\ pc'[q] \in Holding => \E c \in Found(q) : c.id = conv'[q]
                      /\ pc'[q] = "stored" => \E m \in messages : m.id = q
    BY <1>1, <1>3 DEF RequestInv
  <2>1. CASE q = r
    <3>1. PairPending(r)' => PairPending(r)
      BY <1>2, <1>3 DEF PairPending
    <3> QED BY <1>2, <2>1, <3>1
  <2>2. CASE q # r
    <3>1. ASSUME pc[q] = "creating", PairPending(q)' PROVE FALSE
      <4>1. ~ PairPending(q)
        BY <3>1 DEF SendInv, RequestInv
      <4>2. ph = "creating" /\ Pair(r) = Pair(q)
        BY <1>2, <1>3, <3>1, <4>1 DEF PairPending
      <4> QED BY <2>2, <3>1, <4>2 DEF PairPending
    <3> QED BY <1>2, <2>2, <3>1 DEF SendInv, RequestInv
  <2> QED BY <2>1, <2>2
<1>8. MessageInv'
  <2>1. \A m \in messages : m.id \in Requests
    BY <1>1 DEF TypeOK
  <2>2. \A e \in emitted : e[2] \in Requests
    BY <1>1 DEF TypeOK
  <2> QED BY <1>1, <1>2, <1>3, <2>1, <2>2 DEF SendInv, MessageInv
<1> QED BY <1>4, <1>5, <1>6, <1>7, <1>8 DEF SendInv

\* r commits: nobody else can have a row of the same pair.
LEMMA CommitConversationStep ==
    ASSUME SendInv, NEW r \in Requests, CommitConversation(r)
    PROVE  SendInv'
<1> DEFINE new == IF pc[r] = "creating" THEN {[id |-> r, pair |-> Pair(r)]} ELSE {}
           pair == {Pair(r)[1], Pair(r)[2]}
<1>1. /\ TypeOK /\ pc[r] \in {"creating", "joining"}
      /\ pc' = [pc EXCEPT ![r] = "store"]
      /\ conversations' = conversations \cup new
      /\ members' = members \cup ({conv[r]} \X pair)
      /\ UNCHANGED <<sender, receiver, params, conv, messages, emitted>>
  BY DEF SendInv, CommitConversation, Goto, params
<1>2. /\ pc'[r] = "store" /\ \A q \in Requests \ {r} : pc'[q] = pc[q]
      /\ pc' \in [Requests -> PCs]
  BY <1>1 DEF TypeOK, PCs
<1>3. \A q : Pair(q)' = Pair(q) /\ Found(q) \subseteq Found(q)'
  BY <1>1 DEF Pair, Found
<1>4. Pair(r) \in Users \X Users /\ pair \subseteq Users
  BY <1>1, PairType
<1>5. conv[r] \in Requests
  BY <1>1 DEF SendInv, TypeOK
<1>6. PICK mine \in conversations' : mine.id = conv[r] /\ mine.pair = Pair(r)
  <2>1. CASE pc[r] = "creating"
    <3>1. conv[r] = r
      BY <2>1 DEF SendInv, RequestInv
    <3>2. [id |-> r, pair |-> Pair(r)] \in conversations'
      BY <1>1, <2>1
    <3> QED BY <3>1, <3>2
  <2>2. CASE pc[r] = "joining"
    BY <1>1, <2>2 DEF SendInv, RequestInv, Found, Holding
  <2> QED BY <1>1, <2>1, <2>2
<1>7. \A c \in conversations : c.id \in Requests /\ (c.id = r => pc[r] # "creating")
  BY <1>1 DEF SendInv, TypeOK, RowInv
<1>8. TypeOK'
  <2>1. new \subseteq [id : Requests, pair : Users \X Users]
    BY <1>4
  <2> QED BY <1>1, <1>2, <1>4, <1>5, <2>1 DEF TypeOK
<1>9. Parties'
  BY <1>1, <1>2 DEF SendInv, Parties
<1>10. RowInv'
  <2>1. ASSUME NEW c \in conversations'
        PROVE  /\ pc'[c.id] \notin {"start", "rejected", "find", "create", "resolve",
                                    "creating", "joining"}
               /\ c.pair = Pair(c.id)
    BY <1>1, <1>2, <1>7 DEF SendInv, RowInv
  <2>2. ASSUME NEW c \in conversations', NEW d \in conversations', c.pair = d.pair
        PROVE  c = d
    <3>1. pc[r] = "creating" => \A e \in conversations : e.pair # Pair(r)
      BY DEF SendInv, RequestInv, Found
    <3> QED BY <1>1, <2>2, <3>1 DEF SendInv, RowInv
  <2>3. ASSUME NEW c \in conversations', NEW u \in Users
        PROVE  <<c.id, u>> \in members' <=> u \in {c.pair[1], c.pair[2]}
    <3>1. CASE c.id = conv[r]
      <4>1. c.pair = Pair(r)
        BY <1>6, <2>1, <3>1
      <4>2. u \in pair => <<c.id, u>> \in members'
        BY <1>1, <3>1
      <4>3. <<c.id, u>> \in members => u \in pair
        <5>1. CASE c \in conversations
          BY <4>1, <5>1 DEF SendInv, RowInv
        <5>2. CASE c \notin conversations
          <6>1. c.id = r /\ pc[r] = "creating"
            BY <1>1, <5>2
          <6>2. \A m \in members : m[1] # r
            BY <1>7, <6>1 DEF SendInv, RowInv
          <6> QED BY <6>1, <6>2
        <5> QED BY <5>1, <5>2
      <4> QED BY <1>1, <4>1, <4>2, <4>3
    <3>2. CASE c.id # conv[r]
      <4>1. c \in conversations
        BY <1>1, <3>2 DEF SendInv, RequestInv
      <4>2. <<c.id, u>> \in members' <=> <<c.id, u>> \in members
        BY <1>1, <3>2
      <4> QED BY <4>1, <4>2 DEF SendInv, RowInv
    <3> QED BY <3>1, <3>2
  <2>4. ASSUME NEW m \in members'
        PROVE  \E c \in conversations' : c.id = m[1]
    BY <1>1, <1>6 DEF SendInv, RowInv
  <2>5. \A c \in conversations' : c.pair = Pair(c.id)'
    BY <1>3, <2>1
  <2> QED BY <2>1, <2>2, <2>3, <2>4, <2>5 DEF RowInv
<1>11. RequestInv'
  <2> SUFFICES ASSUME NEW q \in Requests
               PROVE  /\ pc'[q] = "creating" =>
                            conv[q] = q /\ Found(q)' = {} /\ ~ PairPending(q)'
                      /\ pc'[q] = "resolve" => Found(q)' # {}
                      /\ pc'[q] \in Holding => \E c \in Found(q)' : c.id = conv[q]
                      /\ pc'[q] = "stored" => \E m \in messages : m.id = q
    BY <1>1 DEF RequestInv
  <2>1. CASE q = r
    <3>1. mine \in Found(q)'
      BY <1>3, <1>6, <2>1 DEF Found
    <3> QED BY <1>2, <1>6, <2>1, <3>1
  <2>2. CASE q # r
    <3>1. PairPending(q)' => PairPending(q)
      BY <1>2, <1>3 DEF PairPending
    <3>2. pc[q] = "creating" => Found(q)' = {}
      <4> SUFFICES ASSUME pc[q] = "creating" PROVE Found(q)' = {}
        OBVIOUS
      <4>1. Found(q) = {} /\ ~ PairPending(q)
        BY DEF SendInv, RequestInv
      <4>2. pc[r] = "creating" => Pair(r) # Pair(q)
        BY <2>2, <4>1 DEF PairPending
      <4> QED BY <1>1, <1>3, <4>1, <4>2 DEF Found
    <3> QED BY <1>2, <1>3, <2>2, <3>1, <3>2 DEF SendInv, RequestInv
  <2> QED BY <2>1, <2>2
<1>12. MessageInv'
  <2>1. \A m \in messages : m.id \in Requests
    BY <1>1 DEF TypeOK
  <2>2. \A e \in emitted : e[2] \in Requests
    BY <1>1 DEF TypeOK
  <2> QED BY <1>1, <1>2, <1>3, <2>1, <2>2 DEF SendInv, MessageInv
<1> QED BY <1>8, <1>9, <1>10, <1>11, <1>12 DEF SendInv

\* The message goes into the conversation of its sender and receiver.
LEMMA CommitMessageStep ==
    ASSUME SendInv, NEW r \in Requests, CommitMessage(r)
    PROVE  SendInv'
<1>1. /\ TypeOK /\ pc[r] = "storing" /\ pc' = [pc EXCEPT ![r] = "stored"]
      /\ messages' = messages \cup {[id |-> r, conv |-> conv[r]]}
      /\ UNCHANGED <<sender, receiver, params, conv, conversations, members, emitted>>
  BY DEF SendInv, CommitMessage, Goto, params
<1>2. /\ pc'[r] = "stored" /\ \A q \in Requests \ {r} : pc'[q] = pc[q]
      /\ pc' \in [Requests -> PCs]
  BY <1>1 DEF TypeOK, PCs
<1>3. \A q : Pair(q)' = Pair(q) /\ Found(q)' = Found(q)
  BY <1>1, PairKept
<1>4. \E c \in Found(r) : c.id = conv[r]
  BY <1>1 DEF SendInv, RequestInv, Holding
<1>5. conv[r] \in Requests
  BY <1>1 DEF TypeOK
<1>6. TypeOK'
  BY <1>1, <1>2, <1>5 DEF TypeOK
<1>7. Parties'
  BY <1>1, <1>2 DEF SendInv, Parties
<1>8. RowInv'
  <2>1. \A c \in conversations : c.id \in Requests
    BY <1>1 DEF TypeOK
  <2> QED BY <1>1, <1>2, <1>3, <2>1 DEF SendInv, RowInv
<1>9. RequestInv'
  <2>1. \A q : PairPending(q)' => PairPending(q)
    BY <1>2, <1>3 DEF PairPending
  <2>2. \A q \in Requests : pc'[q] = "stored" => \E m \in messages' : m.id = q
    <3>1. [id |-> r, conv |-> conv[r]] \in messages'
      BY <1>1
    <3>2. \A q \in Requests \ {r} : pc[q] = "stored" => \E m \in messages' : m.id = q
      BY <1>1 DEF SendInv, RequestInv
    <3>3. \E m \in messages' : m.id = r
      BY <3>1
    <3> QED BY <1>2, <3>2, <3>3
  <2>3. \A q \in Requests :
          pc'[q] \in Holding => \E c \in Found(q) : c.id = conv[q]
    <3> SUFFICES ASSUME NEW q \in Requests, pc'[q] \in Holding
                 PROVE  \E c \in Found(q) : c.id = conv[q]
      OBVIOUS
    <3>1. CASE q = r
      BY <1>4, <3>1
    <3>2. CASE q # r
      BY <1>2, <3>2 DEF SendInv, RequestInv
    <3> QED BY <3>1, <3>2
  <2>4. \A q \in Requests :
          /\ pc'[q] = "creating" => conv[q] = q /\ Found(q) = {} /\ ~ PairPending(q)'
          /\ pc'[q] = "resolve" => Found(q) # {}
    BY <1>2, <2>1 DEF SendInv, RequestInv
  <2> QED BY <1>1, <1>3, <2>2, <2>3, <2>4 DEF RequestInv
<1>10. MessageInv'
  <2>1. \A m \in messages : m.id \in Requests
    BY <1>1 DEF TypeOK
  <2>2. \A e \in emitted : e[2] \in Requests
    BY <1>1 DEF TypeOK
  <2> QED BY <1>1, <1>2, <1>3, <1>4, <2>1, <2>2 DEF SendInv, MessageInv
<1> QED BY <1>6, <1>7, <1>8, <1>9, <1>10 DEF SendInv

LEMMA EmitStep ==
    ASSUME SendInv, NEW r \in Requests, EmitNewMessage(r)
    PROVE  SendInv'
<1>1. /\ TypeOK /\ pc[r] = "stored" /\ pc' = [pc EXCEPT ![r] = "answered"]
      /\ emitted' = emitted \cup {<<receiver[r], r>>}
      /\ UNCHANGED <<sender, receiver, params, conv, conversations, members, messages>>
  BY DEF SendInv, EmitNewMessage, Goto, params, tables
<1>2. /\ pc'[r] = "answered" /\ \A q \in Requests \ {r} : pc'[q] = pc[q]
      /\ pc' \in [Requests -> PCs]
  BY <1>1 DEF TypeOK, PCs
<1>3. \A q : Pair(q)' = Pair(q) /\ Found(q)' = Found(q)
  BY <1>1, PairKept
<1>4. receiver[r] \in Users /\ \E m \in messages : m.id = r
  BY <1>1 DEF SendInv, Parties, RequestInv
<1>5. TypeOK'
  BY <1>1, <1>2, <1>4 DEF TypeOK
<1>6. Parties'
  BY <1>1, <1>2 DEF SendInv, Parties
<1>7. RowInv'
  <2>1. \A c \in conversations : c.id \in Requests
    BY <1>1 DEF TypeOK
  <2> QED BY <1>1, <1>2, <1>3, <2>1 DEF SendInv, RowInv
<1>8. RequestInv'
  <2>1. \A q : PairPending(q)' => PairPending(q)
    BY <1>2, <1>3 DEF PairPending
  <2> QED BY <1>1, <1>2, <1>3, <2>1 DEF SendInv, RequestInv, Holding
<1>9. MessageInv'
  <2>1. \A m \in messages : m.id \in Requests
    BY <1>1 DEF TypeOK
  <2>2. \A e \in emitted : e[2] \in Requests
    BY <1>1 DEF TypeOK
  <2> QED BY <1>1, <1>2, <1>3, <1>4, <2>1, <2>2 DEF SendInv, MessageInv
<1> QED BY <1>5, <1>6, <1>7, <1>8, <1>9 DEF SendInv

-----------------------------------------------------------------------------
\* The steps of a request that leave the tables alone.
LEMMA RequestQuietStep ==
    ASSUME SendInv, NEW r \in Requests,
           \/ FindDirectConversation(r) \/ InsertConversation(r)
           \/ ResolveConflict(r) \/ InsertMessage(r) \/ Fail(r)
    PROVE  SendInv'
<1> USE DEF Goto, tables, params, PCs, Holding
<1>1. /\ conv \in [Requests -> Requests \cup {NoId}]
      /\ \A c \in Found(r) : c.id \in Requests
      /\ pc[r] \in PCs
  BY DEF SendInv, TypeOK, Found
<1>2. ASSUME NEW id \in Requests, conv' = [conv EXCEPT ![r] = id]
      PROVE  /\ conv' \in [Requests -> Requests \cup {NoId}]
             /\ conv'[r] = id /\ \A q \in Requests \ {r} : conv'[q] = conv[q]
  BY <1>1, <1>2
<1>3. CASE FindDirectConversation(r)
  <2>1. CASE Found(r) = {}
    BY <1>1, <1>3, <2>1, QuietStep DEF FindDirectConversation
  <2>2. CASE Found(r) # {}
    <3>1. PICK c \in Found(r) : conv' = [conv EXCEPT ![r] = c.id]
      BY <1>3, <2>2 DEF FindDirectConversation
    <3> QED BY <1>1, <1>2, <1>3, <2>2, <3>1, QuietStep DEF FindDirectConversation
  <2> QED BY <2>1, <2>2
<1>4. CASE InsertConversation(r)
  <2>1. CASE Found(r) = {}
    <3>1. conv' = [conv EXCEPT ![r] = r]
      BY <1>4, <2>1 DEF InsertConversation
    <3> QED BY <1>1, <1>2, <1>4, <2>1, <3>1, QuietStep DEF InsertConversation
  <2>2. CASE Found(r) # {}
    BY <1>1, <1>4, <2>2, QuietStep DEF InsertConversation
  <2> QED BY <2>1, <2>2
<1>5. CASE ResolveConflict(r)
  <2>1. Found(r) # {}
    BY <1>5 DEF ResolveConflict, SendInv, RequestInv
  <2>2. PICK c \in Found(r) : conv' = [conv EXCEPT ![r] = c.id]
    BY <1>5, <2>1 DEF ResolveConflict
  <2> QED BY <1>1, <1>2, <1>5, <2>1, <2>2, QuietStep DEF ResolveConflict
<1>6. CASE InsertMessage(r)
  <2>1. \E c \in Found(r) : c.id = conv[r]
    BY <1>6 DEF InsertMessage, SendInv, RequestInv
  <2> QED BY <1>1, <1>6, <2>1, QuietStep DEF InsertMessage
<1>7. CASE Fail(r)
  <2>1. pc[r] \notin {"start", "rejected"}
    BY <1>7 DEF Fail, Final
  <2> QED BY <1>1, <1>7, <2>1, QuietStep DEF Fail
<1> QED BY <1>3, <1>4, <1>5, <1>6, <1>7

LEMMA SendStutter == SendInv /\ UNCHANGED vars => SendInv'
BY DEF SendInv, TypeOK, Parties, RowInv, RequestInv, MessageInv, Found, Pair,
       PairPending, vars, params, tables

LEMMA SendInvariant == Spec => []SendInv
<1>1. SendInv /\ [Next]_vars => SendInv'
  BY ValidateStep, RequestQuietStep, CommitConversationStep, CommitMessageStep,
     EmitStep, SendStutter DEF Next, Proceed
<1> QED BY SendInit, <1>1, PTL DEF Spec

\* Every variable keeps its type, and a request that works with a conversation
\* has one.
THEOREM SendTypeCorrect == Spec => []TypeOK
<1>1. SendInv => TypeOK
  BY DEF SendInv
<1> QED BY <1>1, SendInvariant, PTL

\* Two users share one conversation, whatever the number of racing requests.
THEOREM PairsShareConversation == Spec => []OneConversation
<1>1. ASSUME SendInv PROVE OneConversation
  <2> SUFFICES ASSUME NEW c \in conversations, NEW d \in conversations,
                      {c.pair[1], c.pair[2]} = {d.pair[1], d.pair[2]}
               PROVE  c = d
    BY DEF OneConversation
  <2>1. ASSUME NEW e \in conversations
        PROVE  /\ e.pair = <<e.pair[1], e.pair[2]>>
               /\ e.pair[1] \in Nat /\ e.pair[2] \in Nat /\ e.pair[1] < e.pair[2]
    <3>1. /\ e.id \in Requests /\ e.pair = Pair(e.id)
          /\ pc[e.id] \notin {"start", "rejected"}
      BY <1>1 DEF SendInv, TypeOK, RowInv
    <3>2. /\ sender[e.id] \in Nat /\ receiver[e.id] \in Nat
          /\ sender[e.id] # receiver[e.id]
      BY <1>1, <3>1, SendMessageAssumption DEF SendInv, Parties
    <3> QED BY <3>1, <3>2 DEF Pair, canonicalizeMemberPair
  <2>2. c.pair[1] = d.pair[1] /\ c.pair[2] = d.pair[2]
    <3> DEFINE c1 == c.pair[1]  c2 == c.pair[2]  d1 == d.pair[1]  d2 == d.pair[2]
    <3>1. /\ c1 \in Nat /\ c2 \in Nat /\ c1 < c2
          /\ d1 \in Nat /\ d2 \in Nat /\ d1 < d2 /\ {c1, c2} = {d1, d2}
      BY <2>1
    <3> HIDE DEF c1, c2, d1, d2
    <3>2. c1 = d1 /\ c2 = d2
      BY <3>1
    <3> QED BY <3>2 DEF c1, c2, d1, d2
  <2> QED BY <1>1, <2>1, <2>2 DEF SendInv, RowInv
<1> QED BY <1>1, SendInvariant, PTL

\* A stored message lies among exactly its sender and receiver, and who is told
\* of a message is the receiver of a stored one.
THEOREM MessagesStayAmongMembers == Spec => []MessageAmongMembers
<1>1. ASSUME SendInv PROVE MessageAmongMembers
  <2>1. ASSUME NEW m \in messages
        PROVE  /\ \E c \in conversations : c.id = m.conv
               /\ {u \in Users : <<m.conv, u>> \in members}
                    = {sender[m.id], receiver[m.id]}
    <3>1. PICK c \in conversations : c.id = m.conv /\ c.pair = Pair(m.id)
      BY <1>1 DEF SendInv, MessageInv, Found
    <3>2. m.id \in Requests /\ pc[m.id] \notin {"start", "rejected"}
      BY <1>1 DEF SendInv, TypeOK, MessageInv
    <3>3. /\ {c.pair[1], c.pair[2]} = {sender[m.id], receiver[m.id]}
          /\ {c.pair[1], c.pair[2]} \subseteq Users
      BY <1>1, <3>1, <3>2, PairType
    <3>4. \A u \in Users : <<m.conv, u>> \in members <=> u \in {c.pair[1], c.pair[2]}
      BY <1>1, <3>1 DEF SendInv, RowInv
    <3> QED BY <3>1, <3>3, <3>4
  <2> QED BY <1>1, <2>1 DEF SendInv, MessageInv, MessageAmongMembers
<1> QED BY <1>1, SendInvariant, PTL

\* A request whose INSERT met a conflict finds the row that won.
THEOREM ConflictsResolve == Spec => []ConflictResolves
<1>1. SendInv => ConflictResolves
  BY DEF SendInv, RequestInv, ConflictResolves
<1> QED BY <1>1, SendInvariant, PTL
=============================================================================
