-------------------------- MODULE TaskServiceProofs --------------------------
(***************************************************************************)
(* Proofs about TaskCreation, for any number of requests, users, keys and  *)
(* tasks, and about CursorPagination, for any table, page size and number  *)
(* of concurrent insertions and deletions.                                 *)
(***************************************************************************)
EXTENDS TaskCreation, CursorPagination, TLAPS

(* TaskCreation: the first invariant needs nothing of the environment; the *)
(* second is about calm environments.                                      *)

(* Scopes and the names of Redis keys.                                     *)
LEMMA KeysOfScopes ==
    /\ None \notin Scopes
    /\ \A c \in Scopes : Keyed(c) => MakeKey(c) \in StoreKeys
    /\ \A c, d \in Scopes :
          SameUse(c, d) <=> Keyed(c) /\ Keyed(d) /\ MakeKey(c) = MakeKey(d)
<1>1. None \notin Scopes
  BY CreationAssumption DEF Scopes
<1>2. \A c \in Scopes : c[1] \in Users /\ (Keyed(c) => SafeKey[c[2]] \in SafeKeys)
  BY CreationAssumption DEF Scopes, Keyed
<1>3. QED
  BY <1>1, <1>2 DEF MakeKey, StoreKeys, SameUse

(* A request that has committed and is not finished holds its own row.     *)
Holding(s) == pc[s] \in {"responding", "publishing", "caching"}

HoldersOwn ==
    \A s \in Slots : Holding(s) => made[s] \in TaskIds /\ row[made[s]] = scope[s]

(* Only requests with a key look the cache up and store in it.             *)
KeyedPlaces == \A s \in Slots : pc[s] \in {"lookup", "caching"} => Keyed(scope[s])

(* ReplaysAreOwn, said of Redis keys.                                      *)
EntriesOwn ==
    \A k \in StoreKeys :
        cache[k] # None =>
            /\ row[cache[k]] \in Scopes
            /\ Keyed(row[cache[k]])
            /\ MakeKey(row[cache[k]]) = k

AnswersOwn ==
    \A a \in answered :
        /\ row[a[2]] \in Scopes
        /\ row[a[2]] = a[1] \/ SameUse(row[a[2]], a[1])

DurableInv ==
    TypeOK /\ HoldersOwn /\ KeyedPlaces /\ EventsAreDurable /\ EntriesOwn
    /\ AnswersOwn

LEMMA DurableInit == Init => DurableInv
<1> SUFFICES ASSUME Init PROVE DurableInv
  OBVIOUS
<1>1. TypeOK
  BY DEF Init, TypeOK
<1>2. HoldersOwn /\ KeyedPlaces /\ EventsAreDurable /\ EntriesOwn /\ AnswersOwn
  BY DEF Init, HoldersOwn, KeyedPlaces, Holding, EventsAreDurable, EntriesOwn,
         AnswersOwn
<1>3. QED
  BY <1>1, <1>2 DEF DurableInv

(* What both kinds of commit do to the rows keeps what others hold.        *)
LEMMA NewRowHarmless ==
    ASSUME DurableInv, NEW t \in TaskIds, NEW c \in Scopes, row[t] = None,
           row' = [row EXCEPT ![t] = c],
           UNCHANGED <<cache, redisUp, published, answered, expired, calm>>
    PROVE  /\ row' \in [TaskIds -> Scopes \cup {None}]
           /\ \A u \in TaskIds : row[u] # None => row'[u] = row[u]
           /\ EventsAreDurable' /\ EntriesOwn' /\ AnswersOwn'
<1>1. /\ row' \in [TaskIds -> Scopes \cup {None}]
      /\ \A u \in TaskIds : row[u] # None => row'[u] = row[u]
  BY DEF DurableInv, TypeOK
<1>2. EventsAreDurable'
  BY <1>1 DEF DurableInv, TypeOK, EventsAreDurable
<1>3. EntriesOwn'
  BY <1>1, KeysOfScopes DEF DurableInv, TypeOK, EntriesOwn
<1>4. AnswersOwn'
  BY <1>1, KeysOfScopes DEF DurableInv, TypeOK, AnswersOwn
<1>5. QED
  BY <1>1, <1>2, <1>3, <1>4

LEMMA DurableStep ==
    ASSUME DurableInv, [Next]_vars
    PROVE  DurableInv'
<1> USE CreationAssumption, KeysOfScopes
<1> USE DEF DurableInv, TypeOK, HoldersOwn, KeyedPlaces, Holding,
            EventsAreDurable, EntriesOwn, AnswersOwn
<1>1. ASSUME NEW s \in Slots, RequestStep(s)
      PROVE  DurableInv'
  <2>1. ASSUME NEW c \in Scopes, Arrive(s, c)
        PROVE  DurableInv'
    BY <2>1 DEF Arrive, Goto
  <2>2. CASE Replay(s)
    <3>1. /\ scope[s] \in Scopes /\ Keyed(scope[s])
          /\ MakeKey(scope[s]) \in StoreKeys
          /\ cache[MakeKey(scope[s])] \in TaskIds
      BY <2>2 DEF Replay
    <3>2. /\ row[cache[MakeKey(scope[s])]] \in Scopes
          /\ SameUse(row[cache[MakeKey(scope[s])]], scope[s])
      BY <2>2, <3>1 DEF Replay
    <3>3. AnswersOwn'
      BY <2>2, <3>2 DEF Replay
    <3>4. TypeOK' /\ HoldersOwn' /\ KeyedPlaces'
      BY <2>2, <3>1 DEF Replay, Finish, Goto
    <3>5. QED
      BY <2>2, <3>3, <3>4 DEF Replay
  <2>3. CASE Miss(s)
    BY <2>3 DEF Miss, Goto
  <2>4. CASE Fail(s)
    BY <2>4 DEF Fail, Finish, Goto
  <2>5. CASE Commit(s)
    <3>1. PICK t \in TaskIds : /\ row[t] = None
                               /\ row' = [row EXCEPT ![t] = scope[s]]
                               /\ made' = [made EXCEPT ![s] = t]
      BY <2>5 DEF Commit
    <3>2. /\ scope[s] \in Scopes /\ pc' = [pc EXCEPT ![s] = "responding"]
          /\ UNCHANGED <<scope, cache, redisUp, published, answered, expired,
                         calm>>
      BY <2>5 DEF Commit, Goto
    <3>3. /\ row' \in [TaskIds -> Scopes \cup {None}]
          /\ \A u \in TaskIds : row[u] # None => row'[u] = row[u]
          /\ EventsAreDurable' /\ EntriesOwn' /\ AnswersOwn'
      BY <3>1, <3>2, NewRowHarmless
    <3>4. TypeOK' /\ KeyedPlaces'
      BY <3>1, <3>2, <3>3
    <3>5. HoldersOwn'
      BY <3>1, <3>2, <3>3
    <3>6. QED
      BY <3>3, <3>4, <3>5
  <2>6. CASE CommitReplyLost(s)
    <3>1. PICK t \in TaskIds : row[t] = None /\ row' = [row EXCEPT ![t] = scope[s]]
      BY <2>6 DEF CommitReplyLost
    <3>2. /\ scope[s] \in Scopes
          /\ UNCHANGED <<cache, redisUp, published, answered, expired, calm>>
      BY <2>6 DEF CommitReplyLost
    <3>3. /\ row' \in [TaskIds -> Scopes \cup {None}]
          /\ \A u \in TaskIds : row[u] # None => row'[u] = row[u]
          /\ EventsAreDurable' /\ EntriesOwn' /\ AnswersOwn'
      BY <3>1, <3>2, NewRowHarmless
    <3>4. TypeOK' /\ KeyedPlaces'
      BY <2>6, <3>2, <3>3 DEF CommitReplyLost, Finish, Goto
    <3>5. HoldersOwn'
      BY <2>6, <3>3 DEF CommitReplyLost, Finish, Goto
    <3>6. QED
      BY <3>3, <3>4, <3>5
  <2>7. CASE Respond(s)
    BY <2>7 DEF Respond, Goto
  <2>8. CASE Publish(s)
    <3>1. made[s] \in TaskIds /\ row[made[s]] # None
      BY <2>8 DEF Publish
    <3>2. CASE Keyed(scope[s])
      BY <2>8, <3>1, <3>2 DEF Publish, Goto
    <3>3. CASE ~Keyed(scope[s])
      BY <2>8, <3>1, <3>3 DEF Publish, Finish, Goto
    <3>4. QED
      BY <3>2, <3>3
  <2>9. CASE Store(s)
    <3>1. /\ made[s] \in TaskIds /\ row[made[s]] = scope[s]
          /\ scope[s] \in Scopes /\ Keyed(scope[s])
          /\ MakeKey(scope[s]) \in StoreKeys
      BY <2>9 DEF Store
    <3>2. EntriesOwn' /\ cache' \in [StoreKeys -> TaskIds \cup {None}]
      BY <2>9, <3>1 DEF Store
    <3>3. TypeOK' /\ HoldersOwn' /\ KeyedPlaces'
      BY <2>9, <3>2 DEF Store, Finish, Goto
    <3>4. QED
      BY <2>9, <3>2, <3>3 DEF Store
  <2>10. QED
    BY <1>1, <2>1, <2>2, <2>3, <2>4, <2>5, <2>6, <2>7, <2>8, <2>9
       DEF RequestStep
<1>2. ASSUME NEW k \in StoreKeys, Expire(k)
      PROVE  DurableInv'
  BY <1>2 DEF Expire
<1>3. CASE RedisFlips
  BY <1>3 DEF RedisFlips
<1>4. CASE Crash
  BY <1>4 DEF Crash
<1>5. CASE UNCHANGED vars
  BY <1>5 DEF vars
<1>6. QED
  BY <1>1, <1>2, <1>3, <1>4, <1>5 DEF Next

LEMMA Durability == Spec => []DurableInv
  BY DurableInit, DurableStep, PTL DEF Spec

(* Every variable keeps its type.                                          *)
THEOREM TypeCorrect == Spec => []TypeOK
  BY Durability, PTL DEF DurableInv

(* An event on the topic always names a committed task.                    *)
THEOREM NoEventBeforeCommit == Spec => []EventsAreDurable
  BY Durability, PTL DEF DurableInv

(* Whatever SafeKey makes of the keys: what Redis replays to a user is a   *)
(* committed task of that user under a key that is alike once cut, and     *)
(* every answer names its own request's task or such a one.                *)
THEOREM NoForeignReplay == Spec => []ReplaysAreOwn
<1>1. DurableInv => ReplaysAreOwn
  <2> SUFFICES ASSUME DurableInv PROVE ReplaysAreOwn
    OBVIOUS
  <2>1. ASSUME NEW u \in Users, NEW k \in SafeKeys, cache[<<u, k>>] # None
        PROVE  \E c \in Scopes : /\ row[cache[<<u, k>>]] = c
                                 /\ c[1] = u /\ Keyed(c) /\ SafeKey[c[2]] = k
    <3>1. <<u, k>> \in StoreKeys
      BY DEF StoreKeys
    <3>2. QED
      BY <2>1, <3>1 DEF DurableInv, EntriesOwn, MakeKey
  <2>2. \A a \in answered : row[a[2]] = a[1] \/ SameUse(row[a[2]], a[1])
    BY DEF DurableInv, AnswersOwn
  <2>3. QED
    BY <2>1, <2>2 DEF ReplaysAreOwn
<1>2. QED
  BY <1>1, Durability, PTL
-----------------------------------------------------------------------------
(* In a calm environment, at any moment a Redis key has one request under  *)
(* way; every row under it is cached, held by that request or expired; and *)
(* a request that passed its lookup found no row under it but expired ones.*)
Active(s) == pc[s] # "idle"

Under(t, k) == row[t] # None /\ Keyed(row[t]) /\ MakeKey(row[t]) = k
Serves(s, k) == Active(s) /\ Keyed(scope[s]) /\ MakeKey(scope[s]) = k

ExclusiveKey ==
    \A k \in StoreKeys, s, o \in Slots : Serves(s, k) /\ Serves(o, k) => s = o

Remembered ==
    \A k \in StoreKeys, t \in TaskIds \ expired :
        Under(t, k)
          => \/ cache[k] = t
             \/ \E s \in Slots : Holding(s) /\ Serves(s, k) /\ made[s] = t

NotYetMade ==
    \A k \in StoreKeys, s \in Slots :
        pc[s] = "creating" /\ Serves(s, k)
          => \A t \in TaskIds \ expired : ~Under(t, k)

OneTaskPerEntry ==
    \A k \in StoreKeys, t, u \in TaskIds \ expired :
        Under(t, k) /\ Under(u, k) => t = u

CalmInv ==
    /\ redisUp
    /\ ExclusiveKey
    /\ Remembered
    /\ NotYetMade
    /\ OneTaskPerEntry

(* The answer that a request still has to store is stored nowhere yet, so  *)
(* it cannot have expired.                                                 *)
NotStoredYet ==
    /\ \A t \in expired : row[t] # None
    /\ \A s \in Slots :
          Holding(s) =>
            /\ made[s] \notin expired
            /\ \A k \in StoreKeys : cache[k] # made[s]
            /\ \A o \in Slots : Holding(o) /\ made[o] = made[s] => o = s

LEMMA NotStoredStep ==
    ASSUME DurableInv, NotStoredYet, [Next]_vars
    PROVE  NotStoredYet'
<1> USE CreationAssumption, KeysOfScopes
<1> USE DEF NotStoredYet, Holding
<1>0. TypeOK /\ HoldersOwn /\ KeyedPlaces /\ EntriesOwn
  BY DEF DurableInv
<1>1. ASSUME NEW s \in Slots, RequestStep(s)
      PROVE  NotStoredYet'
  <2>1. ASSUME NEW c \in Scopes, Arrive(s, c)
        PROVE  NotStoredYet'
    BY <1>0, <2>1 DEF Arrive, Goto, TypeOK
  <2>2. CASE Replay(s)
    BY <1>0, <2>2 DEF Replay, Finish, Goto, TypeOK
  <2>3. CASE Miss(s)
    BY <1>0, <2>3 DEF Miss, Goto, TypeOK
  <2>4. CASE Fail(s)
    BY <1>0, <2>4 DEF Fail, Finish, Goto, TypeOK
  <2>5. CASE Commit(s)
    BY <1>0, <2>5 DEF Commit, Goto, TypeOK, HoldersOwn, EntriesOwn
  <2>6. CASE CommitReplyLost(s)
    BY <1>0, <2>6 DEF CommitReplyLost, Finish, Goto, TypeOK
  <2>7. CASE Respond(s)
    BY <1>0, <2>7 DEF Respond, Goto, TypeOK
  <2>8. CASE Publish(s)
    <3>1. CASE Keyed(scope[s])
      BY <1>0, <2>8, <3>1 DEF Publish, Goto, TypeOK
    <3>2. CASE ~Keyed(scope[s])
      BY <1>0, <2>8, <3>2 DEF Publish, Finish, Goto, TypeOK
    <3>3. QED
      BY <3>1, <3>2
  <2>9. CASE Store(s)
    BY <1>0, <2>9 DEF Store, Finish, Goto, TypeOK
  <2>10. QED
    BY <1>1, <2>1, <2>2, <2>3, <2>4, <2>5, <2>6, <2>7, <2>8, <2>9
       DEF RequestStep
<1>2. ASSUME NEW k \in StoreKeys, Expire(k)
      PROVE  NotStoredYet'
  BY <1>0, <1>2 DEF Expire, TypeOK, EntriesOwn, HoldersOwn, Holding
<1>3. CASE RedisFlips
  BY <1>3 DEF RedisFlips
<1>4. CASE Crash
  BY <1>4 DEF Crash
<1>5. CASE UNCHANGED vars
  BY <1>5 DEF vars
<1>6. QED
  BY <1>1, <1>2, <1>3, <1>4, <1>5 DEF Next

LEMMA CalmStep ==
    ASSUME calm, DurableInv, NotStoredYet, CalmInv, [Next]_vars
    PROVE  CalmInv'
<1> USE CreationAssumption, KeysOfScopes
<1> USE DEF CalmInv, ExclusiveKey, Remembered, NotYetMade, Active, Holding,
            OneTaskPerEntry, Under, Serves
<1>0. TypeOK /\ HoldersOwn /\ KeyedPlaces /\ EntriesOwn
  BY DEF DurableInv
<1>1. ASSUME NEW s \in Slots, RequestStep(s)
      PROVE  CalmInv'
  <2>1. ASSUME NEW c \in Scopes, Arrive(s, c)
        PROVE  CalmInv'
    <3>1. /\ pc[s] = "idle"
          /\ pc' = [pc EXCEPT ![s] = IF Keyed(c) THEN "lookup" ELSE "creating"]
          /\ scope' = [scope EXCEPT ![s] = c]
          /\ UNCHANGED <<made, row, cache, redisUp, expired>>
          /\ Keyed(c) => \A o \in Slots : pc[o] # "idle" /\ Keyed(scope[o])
                                            => MakeKey(scope[o]) # MakeKey(c)
      BY <2>1 DEF Arrive, Goto
    <3>2. ExclusiveKey'
      BY <1>0, <3>1 DEF TypeOK
    <3>3. Remembered'
      BY <1>0, <3>1 DEF TypeOK
    <3>4. NotYetMade' /\ OneTaskPerEntry' /\ redisUp'
      BY <1>0, <3>1 DEF TypeOK
    <3>5. QED
      BY <3>2, <3>3, <3>4
  <2>2. CASE Replay(s)
    BY <1>0, <2>2 DEF Replay, Finish, Goto, TypeOK
  <2>3. CASE Miss(s)
    <3>1. ASSUME NEW k \in StoreKeys, Serves(s, k), NEW t \in TaskIds \ expired,
                 Under(t, k)
          PROVE  FALSE
      <4>1. cache[k] = None
        BY <1>0, <2>3, <3>1 DEF Miss, TypeOK
      <4>2. PICK o \in Slots : Holding(o) /\ Serves(o, k)
        BY <3>1, <4>1
      <4>3. o = s
        BY <3>1, <4>2
      <4>4. QED
        BY <2>3, <4>2, <4>3 DEF Miss
    <3>2. QED
      BY <1>0, <2>3, <3>1 DEF Miss, Goto, TypeOK
  <2>4. CASE Fail(s)
    BY <1>0, <2>4 DEF Fail, Finish, Goto, TypeOK
  <2>5. CASE Commit(s)
    <3>1. PICK t \in TaskIds : /\ row[t] = None
                               /\ row' = [row EXCEPT ![t] = scope[s]]
                               /\ made' = [made EXCEPT ![s] = t]
      BY <2>5 DEF Commit
    <3>2. /\ UNCHANGED <<scope, cache, redisUp, expired>> /\ pc[s] = "creating"
          /\ pc' = [pc EXCEPT ![s] = "responding"]
          /\ scope[s] \in Scopes
      BY <1>0, <2>5 DEF Commit, Goto, TypeOK
    <3>3. redisUp' /\ ExclusiveKey'
      BY <1>0, <3>2 DEF TypeOK
    <3>4. \A k \in StoreKeys, x \in TaskIds :
             Under(x, k)' <=> IF x = t THEN Keyed(scope[s]) /\ MakeKey(scope[s]) = k
                                       ELSE Under(x, k)
      BY <1>0, <3>1, <3>2 DEF TypeOK
    <3>5. OneTaskPerEntry'
      <4> SUFFICES ASSUME NEW k \in StoreKeys, NEW x \in TaskIds \ expired,
                          NEW y \in TaskIds \ expired, Under(x, k)', Under(y, k)'
                   PROVE  x = y
        BY <3>2
      <4>1. CASE x # t /\ y # t
        BY <3>4, <4>1
      <4>2. CASE x = t \/ y = t
        <5>1. Serves(s, k)
          BY <3>2, <3>4, <4>2
        <5>2. \A z \in TaskIds \ expired : ~Under(z, k)
          BY <3>2, <5>1
        <5>3. QED
          BY <3>4, <5>2
      <4>3. QED
        BY <4>1, <4>2
    <3>6. NotYetMade'
      <4> SUFFICES ASSUME NEW k \in StoreKeys, NEW o \in Slots,
                          pc'[o] = "creating", Serves(o, k)',
                          NEW x \in TaskIds \ expired, Under(x, k)'
                   PROVE  FALSE
        BY <3>2
      <4>1. o # s /\ pc[o] = "creating" /\ Serves(o, k)
        BY <1>0, <3>2 DEF TypeOK
      <4>2. CASE x = t
        BY <3>2, <3>4, <4>1, <4>2
      <4>3. CASE x # t
        BY <3>4, <4>1, <4>3
      <4>4. QED
        BY <4>2, <4>3
    <3>7. Remembered'
      <4> SUFFICES ASSUME NEW k \in StoreKeys, NEW x \in TaskIds \ expired,
                          Under(x, k)', cache'[k] # x
                   PROVE  \E o \in Slots :
                            Holding(o)' /\ Serves(o, k)' /\ made'[o] = x
        BY <3>2
      <4>1. CASE x = t
        <5>1. Keyed(scope[s]) /\ MakeKey(scope[s]) = k
          BY <3>4, <4>1
        <5>2. Holding(s)' /\ Serves(s, k)' /\ made'[s] = x
          BY <1>0, <3>1, <3>2, <4>1, <5>1 DEF TypeOK
        <5>3. QED
          BY <5>2
      <4>2. CASE x # t
        <5>1. Under(x, k)
          BY <3>4, <4>2
        <5>2. PICK o \in Slots : Holding(o) /\ Serves(o, k) /\ made[o] = x
          BY <3>2, <5>1
        <5>3. o # s
          BY <3>2, <5>2
        <5>4. QED
          BY <1>0, <3>1, <3>2, <5>2, <5>3 DEF TypeOK
      <4>3. QED
        BY <4>1, <4>2
    <3>8. QED
      BY <3>3, <3>5, <3>6, <3>7
  <2>6. CASE CommitReplyLost(s)
    BY <2>6 DEF CommitReplyLost
  <2>7. CASE Respond(s)
    BY <1>0, <2>7 DEF Respond, Goto, TypeOK
  <2>8. CASE Publish(s)
    <3>1. CASE Keyed(scope[s])
      BY <1>0, <2>8, <3>1 DEF Publish, Goto, TypeOK
    <3>2. CASE ~Keyed(scope[s])
      <4>1. /\ pc' = [pc EXCEPT ![s] = "idle"]
            /\ scope' = [scope EXCEPT ![s] = None]
            /\ made' = [made EXCEPT ![s] = None]
            /\ UNCHANGED <<row, cache, redisUp, expired>>
        BY <2>8, <3>2 DEF Publish, Finish, Goto
      <4>2. \A o \in Slots, k \in StoreKeys :
               (Serves(o, k) <=> Serves(o, k)')
               /\ (Serves(o, k) => o # s)
        BY <1>0, <3>2, <4>1 DEF TypeOK
      <4>3. \A o \in Slots : o # s => pc'[o] = pc[o] /\ made'[o] = made[o]
        BY <1>0, <4>1 DEF TypeOK
      <4>4. \A t \in TaskIds, k \in StoreKeys : Under(t, k)' <=> Under(t, k)
        BY <4>1
      <4>5. ExclusiveKey' /\ OneTaskPerEntry' /\ redisUp'
        BY <4>1, <4>2, <4>4 DEF ExclusiveKey, OneTaskPerEntry
      <4>6. NotYetMade'
        BY <4>1, <4>2, <4>3, <4>4
      <4>7. Remembered'
        BY <4>1, <4>2, <4>3, <4>4
      <4>8. QED
        BY <4>5, <4>6, <4>7
    <3>3. QED
      BY <3>1, <3>2
  <2>9. CASE Store(s)
    <3>1. /\ cache' = [cache EXCEPT ![MakeKey(scope[s])] = made[s]]
          /\ pc' = [pc EXCEPT ![s] = "idle"]
          /\ scope' = [scope EXCEPT ![s] = None]
          /\ made' = [made EXCEPT ![s] = None]
          /\ UNCHANGED <<row, redisUp, expired>>
          /\ pc[s] = "caching"
      BY <2>9 DEF Store, Finish, Goto
    <3>2. /\ made[s] \in TaskIds /\ row[made[s]] = scope[s]
          /\ scope[s] \in Scopes /\ Keyed(scope[s])
          /\ MakeKey(scope[s]) \in StoreKeys
      BY <1>0, <3>1 DEF HoldersOwn, KeyedPlaces, TypeOK
    <3>3. Remembered'
      <4> SUFFICES ASSUME NEW k \in StoreKeys, NEW x \in TaskIds \ expired,
                          Under(x, k)
                   PROVE  \/ cache'[k] = x
                          \/ \E o \in Slots :
                               Holding(o)' /\ Serves(o, k)' /\ made'[o] = x
        BY <3>1
      <4>1. CASE cache[k] = x \/ MakeKey(scope[s]) = k
        <5>1. CASE MakeKey(scope[s]) = k
          <6>1. Serves(s, k) /\ cache'[k] = made[s]
            BY <1>0, <3>1, <3>2, <5>1 DEF TypeOK
          <6>2. made[s] \notin expired /\ Under(made[s], k)
            BY <3>1, <3>2, <5>1 DEF NotStoredYet
          <6>3. QED
            BY <3>2, <6>1, <6>2
        <5>2. CASE MakeKey(scope[s]) # k
          BY <1>0, <3>1, <3>2, <4>1, <5>2 DEF TypeOK
        <5>3. QED
          BY <5>1, <5>2
      <4>2. CASE cache[k] # x /\ MakeKey(scope[s]) # k
        BY <1>0, <3>1, <3>2, <4>2 DEF TypeOK
      <4>3. QED
        BY <4>1, <4>2
    <3>4. redisUp' /\ ExclusiveKey' /\ NotYetMade' /\ OneTaskPerEntry'
      BY <1>0, <3>1 DEF TypeOK
    <3>5. QED
      BY <3>3, <3>4
  <2>10. QED
    BY <1>1, <2>1, <2>2, <2>3, <2>4, <2>5, <2>6, <2>7, <2>8, <2>9
       DEF RequestStep
<1>2. ASSUME NEW k \in StoreKeys, Expire(k)
      PROVE  CalmInv'
  <2>1. /\ cache[k] \in TaskIds /\ cache' = [cache EXCEPT ![k] = None]
        /\ expired' = expired \cup {cache[k]}
        /\ UNCHANGED <<pc, scope, made, row, redisUp>>
    BY <1>0, <1>2 DEF Expire, TypeOK
  <2>2. Remembered'
    BY <1>0, <2>1 DEF TypeOK
  <2>3. redisUp' /\ ExclusiveKey' /\ NotYetMade' /\ OneTaskPerEntry'
    BY <2>1
  <2>4. QED
    BY <2>2, <2>3
<1>3. CASE RedisFlips
  BY <1>3 DEF RedisFlips
<1>4. CASE Crash
  BY <1>4 DEF Crash
<1>5. CASE UNCHANGED vars
  BY <1>5 DEF vars
<1>6. QED
  BY <1>1, <1>2, <1>3, <1>4, <1>5 DEF Next

LEMMA CalmInvariance ==
    Spec => [](DurableInv /\ NotStoredYet /\ (calm => CalmInv))
<1>1. Init => CalmInv /\ NotStoredYet
  BY DEF Init, CalmInv, ExclusiveKey, Remembered, NotYetMade, Active, Serves,
         Under, OneTaskPerEntry, NotStoredYet, Holding
<1>2. [Next]_vars => UNCHANGED calm
  BY DEF Next, RequestStep, Arrive, Replay, Miss, Fail, Commit, CommitReplyLost,
         Respond, Publish, Store, Expire, RedisFlips, Crash, vars
<1>3. DurableInv /\ NotStoredYet /\ (calm => CalmInv) /\ [Next]_vars
        => (NotStoredYet /\ (calm => CalmInv))'
  BY <1>2, CalmStep, NotStoredStep
<1>4. QED
  BY <1>1, <1>3, Durability, PTL DEF Spec

(* A client that uses a key again only after the server is done with the   *)
(* last use makes one task with it until the stored response expires, and  *)
(* all its answers for the key name this one, as long as Redis answers,    *)
(* the process lives and no commit's reply is lost: what the docstring of  *)
(* create_task promises holds under this environment.                      *)
THEOREM CalmClientsNeverDuplicate == Spec => []CalmRetriesAreOneTask
<1>1. DurableInv /\ (calm => CalmInv) => CalmRetriesAreOneTask
  <2> SUFFICES ASSUME DurableInv, CalmInv
               PROVE  CalmRetriesAreOneTask
    BY DEF CalmRetriesAreOneTask
  <2>1. ASSUME NEW t \in TaskIds \ expired, NEW u \in TaskIds \ expired,
               row[t] # None, row[u] # None, SameUse(row[t], row[u])
        PROVE  t = u
    <3>1. row[t] \in Scopes /\ row[u] \in Scopes
      BY <2>1 DEF DurableInv, TypeOK
    <3>2. /\ Keyed(row[t]) /\ Keyed(row[u]) /\ MakeKey(row[t]) \in StoreKeys
          /\ MakeKey(row[t]) = MakeKey(row[u])
      BY <2>1, <3>1, KeysOfScopes
    <3>3. Under(t, MakeKey(row[t])) /\ Under(u, MakeKey(row[t]))
      BY <2>1, <3>2 DEF Under
    <3>4. QED
      BY <3>2, <3>3 DEF CalmInv, OneTaskPerEntry
  <2>2. ASSUME NEW a \in answered, NEW b \in answered,
               SameUse(a[1], b[1]), {a[2], b[2]} \cap expired = {}
        PROVE  a[2] = b[2]
    <3>1. a[2] \in TaskIds \ expired /\ b[2] \in TaskIds \ expired
      BY <2>2 DEF DurableInv, TypeOK
    <3>2. /\ row[a[2]] \in Scopes /\ row[b[2]] \in Scopes
          /\ SameUse(row[a[2]], row[b[2]])
      BY <2>2 DEF DurableInv, AnswersOwn, SameUse
    <3>3. row[a[2]] # None /\ row[b[2]] # None
      BY <3>2, KeysOfScopes
    <3>4. QED
      BY <2>1, <3>1, <3>2, <3>3
  <2>3. QED
    BY <2>1, <2>2 DEF CalmRetriesAreOneTask
<1>2. QED
  BY <1>1, CalmInvariance, PTL

-----------------------------------------------------------------------------
(* CursorPagination.                                                       *)

(* The sort order is a strict total order on rows.                         *)
LEMMA TotalOrder ==
    /\ \A a, b \in Row : a = b \/ Before(a, b) \/ Before(b, a)
    /\ \A a, b, c \in Row : Before(a, b) /\ Before(b, c) => Before(a, c)
    /\ \A a \in Row : ~Before(a, a)
<1>1. \A a, b \in Row : a = b \/ Before(a, b) \/ Before(b, a)
  <2> SUFFICES ASSUME NEW a \in Row, NEW b \in Row
               PROVE  a = b \/ Before(a, b) \/ Before(b, a)
    OBVIOUS
  <2>1. a = <<a[1], a[2]>> /\ b = <<b[1], b[2]>>
    BY DEF Row
  <2>2. a[1] \in Nat /\ a[2] \in Nat /\ b[1] \in Nat /\ b[2] \in Nat
    BY PaginationAssumption DEF Row
  <2>3. QED
    BY <2>1, <2>2 DEF Before
<1>2. \A a, b, c \in Row : Before(a, b) /\ Before(b, c) => Before(a, c)
  <2> SUFFICES ASSUME NEW a \in Row, NEW b \in Row, NEW c \in Row,
                      Before(a, b), Before(b, c)
               PROVE  Before(a, c)
    OBVIOUS
  <2>1. /\ a[1] \in Nat /\ a[2] \in Nat /\ b[1] \in Nat /\ b[2] \in Nat
        /\ c[1] \in Nat /\ c[2] \in Nat
    BY PaginationAssumption DEF Row
  <2>2. QED
    BY <2>1 DEF Before
<1>3. \A a \in Row : ~Before(a, a)
  <2> SUFFICES ASSUME NEW a \in Row PROVE ~Before(a, a)
    OBVIOUS
  <2>1. a[1] \in Nat /\ a[2] \in Nat
    BY PaginationAssumption DEF Row
  <2>2. QED
    BY <2>1 DEF Before
<1>4. QED
  BY <1>1, <1>2, <1>3

(* What one page does with the rows its query matched: they are returned,  *)
(* or lie beyond the new cursor, or are the row that the cursor encodes.   *)
LEMMA PageSplitsMatches ==
    ASSUME NEW matching, matching \subseteq Row, Fetch(matching)
    PROVE  \/ phase' = "done" /\ page' = matching /\ cursor' = NoCursor
                /\ boundary' = boundary
           \/ /\ phase' = "walking" /\ cursor' \in matching
              /\ boundary' = boundary \cup {cursor'}
              /\ page' = {k \in matching : Before(cursor', k)}
              /\ \A k \in matching \ page' : k = cursor' \/ Before(k, cursor')
<1>1. CASE phase' = "done"
  BY <1>1 DEF Fetch
<1>2. CASE phase' # "done"
  <2>1. PICK next \in matching :
           /\ page' = {k \in matching : Before(next, k)}
           /\ cursor' = next
           /\ phase' = "walking"
           /\ boundary' = boundary \cup {next}
    BY <1>2 DEF Fetch
  <2>2. \A k \in matching \ page' : k = cursor' \/ Before(k, cursor')
    BY <2>1, TotalOrder
  <2>3. QED
    BY <2>1, <2>2
<1>3. QED
  BY <1>1, <1>2

-----------------------------------------------------------------------------
(* The cursor lies beyond everything returned, and what the walk has       *)
(* passed without returning it is a row that a cursor encoded.             *)
WalkInv ==
    /\ WalkTypeOK
    /\ phase = "idle" => seen = {} /\ steady = {}
    /\ phase = "walking" =>
         /\ \A b \in seen : Before(cursor, b)
         /\ \A k \in steady \ seen : k \in boundary \/ Before(k, cursor)
    /\ OnlyBoundaryRowsLost

LEMMA WalkInvInit == WalkInit => WalkInv
  BY DEF WalkInit, WalkInv, WalkTypeOK, OnlyBoundaryRowsLost

LEMMA WalkInvStep ==
    ASSUME WalkInv, [WalkNext]_walkVars
    PROVE  WalkInv'
<1> USE PaginationAssumption
<1> USE DEF WalkInv, WalkTypeOK, OnlyBoundaryRowsLost
<1>1. CASE FirstPage
  <2>1. /\ phase = "idle" /\ Fetch(rows)
        /\ steady' = rows /\ seen' = page' /\ rows' = rows
    BY <1>1 DEF FirstPage
  <2>2. rows \subseteq Row /\ boundary \subseteq Row /\ NoCursor \notin Row
    BY DEF Row
  <2>3. CASE phase' = "done" /\ page' = rows /\ cursor' = NoCursor
               /\ boundary' = boundary
    BY <2>1, <2>2, <2>3
  <2>4. CASE /\ phase' = "walking" /\ cursor' \in rows
             /\ boundary' = boundary \cup {cursor'}
             /\ page' = {k \in rows : Before(cursor', k)}
             /\ \A k \in rows \ page' : k = cursor' \/ Before(k, cursor')
    BY <2>1, <2>2, <2>4
  <2>5. QED
    BY <2>1, <2>2, <2>3, <2>4, PageSplitsMatches
<1>2. CASE NextPage
  <2>1. /\ phase = "walking" /\ Fetch(Beyond(cursor))
        /\ seen' = seen \cup page' /\ rows' = rows /\ steady' = steady
    BY <1>2 DEF NextPage
  <2>2. /\ Beyond(cursor) \subseteq Row /\ boundary \subseteq Row
        /\ NoCursor \notin Row /\ cursor \in Row
        /\ \A k \in Beyond(cursor) : Before(k, cursor)
        /\ \A k \in steady : Before(k, cursor) => k \in Beyond(cursor)
    BY <2>1 DEF Beyond, Row
  <2>3. CASE phase' = "done" /\ page' = Beyond(cursor) /\ cursor' = NoCursor
               /\ boundary' = boundary
    BY <2>1, <2>2, <2>3
  <2>4. CASE /\ phase' = "walking" /\ cursor' \in Beyond(cursor)
             /\ boundary' = boundary \cup {cursor'}
             /\ page' = {k \in Beyond(cursor) : Before(cursor', k)}
             /\ \A k \in Beyond(cursor) \ page' :
                   k = cursor' \/ Before(k, cursor')
    <3>1. \A b \in seen' : Before(cursor', b)
      BY <2>1, <2>2, <2>4, TotalOrder
    <3>2. \A k \in steady' \ seen' : k \in boundary' \/ Before(k, cursor')
      BY <2>1, <2>2, <2>4
    <3>3. QED
      BY <2>1, <2>2, <2>4, <3>1, <3>2
  <2>5. QED
    BY <2>1, <2>2, <2>3, <2>4, PageSplitsMatches
<1>3. ASSUME NEW k \in Row, Appear(k)
      PROVE  WalkInv'
  BY <1>3 DEF Appear
<1>4. ASSUME NEW k \in Row, Disappear(k)
      PROVE  WalkInv'
  BY <1>4 DEF Disappear
<1>5. CASE UNCHANGED walkVars
  BY <1>5 DEF walkVars
<1>6. QED
  BY <1>1, <1>2, <1>3, <1>4, <1>5 DEF WalkNext

LEMMA WalkInvariance == WalkSpec => []WalkInv
  BY WalkInvInit, WalkInvStep, PTL DEF WalkSpec

(* Every variable keeps its type.                                          *)
THEOREM WalkTypeCorrect == WalkSpec => []WalkTypeOK
  BY WalkInvariance, PTL DEF WalkInv

(* Of the rows that were listable throughout a finished walk, only those   *)
(* that a cursor encoded can be missing.                                   *)
THEOREM LossIsBounded == WalkSpec => []OnlyBoundaryRowsLost
  BY WalkInvariance, PTL DEF WalkInv

(* No row is returned twice and pages come in order, whatever is inserted  *)
(* or deleted between them.                                                *)
THEOREM WalkDescends == WalkSpec => PagesDescend
<1>1. WalkInv /\ [WalkNext]_walkVars
        => [seen # {} /\ page' # page
              => \A a \in page', b \in seen : Before(a, b)]_walkVars
  <2> SUFFICES ASSUME WalkInv, WalkNext, seen # {}, page' # page,
                      NEW a \in page', NEW b \in seen
               PROVE  Before(a, b)
    OBVIOUS
  <2>1. NextPage
    BY DEF WalkNext, FirstPage, Appear, Disappear, WalkInv
  <2>2. /\ phase = "walking" /\ cursor \in Row /\ b \in Row
        /\ Before(cursor, b) /\ Fetch(Beyond(cursor))
        /\ Beyond(cursor) \subseteq Row
    BY <2>1 DEF NextPage, WalkInv, WalkTypeOK, Beyond
  <2>3. a \in Row /\ Before(a, cursor)
    BY <2>2 DEF Fetch, Beyond
  <2>4. QED
    BY <2>2, <2>3, TotalOrder
<1>2. QED
  BY <1>1, WalkInvariance, PTL DEF WalkSpec, PagesDescend
=============================================================================
