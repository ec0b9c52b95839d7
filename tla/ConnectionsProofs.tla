------------------------- MODULE ConnectionsProofs -------------------------
(***************************************************************************)
(* Proofs about Connections for every set of connections, addresses,       *)
(* channels and threads.                                                   *)
(*                                                                         *)
(* Eviction and the sweep of krs_server_stop keep at most MaxEvictions     *)
(* connections for finalisation in one cycle and forget the others, so     *)
(* nothing holds of a server where more of them are due at a time.  The    *)
(* theorems are about the behaviours in which that never happens; the      *)
(* number of connections is not bounded otherwise.                         *)
(***************************************************************************)
EXTENDS Connections, FiniteSetTheorems, TLAPS

\* No more connections go stale at a time, and no more are left when the
\* server stops, than one cycle can finalise.
BatchSuffices ==
    /\ Cardinality(Listed \cap quiet) <= MaxEvictions
    /\ ~running => Cardinality(Listed) <= MaxEvictions

\* The senders that hold a reference, and whether the lists' reference to
\* the connection is still to be given up.
Holders(c) == {s \in Senders : c \in holds[s]}
Orphaned(c) == \E t \in Threads : c \in orphans[t]
Owned(c) == c \in Listed \/ Orphaned(c)

\* A thread that is not finalising has nothing to finalise, and a handler
\* that creates a connection has created it.
ThreadsOK ==
    \A t \in Threads :
        /\ pc[t] \notin {"unmap", "release"} => orphans[t] = {}
        /\ pc[t] \in {"put", "ack", "callback"} => newconn[t] \in Created

\* A connection is created, listed, then finalised by exactly one thread.
Life ==
    \A c \in Conns :
        /\ c \notin Created => ~Owned(c) /\ closed[c] = 0
        /\ c \in Listed => ~Orphaned(c)
        /\ Owned(c) => closed[c] = 0
        /\ c \in Created /\ ~Owned(c) => closed[c] = 1
        /\ \A t, u \in Threads : c \in orphans[t] \cap orphans[u] => t = u

\* One reference for each sender that holds the connection and one for the
\* lists; only created connections are held.
Refs ==
    \A c \in Conns :
        /\ IsFiniteSet(Holders(c))
        /\ refcount[c] = Cardinality(Holders(c)) + (IF Owned(c) THEN 1 ELSE 0)
        /\ c \notin Created => Holders(c) = {}

\* What the map holds is listed or on its way out of the map.
MapOK ==
    /\ map \subseteq Created
    /\ \A c \in map \ late : c \in Listed \/ ToUnmap(c)

\* A freed connection has no reference left.
FreedOK ==
    /\ freed \subseteq Created
    /\ \A c \in freed \ late : refcount[c] = 0

IInv ==
    /\ TypeOK /\ IsFiniteSet(Listed) /\ ThreadsOK
    /\ Life /\ Refs /\ MapOK /\ FreedOK

\* krs_server_stop does nothing before it has cleared running.
StopperIdle == running => pc[Stopper] = "idle"
-----------------------------------------------------------------------------
(* Facts about the invariant's parts.                                      *)

\* Being listed means being on some channel's list.
LEMMA InListed ==
    /\ \A c : c \in Listed <=> \E ch \in Channels : c \in chans[ch]
    /\ \A c : c \in Listed' <=> \E ch \in Channels : c \in chans'[ch]
BY DEF Listed

\* What is listed, orphaned or held has been created.
LEMMA CreatedFirst ==
    ASSUME IInv
    PROVE  /\ Listed \subseteq Created
           /\ \A t \in Threads : orphans[t] \subseteq Created
           /\ \A s \in Senders : holds[s] \subseteq Created
           /\ Created \subseteq Conns
<1>1. Listed \subseteq Conns
  BY InListed DEF IInv, TypeOK
<1>2. Listed \subseteq Created
  BY <1>1 DEF IInv, Life, Owned
<1>3. ASSUME NEW t \in Threads, NEW c \in orphans[t] PROVE c \in Created
  <2>1. c \in Conns /\ Orphaned(c)
    BY <1>3 DEF IInv, TypeOK, Orphaned
  <2>2. QED BY <2>1 DEF IInv, Life, Owned
<1>4. ASSUME NEW s \in Senders, NEW c \in holds[s] PROVE c \in Created
  <2>1. c \in Conns /\ s \in Holders(c)
    BY <1>4 DEF IInv, TypeOK, Holders
  <2>2. QED BY <2>1 DEF IInv, Refs
<1>5. QED BY <1>2, <1>3, <1>4 DEF Created

\* A connection that is owned or held has a reference to give up.
LEMMA HasReference ==
    ASSUME IInv, NEW c \in Conns, Owned(c) \/ \E s \in Senders : c \in holds[s]
    PROVE  refcount[c] \in Nat /\ refcount[c] >= 1
<1>1. /\ IsFiniteSet(Holders(c))
      /\ refcount[c] = Cardinality(Holders(c)) + (IF Owned(c) THEN 1 ELSE 0)
  BY DEF IInv, Refs
<1>2. Cardinality(Holders(c)) \in Nat
  BY <1>1, FS_CardinalityType
<1>3. CASE Owned(c)
  BY <1>1, <1>2, <1>3
<1>4. CASE ~Owned(c) /\ Holders(c) # {}
  <2>1. Cardinality(Holders(c)) # 0
    BY <1>1, <1>4, FS_EmptySet
  <2>2. refcount[c] = Cardinality(Holders(c)) + 0
    BY <1>1, <1>4
  <2> HIDE DEF Holders
  <2>3. QED BY <1>2, <2>1, <2>2
<1>5. Owned(c) \/ Holders(c) # {}
  BY DEF Holders
<1>6. QED BY <1>3, <1>4, <1>5

\* A step that moves no reference keeps the invariant: the lists name the
\* same connections, and nothing is added to the map.
LEMMA Unmoved ==
    ASSUME IInv, TypeOK', ThreadsOK', Listed' = Listed, map' \subseteq map,
           UNCHANGED <<remote, refcount, freed, orphans, holds, closed, late>>,
           \A c \in Conns : ToUnmap(c) => ToUnmap(c)'
    PROVE  IInv'
<1>1. Created' = Created /\ \A c : Holders(c)' = Holders(c)
  BY DEF Created, Holders
<1>2. \A c : (Orphaned(c)' <=> Orphaned(c)) /\ (Owned(c)' <=> Owned(c))
  BY DEF Orphaned, Owned
<1>3. IsFiniteSet(Listed)' /\ FreedOK'
  BY <1>1 DEF IInv, FreedOK
<1>4. Life'
  BY <1>1, <1>2 DEF IInv, Life
<1>5. Refs'
  BY <1>1, <1>2 DEF IInv, Refs
<1>6. MapOK'
  BY <1>1 DEF IInv, MapOK, TypeOK
<1>7. QED BY <1>3, <1>4, <1>5, <1>6 DEF IInv

\* Connections S move from the lists to a thread that has nothing else to
\* finalise: a disconnect, an eviction or a cycle of the sweep.
LEMMA Removed ==
    ASSUME IInv, TypeOK', NEW t \in Threads, pc[t] \notin {"unmap", "release"},
           NEW S, S \subseteq Listed, Listed' = Listed \ S, Orphans(t, S),
           UNCHANGED <<remote, refcount, freed, map, newconn, holds, closed, late>>
    PROVE  IInv'
<1>0. /\ orphans \in [Threads -> SUBSET Conns] /\ DOMAIN pc = Threads
      /\ Listed \subseteq Conns /\ orphans[t] = {}
  BY InListed DEF IInv, TypeOK, ThreadsOK
<1>1. Created' = Created /\ \A c : Holders(c)' = Holders(c)
  BY DEF Created, Holders
<1>2. /\ orphans'[t] = S
      /\ \A u \in Threads \ {t} : orphans'[u] = orphans[u] /\ pc'[u] = pc[u]
      /\ S # {} => pc'[t] = "unmap"
      /\ S = {} => pc'[t] = "idle"
  BY <1>0 DEF Orphans
<1>3. \A c : Orphaned(c)' <=> Orphaned(c) \/ c \in S
  BY <1>0, <1>2 DEF Orphaned
<1>4. \A c : Owned(c)' <=> Owned(c)
  BY <1>3 DEF Owned
<1>5. IsFiniteSet(Listed)'
  BY FS_Subset DEF IInv
<1>6. ThreadsOK'
  BY <1>1, <1>2 DEF IInv, ThreadsOK
<1>7. Life'
  <2> SUFFICES ASSUME NEW c \in Conns
               PROVE  /\ c \in Listed' => ~Orphaned(c)'
                      /\ \A u, v \in Threads : c \in orphans'[u] \cap orphans'[v] => u = v
    BY <1>1, <1>4 DEF IInv, Life
  <2>1. c \in Listed' => ~Orphaned(c)'
    BY <1>3 DEF IInv, Life
  <2>2. c \in S => ~Orphaned(c)
    BY DEF IInv, Life
  <2>3. QED BY <1>2, <2>1, <2>2 DEF IInv, Life, Orphaned
<1>8. Refs'
  BY <1>1, <1>4 DEF IInv, Refs
<1>9. MapOK'
  <2>1. ASSUME NEW c \in Conns, ToUnmap(c) PROVE ToUnmap(c)'
    BY <1>2, <2>1 DEF ToUnmap
  <2>2. \A c \in S : ToUnmap(c)'
    BY <1>2 DEF ToUnmap
  <2>3. QED BY <1>1, <2>1, <2>2 DEF IInv, MapOK, TypeOK
<1>10. FreedOK'
  BY <1>1 DEF IInv, FreedOK
<1>11. QED BY <1>5, <1>6, <1>7, <1>8, <1>9, <1>10 DEF IInv

\* Taking S off every list leaves the others where they were.
LEMMA UnlistRemoves ==
    ASSUME NEW S, Unlist(S)
    PROVE  Listed' = Listed \ S
BY InListed DEF Unlist

\* A part of a finite set that has its size is the whole.
LEMMA WholeBatch ==
    ASSUME NEW S, IsFiniteSet(S), NEW K \in SUBSET S, Cardinality(S) <= MaxEvictions,
           Cardinality(K) = IF Cardinality(S) < MaxEvictions
                            THEN Cardinality(S) ELSE MaxEvictions
    PROVE  K = S
<1>1. Cardinality(S) \in Nat
  BY FS_CardinalityType
<1>2. Cardinality(K) = Cardinality(S)
  BY <1>1, ConnectionsAssumption
<1>3. QED BY <1>2, FS_Subset
-----------------------------------------------------------------------------
(* The steps that move references.                                         *)

\* krs_connection_map_acquire and the snapshot of a broadcast.
LEMMA HoldStep ==
    ASSUME IInv, TypeOK', NEW s \in Senders, holds[s] = {}, NEW S,
           S \subseteq Listed \cup map, Hold(s, S),
           UNCHANGED <<chans, remote, freed, map, pc, newconn, orphans, closed, late>>
    PROVE  IInv'
<1>0. /\ holds \in [Senders -> SUBSET Conns] /\ S \subseteq Created
      /\ refcount \in [Conns -> Nat]
  BY CreatedFirst DEF IInv, TypeOK, MapOK
<1>1. Listed' = Listed /\ Created' = Created
  BY DEF Listed, Created
<1>2. \A c : /\ Orphaned(c)' <=> Orphaned(c)
             /\ Owned(c)' <=> Owned(c)
             /\ ToUnmap(c)' <=> ToUnmap(c)
  BY <1>1 DEF Orphaned, Owned, ToUnmap
<1>3. ThreadsOK' /\ Life' /\ MapOK' /\ IsFiniteSet(Listed)'
  BY <1>1, <1>2 DEF IInv, ThreadsOK, Life, MapOK
<1>4. holds' = [holds EXCEPT ![s] = S]
  BY DEF Hold
<1>5. \A c \in Conns : Holders(c)' = IF c \in S THEN Holders(c) \cup {s} ELSE Holders(c)
  BY <1>0, <1>4 DEF Holders
<1>6. Refs'
  <2> SUFFICES ASSUME NEW c \in Conns
               PROVE  /\ IsFiniteSet(Holders(c)')
                      /\ refcount'[c] = Cardinality(Holders(c)') + (IF Owned(c) THEN 1 ELSE 0)
                      /\ c \notin Created => Holders(c)' = {}
    BY <1>1, <1>2 DEF Refs
  <2>1. /\ IsFiniteSet(Holders(c))
        /\ refcount[c] = Cardinality(Holders(c)) + (IF Owned(c) THEN 1 ELSE 0)
        /\ c \notin Created => Holders(c) = {}
    BY DEF IInv, Refs
  <2>2. CASE c \in S
    <3>1. s \notin Holders(c)
      BY DEF Holders
    <3>2. /\ IsFiniteSet(Holders(c) \cup {s})
          /\ Cardinality(Holders(c) \cup {s}) = Cardinality(Holders(c)) + 1
      BY <2>1, <3>1, FS_AddElement
    <3>3. refcount'[c] = refcount[c] + 1
      BY <2>2 DEF Hold
    <3>4. Cardinality(Holders(c)) \in Nat
      BY <2>1, FS_CardinalityType
    <3>5. Holders(c)' = Holders(c) \cup {s}
      BY <1>5, <2>2
    <3>6. refcount'[c] = (Cardinality(Holders(c)) + 1) + (IF Owned(c) THEN 1 ELSE 0)
      BY <2>1, <3>3, <3>4
    <3>7. QED BY <1>0, <2>2, <3>2, <3>5, <3>6
  <2>3. CASE c \notin S
    <3>1. refcount'[c] = refcount[c] /\ Holders(c)' = Holders(c)
      BY <1>5, <2>3 DEF Hold
    <3>2. QED BY <2>1, <3>1
  <2>4. QED BY <2>2, <2>3
<1>7. FreedOK'
  <2> SUFFICES ASSUME NEW c \in freed \ late PROVE refcount'[c] = 0
    BY <1>1 DEF IInv, FreedOK
  <2>1. c \in Conns /\ refcount[c] = 0
    BY CreatedFirst DEF IInv, FreedOK
  <2>2. c \in S => Owned(c)
    BY DEF IInv, MapOK, Owned, ToUnmap, Orphaned
  <2>3. c \notin S
    BY <2>1, <2>2, HasReference
  <2>4. QED BY <2>1, <2>3 DEF Hold
<1>8. QED BY <1>3, <1>6, <1>7 DEF IInv

\* Release leaves every count natural.
LEMMA ReleaseType ==
    ASSUME IInv, NEW S \in SUBSET Conns, Release(S),
           \A c \in S : Owned(c) \/ \E s \in Senders : c \in holds[s]
    PROVE  refcount' \in [Conns -> Nat]
<1>1. refcount \in [Conns -> Nat]
  BY DEF IInv, TypeOK
<1>2. \A c \in S : refcount[c] - 1 \in Nat
  BY HasReference
<1>3. QED BY <1>1, <1>2 DEF Release

\* Only what nobody refers to any more is freed.
LEMMA ReleasedFreed ==
    ASSUME IInv, NEW S \in SUBSET Created, Release(S), late' = late, Created' = Created,
           \A c \in S : Owned(c) \/ \E s \in Senders : c \in holds[s]
    PROVE  FreedOK'
<1>0. Created \subseteq Conns /\ refcount \in [Conns -> Nat]
  BY CreatedFirst DEF IInv, TypeOK
<1>1. freed' \subseteq Created
  BY DEF Release, IInv, FreedOK
<1>2. ASSUME NEW c \in freed' \ late PROVE refcount'[c] = 0
  <2>1. CASE c \in S /\ refcount[c] = 1
    BY <1>0, <2>1 DEF Release
  <2>2. CASE c \in freed
    <3>1. c \in Conns /\ refcount[c] = 0
      BY <1>0, <1>2, <2>2 DEF IInv, FreedOK
    <3>2. c \notin S
      BY <3>1, HasReference
    <3>3. QED BY <3>1, <3>2 DEF Release
  <2>3. QED BY <1>2, <2>1, <2>2 DEF Release
<1>3. QED BY <1>1, <1>2 DEF FreedOK

\* krs_connection_map_release at the end of a send.
LEMMA SendEndStep ==
    ASSUME IInv, TypeOK', NEW s \in Senders, SendEnd(s)
    PROVE  IInv'
<1>0. /\ holds \in [Senders -> SUBSET Conns] /\ holds[s] \subseteq Created
      /\ UNCHANGED <<chans, remote, map, pc, newconn, orphans, closed, late>>
      /\ holds' = [holds EXCEPT ![s] = {}]
      /\ Release(holds[s])
  BY CreatedFirst DEF IInv, TypeOK, SendEnd, seen
<1>1. Listed' = Listed /\ Created' = Created
  BY <1>0 DEF Listed, Created
<1>2. \A c : /\ Orphaned(c)' <=> Orphaned(c)
             /\ Owned(c)' <=> Owned(c)
             /\ ToUnmap(c)' <=> ToUnmap(c)
  BY <1>0, <1>1 DEF Orphaned, Owned, ToUnmap
<1>3. ThreadsOK' /\ Life' /\ MapOK' /\ IsFiniteSet(Listed)'
  BY <1>0, <1>1, <1>2 DEF IInv, ThreadsOK, Life, MapOK
<1>5. \A c \in Conns : Holders(c)' = IF c \in holds[s] THEN Holders(c) \ {s} ELSE Holders(c)
  BY <1>0 DEF Holders
<1>6. Refs'
  <2> SUFFICES ASSUME NEW c \in Conns
               PROVE  /\ IsFiniteSet(Holders(c)')
                      /\ refcount'[c] = Cardinality(Holders(c)') + (IF Owned(c) THEN 1 ELSE 0)
                      /\ c \notin Created => Holders(c)' = {}
    BY <1>1, <1>2 DEF Refs
  <2>1. /\ IsFiniteSet(Holders(c))
        /\ refcount[c] = Cardinality(Holders(c)) + (IF Owned(c) THEN 1 ELSE 0)
        /\ c \notin Created => Holders(c) = {}
    BY DEF IInv, Refs
  <2>2. CASE c \in holds[s]
    <3>1. s \in Holders(c)
      BY <2>2 DEF Holders
    <3>2. /\ IsFiniteSet(Holders(c) \ {s})
          /\ Cardinality(Holders(c) \ {s}) = Cardinality(Holders(c)) - 1
      BY <2>1, <3>1, FS_RemoveElement
    <3>3. refcount'[c] = refcount[c] - 1
      BY <1>0, <2>2 DEF Release
    <3>4. Cardinality(Holders(c)) \in Nat
      BY <2>1, FS_CardinalityType
    <3>5. Holders(c)' = Holders(c) \ {s}
      BY <1>5, <2>2
    <3>6. refcount'[c] = (Cardinality(Holders(c)) - 1) + (IF Owned(c) THEN 1 ELSE 0)
      BY <2>1, <3>3, <3>4
    <3>7. QED BY <1>0, <2>2, <3>2, <3>5, <3>6
  <2>3. CASE c \notin holds[s]
    <3>1. refcount'[c] = refcount[c] /\ Holders(c)' = Holders(c)
      BY <1>0, <1>5, <2>3 DEF Release
    <3>2. QED BY <2>1, <3>1
  <2>4. QED BY <2>2, <2>3
<1>7. FreedOK'
  BY <1>0, <1>1, ReleasedFreed
<1>8. QED BY <1>3, <1>6, <1>7 DEF IInv

\* A handler puts a new connection on channel 0.
LEMMA CreateStep ==
    ASSUME IInv, TypeOK', NEW h \in Handlers, NEW a \in Addrs, NEW c \in Conns,
           ConnectCreate(h, a, c)
    PROVE  IInv'
<1>0. /\ h \in Threads /\ 0 \in Channels /\ pc[h] = "idle" /\ c \notin Created
      /\ chans \in [Channels -> SUBSET Conns] /\ DOMAIN pc = Threads
      /\ DOMAIN newconn = Threads
      /\ remote \in [Conns -> Addrs \cup {NoConn}] /\ refcount \in [Conns -> Nat]
  BY DEF Threads, Workers, Channels, ConnectCreate, Takes, IInv, TypeOK
<1>1. /\ remote' = [remote EXCEPT ![c] = a] /\ refcount' = [refcount EXCEPT ![c] = 1]
      /\ chans' = [chans EXCEPT ![0] = @ \cup {c}]
      /\ newconn' = [newconn EXCEPT ![h] = c] /\ pc' = [pc EXCEPT ![h] = "put"]
      /\ UNCHANGED <<freed, map, orphans, holds, closed, late>>
  BY DEF ConnectCreate, seen
<1>2. Listed' = Listed \cup {c}
  BY <1>0, <1>1, InListed
<1>3. Created' = Created \cup {c}
  BY <1>0, <1>1, ConnectionsAssumption DEF Created
<1>4. \A d : Holders(d)' = Holders(d) /\ (Orphaned(d)' <=> Orphaned(d))
  BY <1>1 DEF Holders, Orphaned
<1>5. ~Owned(c) /\ closed[c] = 0 /\ Holders(c) = {}
  BY <1>0 DEF IInv, Life, Refs
<1>6. IsFiniteSet(Listed)'
  BY <1>2, FS_AddElement DEF IInv
<1>7. ThreadsOK'
  <2>1. newconn'[h] = c /\ pc'[h] = "put" /\ orphans[h] = {}
    BY <1>0, <1>1 DEF IInv, ThreadsOK
  <2>2. \A t \in Threads \ {h} : newconn'[t] = newconn[t] /\ pc'[t] = pc[t]
    BY <1>0, <1>1
  <2>3. QED BY <1>1, <1>3, <2>1, <2>2 DEF IInv, ThreadsOK
<1>8. Life'
  BY <1>1, <1>2, <1>3, <1>4, <1>5 DEF IInv, Life, Owned
<1>9. Refs'
  <2> SUFFICES ASSUME NEW d \in Conns
               PROVE  /\ IsFiniteSet(Holders(d))
                      /\ refcount'[d] = Cardinality(Holders(d)) + (IF Owned(d)' THEN 1 ELSE 0)
                      /\ d \notin Created' => Holders(d) = {}
    BY <1>4 DEF Refs
  <2>1. CASE d = c
    <3>1. Holders(d) = {} /\ refcount'[d] = 1 /\ Owned(d)' /\ d \in Created'
      BY <1>0, <1>1, <1>2, <1>3, <1>5, <2>1 DEF Owned
    <3>2. IsFiniteSet(Holders(d)) /\ Cardinality(Holders(d)) = 0
      BY <3>1, FS_EmptySet
    <3>3. QED BY <3>1, <3>2
  <2>2. CASE d # c
    <3>1. refcount'[d] = refcount[d] /\ (Owned(d)' <=> Owned(d)) /\ (d \in Created' <=> d \in Created)
      BY <1>0, <1>1, <1>2, <1>3, <1>4, <2>2 DEF Owned
    <3>2. QED BY <3>1 DEF IInv, Refs
  <2>3. QED BY <2>1, <2>2
<1>10. MapOK'
  <2>1. \A d : ToUnmap(d) => ToUnmap(d)'
    BY <1>0, <1>1 DEF ToUnmap
  <2>2. QED BY <1>1, <1>2, <1>3, <2>1 DEF IInv, MapOK
<1>11. FreedOK'
  BY <1>0, <1>1, <1>3, CreatedFirst DEF IInv, FreedOK
<1>12. QED BY <1>6, <1>7, <1>8, <1>9, <1>10, <1>11 DEF IInv

\* The handler puts the connection it created into the map.
LEMMA PutStep ==
    ASSUME IInv, TypeOK', NEW h \in Handlers, ConnectPut(h)
    PROVE  IInv'
<1> DEFINE n == newconn[h]
<1>0. /\ h \in Threads /\ pc[h] = "put" /\ n \in Created /\ DOMAIN pc = Threads
      /\ Created \subseteq Conns
  BY CreatedFirst DEF Threads, Workers, ConnectPut, IInv, TypeOK, ThreadsOK
<1>1. /\ map' = map \cup {n}
      /\ n \in Listed \/ ToUnmap(n) \/ n \in late'
      /\ late \subseteq late'
      /\ pc' = [pc EXCEPT ![h] = "ack"]
      /\ UNCHANGED <<chans, remote, refcount, freed, newconn, orphans, holds, closed>>
  BY DEF ConnectPut
<1>2. Listed' = Listed /\ Created' = Created
  BY <1>1 DEF Listed, Created
<1>3. \A c : /\ Holders(c)' = Holders(c)
             /\ Orphaned(c)' <=> Orphaned(c)
             /\ Owned(c)' <=> Owned(c)
  BY <1>1, <1>2 DEF Holders, Orphaned, Owned
<1>4. ThreadsOK'
  BY <1>0, <1>1, <1>2 DEF IInv, ThreadsOK
<1>5. Life' /\ Refs' /\ IsFiniteSet(Listed)'
  BY <1>1, <1>2, <1>3 DEF IInv, Life, Refs
<1>6. \A c : ToUnmap(c) => ToUnmap(c)'
  BY <1>0, <1>1 DEF ToUnmap
<1>7. MapOK'
  BY <1>0, <1>1, <1>2, <1>6 DEF IInv, MapOK
<1>8. FreedOK'
  BY <1>1, <1>2 DEF IInv, FreedOK
<1>9. QED BY <1>4, <1>5, <1>7, <1>8 DEF IInv

\* The orphans of a thread leave the map.
LEMMA UnmapStep ==
    ASSUME IInv, TypeOK', NEW t \in Threads, Unmap(t)
    PROVE  IInv'
<1>1. /\ pc[t] = "unmap" /\ pc' = [pc EXCEPT ![t] = "release"] /\ DOMAIN pc = Threads
      /\ map' = map \ orphans[t]
      /\ UNCHANGED <<chans, remote, refcount, freed, newconn, orphans, holds, closed, late>>
  BY DEF Unmap, seen, IInv, TypeOK
<1>2. Listed' = Listed /\ Created' = Created
  BY <1>1 DEF Listed, Created
<1>3. \A c : /\ Holders(c)' = Holders(c)
             /\ Orphaned(c)' <=> Orphaned(c)
             /\ Owned(c)' <=> Owned(c)
  BY <1>1, <1>2 DEF Holders, Orphaned, Owned
<1>4. ThreadsOK'
  BY <1>1, <1>2 DEF IInv, ThreadsOK
<1>5. Life' /\ Refs' /\ IsFiniteSet(Listed)'
  BY <1>1, <1>2, <1>3 DEF IInv, Life, Refs
<1>6. \A c : ToUnmap(c) /\ c \notin orphans[t] => ToUnmap(c)'
  BY <1>1 DEF ToUnmap
<1>7. MapOK'
  BY <1>1, <1>2, <1>6 DEF IInv, MapOK
<1>8. FreedOK'
  BY <1>1, <1>2 DEF IInv, FreedOK
<1>9. QED BY <1>4, <1>5, <1>7, <1>8 DEF IInv

\* The thread gives up the lists' reference of each of its orphans.
LEMMA FinaliseStep ==
    ASSUME IInv, TypeOK', NEW t \in Threads, Finalise(t)
    PROVE  IInv'
<1>0. /\ orphans \in [Threads -> SUBSET Conns] /\ DOMAIN pc = Threads
      /\ refcount \in [Conns -> Nat]
      /\ orphans[t] \subseteq Created /\ pc[t] = "release"
      /\ \A c \in orphans[t] : Orphaned(c) /\ Owned(c) /\ c \notin Listed /\ c \in Conns
  BY CreatedFirst DEF IInv, TypeOK, Finalise, Orphaned, Owned, Life
<1>1. /\ Release(orphans[t])
      /\ closed' = [c \in Conns |-> IF c \in orphans[t] THEN closed[c] + 1 ELSE closed[c]]
      /\ orphans' = [orphans EXCEPT ![t] = {}]
      /\ pc'[t] \in {"sweep", "idle"}
      /\ \A u \in Threads \ {t} : pc'[u] = pc[u]
      /\ UNCHANGED <<chans, remote, map, newconn, holds, late>>
  BY <1>0 DEF Finalise
<1>2. Listed' = Listed /\ Created' = Created /\ \A c : Holders(c)' = Holders(c)
  BY <1>1 DEF Listed, Created, Holders
<1>3. orphans'[t] = {} /\ \A u \in Threads \ {t} : orphans'[u] = orphans[u]
  BY <1>0, <1>1
<1>4. \A c \in Conns : Orphaned(c)' <=> Orphaned(c) /\ c \notin orphans[t]
  BY <1>3 DEF IInv, Life, Orphaned
<1>5. \A c \in Conns : Owned(c)' <=> Owned(c) /\ c \notin orphans[t]
  BY <1>0, <1>2, <1>4 DEF Owned
<1>6. ThreadsOK'
  BY <1>1, <1>2, <1>3 DEF IInv, ThreadsOK
<1>7. Life'
  <2> SUFFICES ASSUME NEW c \in Conns
               PROVE  /\ c \notin Created => ~Owned(c)' /\ closed'[c] = 0
                      /\ c \in Listed => ~Orphaned(c)'
                      /\ Owned(c)' => closed'[c] = 0
                      /\ c \in Created /\ ~Owned(c)' => closed'[c] = 1
                      /\ \A u, v \in Threads : c \in orphans'[u] \cap orphans'[v] => u = v
    BY <1>2 DEF Life
  <2>1. CASE c \in orphans[t]
    <3>1. closed[c] = 0 /\ closed'[c] = closed[c] + 1
      BY <1>0, <1>1, <2>1 DEF IInv, Life
    <3>2. QED BY <1>0, <1>3, <1>4, <1>5, <2>1, <3>1 DEF IInv, Life
  <2>2. CASE c \notin orphans[t]
    <3>1. closed'[c] = closed[c]
      BY <1>1, <2>2
    <3>2. QED BY <1>3, <1>4, <1>5, <2>2, <3>1 DEF IInv, Life
  <2>3. QED BY <2>1, <2>2
<1>8. Refs'
  <2> SUFFICES ASSUME NEW c \in Conns
               PROVE  refcount'[c] = Cardinality(Holders(c)) + (IF Owned(c)' THEN 1 ELSE 0)
    BY <1>2 DEF IInv, Refs
  <2>1. /\ refcount[c] = Cardinality(Holders(c)) + (IF Owned(c) THEN 1 ELSE 0)
        /\ Cardinality(Holders(c)) \in Nat
    BY FS_CardinalityType DEF IInv, Refs
  <2>2. CASE c \in orphans[t]
    <3>1. refcount'[c] = refcount[c] - 1 /\ Owned(c) /\ ~Owned(c)'
      BY <1>0, <1>1, <1>5, <2>2 DEF Release
    <3>2. QED BY <2>1, <3>1
  <2>3. CASE c \notin orphans[t]
    <3>1. refcount'[c] = refcount[c] /\ (Owned(c)' <=> Owned(c))
      BY <1>1, <1>5, <2>3 DEF Release
    <3>2. QED BY <2>1, <3>1
  <2>4. QED BY <2>2, <2>3
<1>9. MapOK'
  <2>1. \A c : ToUnmap(c) => ToUnmap(c)'
    BY <1>0, <1>1, <1>3 DEF ToUnmap
  <2>2. QED BY <1>1, <1>2, <2>1 DEF IInv, MapOK
<1>10. FreedOK'
  BY <1>0, <1>1, <1>2, ReleasedFreed
<1>11. IsFiniteSet(Listed)'
  BY <1>2 DEF IInv
<1>12. QED BY <1>6, <1>7, <1>8, <1>9, <1>10, <1>11 DEF IInv
-----------------------------------------------------------------------------
(* The invariant is inductive.                                             *)

\* Initially there is no connection.
LEMMA InitIInv == Init => IInv /\ StopperIdle
<1> SUFFICES ASSUME Init PROVE IInv /\ StopperIdle
  OBVIOUS
<1> USE DEF Init
<1>1. TypeOK
  <2>1. started \in [Addrs -> 0 .. MaxSessions]
    BY ConnectionsAssumption
  <2>2. QED BY <2>1 DEF TypeOK
<1>2. Listed = {} /\ Created = {}
  BY InListed DEF Created
<1>3. \A c : Holders(c) = {} /\ ~Orphaned(c) /\ ~Owned(c)
  BY <1>2 DEF Holders, Orphaned, Owned
<1>4. ThreadsOK /\ MapOK /\ FreedOK /\ Life
  BY <1>2, <1>3 DEF ThreadsOK, MapOK, FreedOK, Life
<1>5. Refs
  <2>1. \A c : IsFiniteSet(Holders(c)) /\ Cardinality(Holders(c)) = 0
    BY <1>3, FS_EmptySet
  <2>2. \A c \in Conns : refcount[c] = 0
    OBVIOUS
  <2>3. QED BY <1>3, <2>1, <2>2 DEF Refs
<1>6. StopperIdle
  BY DEF StopperIdle, Threads
<1>7. QED BY <1>1, <1>2, <1>4, <1>5, <1>6, FS_EmptySet DEF IInv

\* The stopping thread after every step.
LEMMA StopperStep == IInv /\ StopperIdle /\ [Next]_vars => StopperIdle'
<1> SUFFICES ASSUME IInv, StopperIdle, [Next]_vars PROVE StopperIdle'
  OBVIOUS
<1> USE DEF peers, objects, threads, seen
<1>0. /\ DOMAIN pc = Threads /\ Stopper \notin Handlers /\ Stopper # Retransmitter
  BY ConnectionsAssumption DEF IInv, TypeOK, Workers
<1>1. CASE UNCHANGED <<pc, running>>
  BY <1>1 DEF StopperIdle
<1>2. ASSUME NEW t \in Threads, NEW v, running' = running,
             pc' = [pc EXCEPT ![t] = v], t # Stopper \/ pc[t] # "idle"
      PROVE  StopperIdle'
  BY <1>0, <1>2 DEF StopperIdle
<1>3. Handlers \subseteq Threads /\ Retransmitter \in Threads /\ Stopper \in Threads
  BY DEF Threads, Workers
<1>4. ASSUME NEW a \in Addrs,
             ClientConnect(a) \/ ClientGivesUp(a) \/ ClientDisconnect(a) \/ Heartbeat(a)
      PROVE  StopperIdle'
  BY <1>1, <1>4 DEF ClientConnect, ClientGivesUp, ClientDisconnect, Heartbeat
<1>5. ASSUME NEW a \in Addrs, NEW ch \in AppChannels,
             ClientAsks(a, "SUBSCRIBE", ch) \/ ClientAsks(a, "UNSUBSCRIBE", ch)
      PROVE  StopperIdle'
  BY <1>1, <1>5 DEF ClientAsks
<1>6. ASSUME NEW c \in Conns, HeartbeatsStop(c) PROVE StopperIdle'
  BY <1>1, <1>6 DEF HeartbeatsStop
<1>7. ASSUME NEW h \in Handlers, NEW a \in Addrs, ConnectAgain(h, a) \/ Disconnect(h, a)
      PROVE  StopperIdle'
  BY <1>0, <1>1, <1>2, <1>3, <1>7 DEF ConnectAgain, Disconnect, Orphans
<1>8. ASSUME NEW h \in Handlers, NEW a \in Addrs, NEW c \in Conns, ConnectCreate(h, a, c)
      PROVE  StopperIdle'
  BY <1>0, <1>2, <1>3, <1>8 DEF ConnectCreate
<1>9. ASSUME NEW h \in Handlers, NEW a \in Addrs, NEW ch \in AppChannels,
             Subscribe(h, a, ch) \/ Unsubscribe(h, a, ch)
      PROVE  StopperIdle'
  BY <1>1, <1>9 DEF Subscribe, Unsubscribe
<1>10. ASSUME NEW h \in Handlers, ConnectPut(h) \/ ConnectAck(h) \/ ConnectCallback(h)
       PROVE  StopperIdle'
  BY <1>0, <1>2, <1>3, <1>10 DEF ConnectPut, ConnectAck, ConnectCallback
<1>11. CASE Evict
  BY <1>0, <1>2, <1>3, <1>11 DEF Evict, Orphans
<1>12. CASE Stop
  BY <1>12 DEF Stop, StopperIdle
<1>13. CASE Sweep
  BY <1>2, <1>3, <1>13 DEF Sweep, Orphans
<1>14. CASE Stopped
  BY <1>2, <1>3, <1>14 DEF Stopped
<1>15. ASSUME NEW t \in Threads, Unmap(t) \/ Finalise(t) PROVE StopperIdle'
  BY <1>2, <1>15 DEF Unmap, Finalise
<1>16. ASSUME NEW s \in Senders, NEW c \in Conns, SendBegin(s, c) PROVE StopperIdle'
  BY <1>1, <1>16 DEF SendBegin
<1>17. ASSUME NEW s \in Senders, NEW ch \in AppChannels, NEW x \in Conns \cup {NoConn},
              BroadcastBegin(s, ch, x)
       PROVE  StopperIdle'
  BY <1>1, <1>17 DEF BroadcastBegin
<1>18. ASSUME NEW s \in Senders, SendEnd(s) PROVE StopperIdle'
  BY <1>1, <1>18 DEF SendEnd
<1>19. CASE UNCHANGED vars
  BY <1>1, <1>19 DEF vars
<1>20. QED
  BY <1>4, <1>5, <1>6, <1>7, <1>8, <1>9, <1>10, <1>11, <1>12, <1>13, <1>14, <1>15, <1>16,
     <1>17, <1>18, <1>19 DEF Next

\* Type correctness after every step.
LEMMA TypeStep == IInv /\ [Next]_vars => TypeOK'
<1> SUFFICES ASSUME IInv, [Next]_vars PROVE TypeOK'
  OBVIOUS
<1> USE DEF peers, objects, threads, seen
<1>0. TypeOK
  BY DEF IInv
<1>1. Handlers \subseteq Threads /\ Retransmitter \in Threads /\ Stopper \in Threads
  BY DEF Threads, Workers
<1>2. 0 \in Channels /\ AppChannels \subseteq Channels
  BY DEF Channels
<1>3. Listed \subseteq Conns
  BY <1>0, InListed DEF TypeOK
<1>4. \A S : Unlist(S) => chans' \in [Channels -> SUBSET Conns]
  BY <1>0 DEF Unlist, TypeOK
<1>5. ASSUME NEW t \in Threads, NEW S \in SUBSET Conns, Orphans(t, S)
      PROVE  /\ orphans' \in [Threads -> SUBSET Conns]
             /\ pc' \in [Threads -> {"idle", "put", "ack", "callback", "unmap", "release",
                                     "sweep", "stopped"}]
  BY <1>0, <1>5 DEF Orphans, TypeOK
<1>6. ASSUME NEW a \in Addrs, SocketAck(a)
      PROVE  client' \in [Addrs -> {"idle", "connecting", "connected"}]
  BY <1>0, <1>6 DEF SocketAck, TypeOK
<1>7. ASSUME NEW s \in Senders, NEW S \in SUBSET Conns, Hold(s, S)
      PROVE  holds' \in [Senders -> SUBSET Conns] /\ refcount' \in [Conns -> Nat]
  BY <1>0, <1>7 DEF Hold, TypeOK
<1>10. ASSUME NEW a \in Addrs, ClientConnect(a) PROVE TypeOK'
  <2>1. started' \in [Addrs -> 0 .. MaxSessions]
    BY <1>0, <1>10, ConnectionsAssumption DEF ClientConnect, TypeOK
  <2>2. QED BY <1>0, <1>10, <2>1 DEF ClientConnect, TypeOK
<1>11. ASSUME NEW a \in Addrs, ClientGivesUp(a) \/ ClientDisconnect(a) PROVE TypeOK'
  BY <1>0, <1>11 DEF ClientGivesUp, ClientDisconnect, TypeOK
<1>12. ASSUME NEW a \in Addrs, Heartbeat(a) PROVE TypeOK'
  BY <1>0, <1>12 DEF Heartbeat, TypeOK
<1>13. ASSUME NEW a \in Addrs, NEW ch \in AppChannels,
              ClientAsks(a, "SUBSCRIBE", ch) \/ ClientAsks(a, "UNSUBSCRIBE", ch)
       PROVE  TypeOK'
  BY <1>0, <1>13 DEF ClientAsks, TypeOK
<1>14. ASSUME NEW c \in Conns, HeartbeatsStop(c) PROVE TypeOK'
  BY <1>0, <1>14 DEF HeartbeatsStop, TypeOK
<1>15. ASSUME NEW h \in Handlers, NEW a \in Addrs, ConnectAgain(h, a) PROVE TypeOK'
  BY <1>0, <1>6, <1>15 DEF ConnectAgain, TypeOK
<1>16. ASSUME NEW h \in Handlers, NEW a \in Addrs, Disconnect(h, a) PROVE TypeOK'
  <2> DEFINE S == {c \in Listed : remote[c] = a}
  <2>1. Unlist(S) /\ Orphans(h, S) /\ S \in SUBSET Conns /\ h \in Threads
    BY <1>1, <1>3, <1>16 DEF Disconnect
  <2> HIDE DEF S
  <2>2. QED BY <1>0, <1>4, <1>5, <1>16, <2>1 DEF Disconnect, TypeOK
<1>17. ASSUME NEW h \in Handlers, NEW a \in Addrs, NEW c \in Conns, ConnectCreate(h, a, c)
       PROVE  TypeOK'
  <2>1. chans' \in [Channels -> SUBSET Conns]
    BY <1>0, <1>2, <1>17 DEF ConnectCreate, TypeOK
  <2>2. remote' \in [Conns -> Addrs \cup {NoConn}] /\ refcount' \in [Conns -> Nat]
    BY <1>0, <1>17 DEF ConnectCreate, TypeOK
  <2>3. newconn' \in [Threads -> Conns \cup {NoConn}]
    BY <1>0, <1>17 DEF ConnectCreate, TypeOK
  <2>4. QED BY <1>0, <1>17, <2>1, <2>2, <2>3 DEF ConnectCreate, TypeOK
<1>18. ASSUME NEW h \in Handlers, NEW a \in Addrs, NEW ch \in AppChannels,
              Subscribe(h, a, ch) \/ Unsubscribe(h, a, ch)
       PROVE  TypeOK'
  <2>1. OnChannel0(a) \subseteq Conns
    BY <1>0, <1>2 DEF OnChannel0, TypeOK
  <2>2. chans' \in [Channels -> SUBSET Conns]
    BY <1>0, <1>18, <2>1 DEF Subscribe, Unsubscribe, TypeOK
  <2>3. QED BY <1>0, <1>18, <2>2 DEF Subscribe, Unsubscribe, TypeOK
<1>19. ASSUME NEW h \in Handlers, ConnectPut(h) PROVE TypeOK'
  <2>1. newconn[h] \in Conns /\ remote[newconn[h]] \in Addrs
    BY <1>0, <1>1, <1>19 DEF ConnectPut, IInv, ThreadsOK, Created, TypeOK
  <2>2. index' \in [Addrs -> Conns \cup {NoConn}] /\ late' \subseteq Conns /\ map' \subseteq Conns
    BY <1>0, <1>19, <2>1 DEF ConnectPut, TypeOK
  <2>3. QED BY <1>0, <1>19, <2>2 DEF ConnectPut, TypeOK
<1>20. ASSUME NEW h \in Handlers, ConnectAck(h) PROVE TypeOK'
  <2>1. remote[newconn[h]] \in Addrs
    BY <1>0, <1>1, <1>20 DEF ConnectAck, IInv, ThreadsOK, Created, TypeOK
  <2>2. client' \in [Addrs -> {"idle", "connecting", "connected"}]
    BY <1>6, <1>20, <2>1 DEF ConnectAck
  <2>3. QED BY <1>0, <1>20, <2>2 DEF ConnectAck, TypeOK
<1>21. ASSUME NEW h \in Handlers, ConnectCallback(h) PROVE TypeOK'
  <2>1. newconn[h] \in Conns
    BY <1>0, <1>1, <1>21 DEF ConnectCallback, IInv, ThreadsOK, Created, TypeOK
  <2>2. QED BY <1>0, <1>21, <2>1 DEF ConnectCallback, TypeOK
<1>22. CASE Evict
  <2>1. PICK K \in SUBSET Conns : Orphans(Retransmitter, K)
    BY <1>3, <1>22 DEF Evict
  <2>2. chans' \in [Channels -> SUBSET Conns]
    BY <1>4, <1>22 DEF Evict
  <2>3. QED BY <1>0, <1>1, <1>5, <1>22, <2>1, <2>2 DEF Evict, TypeOK
<1>23. CASE Stop
  BY <1>0, <1>23 DEF Stop, TypeOK
<1>24. CASE Sweep
  <2>1. PICK K \in SUBSET Conns : Orphans(Stopper, K)
    BY <1>3, <1>24 DEF Sweep, Batches
  <2>2. chans' \in [Channels -> SUBSET Conns]
    BY <1>3, <1>24 DEF Sweep
  <2>3. QED BY <1>0, <1>1, <1>5, <1>24, <2>1, <2>2 DEF Sweep, TypeOK
<1>25. CASE Stopped
  BY <1>0, <1>25 DEF Stopped, TypeOK
<1>26. ASSUME NEW t \in Threads, Unmap(t) PROVE TypeOK'
  BY <1>0, <1>26 DEF Unmap, TypeOK
<1>27. ASSUME NEW t \in Threads, Finalise(t) PROVE TypeOK'
  <2>1. orphans[t] \in SUBSET Conns /\ \A c \in orphans[t] : Owned(c)
    BY <1>0 DEF TypeOK, Owned, Orphaned
  <2>2. refcount' \in [Conns -> Nat] /\ freed' \subseteq Conns
    BY <1>0, <1>27, <2>1, ReleaseType DEF Finalise, Release, TypeOK
  <2>3. closed' \in [Conns -> Nat]
    BY <1>0, <1>27 DEF Finalise, TypeOK
  <2>4. QED BY <1>0, <1>27, <2>2, <2>3 DEF Finalise, TypeOK
<1>28. ASSUME NEW s \in Senders, NEW c \in Conns, SendBegin(s, c) PROVE TypeOK'
  <2>1. holds' \in [Senders -> SUBSET Conns] /\ refcount' \in [Conns -> Nat]
    BY <1>7, <1>28 DEF SendBegin
  <2>2. QED BY <1>0, <1>28, <2>1 DEF SendBegin, TypeOK
<1>29. ASSUME NEW s \in Senders, NEW ch \in AppChannels, NEW x \in Conns \cup {NoConn},
              BroadcastBegin(s, ch, x)
       PROVE  TypeOK'
  <2>1. chans[ch] \ {x} \in SUBSET Conns
    BY <1>0, <1>2 DEF TypeOK
  <2>2. holds' \in [Senders -> SUBSET Conns] /\ refcount' \in [Conns -> Nat]
    BY <1>7, <1>29, <2>1 DEF BroadcastBegin
  <2>3. QED BY <1>0, <1>29, <2>2 DEF BroadcastBegin, TypeOK
<1>30. ASSUME NEW s \in Senders, SendEnd(s) PROVE TypeOK'
  <2>1. holds[s] \in SUBSET Conns
    BY <1>0 DEF TypeOK
  <2>2. refcount' \in [Conns -> Nat] /\ freed' \subseteq Conns
    BY <1>0, <1>30, <2>1, ReleaseType DEF SendEnd, Release, TypeOK
  <2>3. QED BY <1>0, <1>30, <2>2 DEF SendEnd, TypeOK
<1>31. CASE UNCHANGED vars
  BY <1>0, <1>31 DEF vars, TypeOK
<1>32. QED
  BY <1>10, <1>11, <1>12, <1>13, <1>14, <1>15, <1>16, <1>17, <1>18, <1>19, <1>20, <1>21,
     <1>22, <1>23, <1>24, <1>25, <1>26, <1>27, <1>28, <1>29, <1>30, <1>31 DEF Next

\* Every step preserves the invariant, as long as a batch suffices.
LEMMA NextIInv == IInv /\ StopperIdle /\ BatchSuffices /\ [Next]_vars => IInv'
<1> SUFFICES ASSUME IInv, StopperIdle, BatchSuffices, [Next]_vars PROVE IInv'
  OBVIOUS
<1> USE DEF peers, objects, threads, seen
<1>0. TypeOK /\ TypeOK' /\ ThreadsOK /\ IsFiniteSet(Listed)
  BY TypeStep DEF IInv
<1>1. Handlers \subseteq Threads /\ Retransmitter \in Threads /\ Stopper \in Threads
  BY DEF Threads, Workers
<1>2. 0 \in Channels /\ AppChannels \subseteq Channels /\ 0 \notin AppChannels
  BY ConnectionsAssumption DEF Channels
<1>3. ASSUME UNCHANGED <<chans, remote, refcount, freed, map, orphans, holds, closed, late, pc, newconn>>
      PROVE  IInv'
  BY <1>0, <1>3, Unmoved DEF Listed, ToUnmap, ThreadsOK, Created
<1>4. ASSUME UNCHANGED <<remote, refcount, freed, map, orphans, holds, closed, late, pc, newconn>>,
             Listed' = Listed
      PROVE  IInv'
  BY <1>0, <1>4, Unmoved DEF ToUnmap, ThreadsOK, Created
<1>10. ASSUME NEW a \in Addrs,
              ClientConnect(a) \/ ClientGivesUp(a) \/ ClientDisconnect(a) \/ Heartbeat(a)
       PROVE  IInv'
  BY <1>3, <1>10 DEF ClientConnect, ClientGivesUp, ClientDisconnect, Heartbeat
<1>11. ASSUME NEW a \in Addrs, NEW ch \in AppChannels,
              ClientAsks(a, "SUBSCRIBE", ch) \/ ClientAsks(a, "UNSUBSCRIBE", ch)
       PROVE  IInv'
  BY <1>3, <1>11 DEF ClientAsks
<1>12. ASSUME NEW c \in Conns, HeartbeatsStop(c) PROVE IInv'
  BY <1>3, <1>12 DEF HeartbeatsStop
<1>13. ASSUME NEW h \in Handlers, NEW a \in Addrs, ConnectAgain(h, a) PROVE IInv'
  BY <1>3, <1>13 DEF ConnectAgain
<1>14. ASSUME NEW h \in Handlers, NEW a \in Addrs, Disconnect(h, a) PROVE IInv'
  <2> DEFINE S == {c \in Listed : remote[c] = a}
  <2>1. /\ Unlist(S) /\ Orphans(h, S) /\ S \subseteq Listed /\ h \in Threads
        /\ pc[h] = "idle"
        /\ UNCHANGED <<remote, refcount, freed, map, newconn, holds, closed, late>>
    BY <1>1, <1>14 DEF Disconnect, Takes
  <2> HIDE DEF S
  <2>2. QED BY <1>0, <2>1, UnlistRemoves, Removed
<1>15. ASSUME NEW h \in Handlers, NEW a \in Addrs, NEW c \in Conns, ConnectCreate(h, a, c)
       PROVE  IInv'
  BY <1>0, <1>15, CreateStep
<1>16. ASSUME NEW h \in Handlers, NEW a \in Addrs, NEW ch \in AppChannels,
              Subscribe(h, a, ch) \/ Unsubscribe(h, a, ch)
       PROVE  IInv'
  <2>1. OnChannel0(a) \subseteq chans[0] /\ chans \in [Channels -> SUBSET Conns]
    BY <1>0 DEF OnChannel0, TypeOK
  <2>2. /\ chans'[0] = chans[0]
        /\ \A d \in Channels \ {ch} : chans'[d] = chans[d]
        /\ \A c : c \in chans[ch] => c \in chans'[ch] \/ c \in chans[0]
        /\ \A c : c \in chans'[ch] => c \in chans[ch] \/ c \in chans[0]
    BY <1>2, <1>16, <2>1 DEF Subscribe, Unsubscribe
  <2>3. Listed' = Listed
    BY <1>2, <2>2, InListed
  <2>4. QED BY <1>4, <1>16, <2>3 DEF Subscribe, Unsubscribe
<1>17. ASSUME NEW h \in Handlers, ConnectPut(h) PROVE IInv'
  BY <1>0, <1>17, PutStep
<1>18. ASSUME NEW h \in Handlers, ConnectAck(h) \/ ConnectCallback(h) PROVE IInv'
  <2>1. /\ UNCHANGED <<chans, remote, refcount, freed, map, orphans, holds, closed, late>>
        /\ pc[h] \in {"ack", "callback"}
        /\ \/ pc' = [pc EXCEPT ![h] = "callback"] /\ newconn' = newconn
           \/ pc' = [pc EXCEPT ![h] = "idle"] /\ newconn' = [newconn EXCEPT ![h] = NoConn]
    BY <1>18 DEF ConnectAck, ConnectCallback
  <2>2. DOMAIN pc = Threads /\ DOMAIN newconn = Threads /\ h \in Threads
    BY <1>0, <1>1 DEF TypeOK
  <2>3. Listed' = Listed /\ Created' = Created
    BY <2>1 DEF Listed, Created
  <2>4. ThreadsOK'
    BY <1>0, <2>1, <2>2, <2>3 DEF ThreadsOK
  <2>5. \A c : ToUnmap(c) => ToUnmap(c)'
    BY <2>1, <2>2 DEF ToUnmap
  <2>6. QED BY <1>0, <2>1, <2>3, <2>4, <2>5, Unmoved
<1>19. CASE Evict
  <2> DEFINE S == Listed \cap quiet
  <2>1. PICK K \in SUBSET S :
            /\ Cardinality(K) = IF Cardinality(S) < MaxEvictions
                                THEN Cardinality(S) ELSE MaxEvictions
            /\ Orphans(Retransmitter, K)
    BY <1>19 DEF Evict
  <2>2. IsFiniteSet(S) /\ Cardinality(S) <= MaxEvictions
    BY <1>0, FS_Subset DEF BatchSuffices
  <2>3. Unlist(S) /\ S \subseteq Listed /\ pc[Retransmitter] = "idle"
    BY <1>19 DEF Evict
  <2> HIDE DEF S
  <2>4. K = S
    BY <2>1, <2>2, WholeBatch
  <2>5. UNCHANGED <<remote, refcount, freed, map, newconn, holds, closed, late>>
    BY <1>19 DEF Evict
  <2>6. QED BY <1>0, <1>1, <2>1, <2>3, <2>4, <2>5, UnlistRemoves, Removed
<1>20. CASE Stop
  <2>1. /\ UNCHANGED <<chans, remote, refcount, freed, map, orphans, holds, closed, late, newconn>>
        /\ pc[Stopper] = "idle" /\ pc' = [pc EXCEPT ![Stopper] = "sweep"]
        /\ DOMAIN pc = Threads
    BY <1>0, <1>20 DEF Stop, StopperIdle, TypeOK
  <2>2. Listed' = Listed /\ Created' = Created
    BY <2>1 DEF Listed, Created
  <2>3. ThreadsOK'
    BY <1>0, <1>1, <2>1, <2>2 DEF ThreadsOK
  <2>4. \A c : ToUnmap(c) => ToUnmap(c)'
    BY <1>1, <2>1 DEF ToUnmap
  <2>5. QED BY <1>0, <2>1, <2>2, <2>3, <2>4, Unmoved
<1>21. CASE Sweep
  <2>1. PICK K \in Batches :
          /\ \E rest \in [Channels -> SUBSET Listed] :
                /\ \A ch \in Channels : chans[ch] \subseteq K => rest[ch] = {}
                /\ chans' = rest
          /\ Orphans(Stopper, K)
    BY <1>21 DEF Sweep
  <2>2. Cardinality(Listed) <= MaxEvictions
    BY <1>21 DEF Sweep, BatchSuffices, StopperIdle
  <2>3. K = Listed
    BY <1>0, <2>1, <2>2, WholeBatch DEF Batches
  <2>4. Listed' = Listed \ Listed
    BY <2>1, <2>3, InListed
  <2>5. /\ UNCHANGED <<remote, refcount, freed, map, newconn, holds, closed, late>>
        /\ pc[Stopper] = "sweep"
    BY <1>21 DEF Sweep
  <2>6. QED BY <1>0, <1>1, <2>1, <2>3, <2>4, <2>5, Removed
<1>22. CASE Stopped
  <2>1. /\ UNCHANGED <<chans, remote, refcount, freed, orphans, holds, closed, late, newconn>>
        /\ pc[Stopper] = "sweep" /\ pc' = [pc EXCEPT ![Stopper] = "stopped"] /\ map' = {}
        /\ DOMAIN pc = Threads
    BY <1>0, <1>22 DEF Stopped, TypeOK
  <2>2. Listed' = Listed /\ Created' = Created
    BY <2>1 DEF Listed, Created
  <2>3. ThreadsOK'
    BY <1>0, <1>1, <2>1, <2>2 DEF ThreadsOK
  <2>4. \A c : ToUnmap(c) => ToUnmap(c)'
    BY <1>1, <2>1 DEF ToUnmap
  <2>5. QED BY <1>0, <2>1, <2>2, <2>3, <2>4, Unmoved
<1>23. ASSUME NEW t \in Threads, Unmap(t) \/ Finalise(t) PROVE IInv'
  BY <1>0, <1>23, UnmapStep, FinaliseStep
<1>24. ASSUME NEW s \in Senders, NEW c \in Conns, SendBegin(s, c) PROVE IInv'
  <2>1. /\ holds[s] = {} /\ Hold(s, {c}) /\ {c} \subseteq Listed \cup map
        /\ UNCHANGED <<chans, remote, freed, map, pc, newconn, orphans, closed, late>>
    BY <1>24 DEF SendBegin
  <2>2. QED BY <1>0, <2>1, HoldStep
<1>25. ASSUME NEW s \in Senders, NEW ch \in AppChannels, NEW x \in Conns \cup {NoConn},
              BroadcastBegin(s, ch, x)
       PROVE  IInv'
  <2>1. chans[ch] \ {x} \subseteq Listed \cup map
    BY <1>2, InListed
  <2>2. /\ holds[s] = {} /\ Hold(s, chans[ch] \ {x})
        /\ UNCHANGED <<chans, remote, freed, map, pc, newconn, orphans, closed, late>>
    BY <1>25 DEF BroadcastBegin
  <2>3. QED BY <1>0, <2>1, <2>2, HoldStep
<1>26. ASSUME NEW s \in Senders, SendEnd(s) PROVE IInv'
  BY <1>0, <1>26, SendEndStep
<1>27. CASE UNCHANGED vars
  BY <1>3, <1>27 DEF vars
<1>28. QED
  BY <1>10, <1>11, <1>12, <1>13, <1>14, <1>15, <1>16, <1>17, <1>18, <1>19, <1>20, <1>21,
     <1>22, <1>23, <1>24, <1>25, <1>26, <1>27 DEF Next

\* The invariant holds in every state of a behaviour in which a batch
\* suffices.
LEMMA AlwaysIInv == Spec /\ []BatchSuffices => []IInv
<1>1. IInv /\ StopperIdle /\ BatchSuffices /\ [Next]_vars => (IInv /\ StopperIdle)'
  BY NextIInv, StopperStep
<1>2. QED BY <1>1, InitIInv, PTL DEF Spec
-----------------------------------------------------------------------------
\* Every variable keeps its type; no reference count falls below zero.
THEOREM TypeCorrect == Spec /\ []BatchSuffices => []TypeOK
<1>1. IInv => TypeOK
  BY DEF IInv
<1>2. QED BY <1>1, AlwaysIInv, PTL

\* The reference count of a connection is exactly the number of those who
\* refer to it, whatever creates, removes, evicts and sends do in parallel
\* (krs_connection_map_acquire and krs_connection_map_release).
THEOREM RefsCorrect == Spec /\ []BatchSuffices => []RefsExact
<1>1. IInv => RefsExact
  <2> SUFFICES ASSUME IInv, NEW c \in Conns
               PROVE  refcount[c] = Cardinality({s \in Senders : c \in holds[s]}) +
                                    Cardinality({t \in Threads : c \in orphans[t]}) +
                                    (IF c \in Listed THEN 1 ELSE 0)
    BY DEF RefsExact
  <2> DEFINE O == {t \in Threads : c \in orphans[t]}
             H == Cardinality({s \in Senders : c \in holds[s]})
  <2>1. H \in Nat /\ refcount[c] = H + (IF Owned(c) THEN 1 ELSE 0)
    BY FS_CardinalityType DEF IInv, Refs, Holders
  <2>2. CASE Orphaned(c)
    <3>1. PICK t \in Threads : c \in orphans[t]
      BY <2>2 DEF Orphaned
    <3>2. O = {t} /\ c \notin Listed
      BY <2>2, <3>1 DEF IInv, Life
    <3>3. Cardinality(O) = 1
      BY <3>2, FS_Singleton
    <3> HIDE DEF O, H
    <3>4. QED BY <2>1, <2>2, <3>2, <3>3 DEF Owned, O, H
  <2>3. CASE ~Orphaned(c)
    <3>1. O = {}
      BY <2>3 DEF Orphaned
    <3>2. Cardinality(O) = 0
      BY <3>1, FS_EmptySet
    <3> HIDE DEF O, H
    <3>3. QED BY <2>1, <2>3, <3>2 DEF Owned, O, H
  <2>4. QED BY <2>2, <2>3
<1>2. QED BY <1>1, AlwaysIInv, PTL

\* A connection is in use only while it exists: what is freed is on no list,
\* in no map, in no thread's hands.
THEOREM UseIsSafe == Spec /\ []BatchSuffices => []InUseIsAlive
<1>1. IInv => InUseIsAlive
  <2> SUFFICES ASSUME IInv PROVE InUseIsAlive
    OBVIOUS
  <2> DEFINE O == UNION {orphans[t] : t \in Threads}
             H == UNION {holds[s] : s \in Senders}
  <2>1. \A c : /\ c \in O => \E t \in Threads : c \in orphans[t]
               /\ c \in H => \E s \in Senders : c \in holds[s]
    OBVIOUS
  <2> HIDE DEF O, H
  <2>2. ASSUME NEW c \in freed \ late, c \in Listed \cup map \cup O \cup H PROVE FALSE
    <3>1. c \in Conns /\ refcount[c] = 0
      BY CreatedFirst DEF IInv, FreedOK
    <3>2. Owned(c) \/ \E s \in Senders : c \in holds[s]
      BY <2>1, <2>2 DEF IInv, MapOK, Owned, Orphaned, ToUnmap
    <3>3. QED BY <3>1, <3>2, HasReference
  <2>3. (freed \ late) \cap (Listed \cup map \cup O \cup H) = {}
    BY <2>2
  <2>4. QED BY <2>3 DEF InUseIsAlive, O, H
<1>2. QED BY <1>1, AlwaysIInv, PTL

\* Every connection that was created is listed, being finalised, or had its
\* one disconnect_callback.
THEOREM NobodyForgotten == Spec /\ []BatchSuffices => []NoneForgotten
<1>1. IInv => NoneForgotten
  BY DEF IInv, Life, NoneForgotten, Owned, Orphaned, Created
<1>2. QED BY <1>1, AlwaysIInv, PTL

\* What is off the lists and not being finalised is off the map.
THEOREM MapCorrect == Spec /\ []BatchSuffices => []MapFollowsLists
<1>1. IInv => MapFollowsLists
  BY DEF IInv, MapOK, MapFollowsLists, ToUnmap
<1>2. QED BY <1>1, AlwaysIInv, PTL
=============================================================================
