----------------------------- MODULE PortsProofs -----------------------------
(***************************************************************************)
(* Proofs about the registry of ports, for any number of descriptors,      *)
(* ports, rebuilds, failures and clients.  The inductive invariant is IInv *)
(* below: the table is well formed, what is linked and what is open agree  *)
(* up to the descriptors that were lost or gone, and the count of Winsock  *)
(* is exact.                                                               *)
(***************************************************************************)
EXTENDS Ports, FiniteSetTheorems, TLAPS

\* A table whose links have the ports f: each link is in the bucket of its
\* port, no port has two, and they are counted.
TableOK(t, f) ==
    /\ t = [level |-> t.level, slots |-> t.slots, entries |-> t.entries]
    /\ t.level \in 0 .. 12
    /\ t.slots \in [0 .. Size(t) - 1 -> SUBSET Descs]
    /\ \A i \in 0 .. Size(t) - 1 : \A d \in t.slots[i] :
          f[d] \in Ports /\ Hash(f[d], Size(t)) = i
    /\ \A i \in 0 .. Size(t) - 1 : \A d, e \in t.slots[i] : f[d] = f[e] => d = e
    /\ IsFiniteSet(Linked(t))
    /\ t.entries = Cardinality(Linked(t))

TypeInv ==
    /\ alive \in BOOLEAN /\ running \in BOOLEAN
    /\ call \in {"idle", "add", "start"}
    /\ call = "add" => asked \in Ports
    /\ call = "start" => ~running
    /\ list \in Seq(Descs) /\ capacity \in Nat
    /\ portOf \in [Descs -> Ports \cup {NoPort}]
    /\ open \subseteq Descs /\ lost \subseteq Descs /\ gone \subseteq Descs
    /\ client \in [Clients -> {"none", "connecting", "connected"}]
    /\ wsa \in Int

\* What is linked exists or is gone, what exists is linked or lost, and a
\* descriptor that was never created is none of them.
RegistryInv ==
    /\ Linked(tab) \subseteq open \cup gone
    /\ open \subseteq Linked(tab) \cup lost
    /\ \A d \in open \cup gone \cup lost : portOf[d] \in Ports
    /\ ~alive => tab = NewTable /\ list = <<>> /\ call = "idle" /\ ~running

WsaInv == IsFiniteSet(ActiveClients) /\ WsaExact

IInv == TypeInv /\ TableOK(tab, portOf) /\ RegistryInv /\ WsaInv
-----------------------------------------------------------------------------
(* Sizes and hashes.                                                       *)

\* The code's prime sizes are positive numbers.
LEMMA SizesPositive ==
    /\ Len(PrimeSizes) = 13
    /\ \A l \in 0 .. 12 : PrimeSizes[l + 1] \in Nat /\ PrimeSizes[l + 1] > 0
BY SMT DEF PrimeSizes

\* A descriptor without a port has none of the ports.
LEMMA NoPortApart == NoPort \notin Ports
BY SMT DEF NoPort, Ports

\* The hash of a port is an index of the table.
LEMMA HashInRange ==
    ASSUME NEW p \in Ports, NEW n \in Nat, n > 0
    PROVE  Hash(p, n) \in 0 .. n - 1
<1>1. (p * 2654435761) % 4294967296 \in Nat
  BY SMT DEF Ports
<1> QED
  BY <1>1, SMT DEF Hash
-----------------------------------------------------------------------------
(* The table.                                                              *)

\* What it is to be linked.
LEMMA InLinked ==
    ASSUME NEW t, NEW d
    PROVE  d \in Linked(t) <=> \E i \in 0 .. Size(t) - 1 : d \in t.slots[i]
BY DEF Linked

\* A link of a well-formed table is in the bucket of its port.
LEMMA LinkedPlaced ==
    ASSUME NEW t, NEW f, TableOK(t, f), NEW d \in Linked(t)
    PROVE  /\ d \in Descs /\ f[d] \in Ports
           /\ Hash(f[d], Size(t)) \in 0 .. Size(t) - 1
           /\ d \in t.slots[Hash(f[d], Size(t))]
<1>1. PICK i \in 0 .. Size(t) - 1 : d \in t.slots[i]
  BY InLinked
<1>2. d \in Descs
  BY <1>1 DEF TableOK
<1>3. f[d] \in Ports /\ Hash(f[d], Size(t)) = i
  BY <1>1 DEF TableOK
<1> QED
  BY <1>1, <1>2, <1>3

\* A new table is well formed and has no links.
LEMMA NewTableOK ==
    ASSUME NEW f
    PROVE  TableOK(NewTable, f) /\ Linked(NewTable) = {}
<1>1. Size(NewTable) = 17 /\ PrimeSizes[1] = 17
  BY SMT DEF NewTable, Size, PrimeSizes
<1>2. Linked(NewTable) = {}
  BY <1>1 DEF NewTable, Linked
<1>3. IsFiniteSet(Linked(NewTable)) /\ Cardinality(Linked(NewTable)) = 0
  BY <1>2, FS_EmptySet
<1> QED
  BY <1>1, <1>2, <1>3 DEF TableOK, NewTable

\* port_table_rebuild keeps a table well formed: its links are those that
\* were copied.
LEMMA RebuiltOK ==
    ASSUME NEW t, TableOK(t, portOf), t.level + 1 < 13,
           NEW K \in SUBSET Linked(t)
    PROVE  TableOK(Rebuilt(t, K), portOf) /\ Linked(Rebuilt(t, K)) = K
<1> DEFINE r == Rebuilt(t, K)
           n == PrimeSizes[t.level + 2]
<1>1. t.level \in 0 .. 12 /\ t.level + 1 \in 0 .. 12
  BY DEF TableOK
<1>2. n \in Nat /\ n > 0 /\ Size(r) = n
  <2>1. t.level + 2 = (t.level + 1) + 1
    BY <1>1
  <2> QED
    BY <1>1, <2>1, SizesPositive DEF Rebuilt, Size
<1>3. \A d \in K : d \in Descs /\ portOf[d] \in Ports
  BY LinkedPlaced
<1>4. \A i \in 0 .. n - 1 : r.slots[i] = {d \in K : Hash(portOf[d], n) = i}
  BY DEF Rebuilt, Buckets
<1>5. \A d \in K : d \in r.slots[Hash(portOf[d], n)] /\ Hash(portOf[d], n) \in 0 .. n - 1
  BY <1>2, <1>3, <1>4, HashInRange
<1>6. Linked(r) = K
  <2>1. \A d : d \in Linked(r) <=> \E i \in 0 .. n - 1 : d \in r.slots[i]
    BY <1>2, InLinked
  <2> HIDE DEF r, n
  <2>2. \A d : d \in Linked(r) => d \in K
    BY <1>4, <2>1
  <2>3. \A d : d \in K => d \in Linked(r)
    BY <1>5, <2>1
  <2> QED
    BY <2>2, <2>3
<1>7. r.slots \in [0 .. n - 1 -> SUBSET Descs]
  BY <1>3 DEF Rebuilt, Buckets
<1>8. ASSUME NEW d \in K, NEW e \in K, portOf[d] = portOf[e]
      PROVE  d = e
  <2>1. d \in t.slots[Hash(portOf[d], Size(t))] /\ e \in t.slots[Hash(portOf[d], Size(t))]
    BY <1>8, LinkedPlaced
  <2>2. Hash(portOf[d], Size(t)) \in 0 .. Size(t) - 1
    BY LinkedPlaced
  <2> QED
    BY <1>8, <2>1, <2>2 DEF TableOK
<1>9. IsFiniteSet(K) /\ r.entries = Cardinality(K)
  BY FS_Subset DEF TableOK, Rebuilt
<1> QED
  BY <1>1, <1>2, <1>3, <1>4, <1>6, <1>7, <1>8, <1>9 DEF TableOK, Rebuilt

\* port_table_insert of a new descriptor keeps a table well formed.
LEMMA InsertOK ==
    ASSUME NEW t, TableOK(t, portOf), portOf \in [Descs -> Ports \cup {NoPort}],
           NEW d \in Descs, portOf[d] = NoPort, NEW p \in Ports,
           NEW u \in Inserts(t, d, p)
    PROVE  /\ TableOK(u, [portOf EXCEPT ![d] = p])
           /\ Linked(t) \subseteq Linked(u) /\ Linked(u) \subseteq Linked(t) \cup {d}
<1> DEFINE g == [portOf EXCEPT ![d] = p]
           n == Size(t)
           h == Hash(p, n)
<1>1. n \in Nat /\ n > 0
  BY SizesPositive DEF TableOK, Size
<1>2. h \in 0 .. n - 1
  BY <1>1, HashInRange
<1>3. d \notin Linked(t)
  BY NoPortApart, LinkedPlaced
<1>4. \A e \in Linked(t) : e \in Descs /\ g[e] = portOf[e]
  BY <1>3, LinkedPlaced
<1>5. g[d] = p
  OBVIOUS
<1>6. \A i \in 0 .. n - 1 : \A e \in t.slots[i] : e \in Linked(t)
  BY InLinked
<1>7. CASE u = t
  BY <1>4, <1>6, <1>7 DEF TableOK
<1>8. CASE u = Link(t, d, p) /\ \A e \in t.slots[h] : portOf[e] # p
  <2>1. Size(u) = n /\ u.level = t.level
    BY <1>8 DEF Link, Size, TableOK
  <2>2. u.entries = t.entries + 1
    BY <1>8 DEF Link, TableOK
  <2>3. u.slots = [t.slots EXCEPT ![h] = @ \cup {d}]
    BY <1>8 DEF Link, TableOK
  <2>4. u.slots \in [0 .. n - 1 -> SUBSET Descs]
    <3>1. t.slots \in [0 .. n - 1 -> SUBSET Descs]
      BY DEF TableOK
    <3> HIDE DEF n, h
    <3> QED
      BY <2>3, <3>1, <1>2
  <2>5. u.slots[h] = t.slots[h] \cup {d} /\ \A i \in 0 .. n - 1 : i # h => u.slots[i] = t.slots[i]
    BY <2>3, <1>2 DEF TableOK
  <2>6. Linked(u) = Linked(t) \cup {d}
    BY <2>1, <2>5, <1>2, InLinked
  <2>7. IsFiniteSet(Linked(u)) /\ Cardinality(Linked(u)) = Cardinality(Linked(t)) + 1
    BY <2>6, <1>3, FS_AddElement DEF TableOK
  <2>8. u = [level |-> u.level, slots |-> u.slots, entries |-> u.entries]
    BY <1>8 DEF Link, TableOK
  <2>9. \A i \in 0 .. n - 1 : \A e \in u.slots[i] : g[e] \in Ports /\ Hash(g[e], n) = i
    BY <2>5, <1>4, <1>5, <1>6 DEF TableOK
  <2>10. \A i \in 0 .. n - 1 : \A e, k \in u.slots[i] : g[e] = g[k] => e = k
    BY <2>5, <1>4, <1>5, <1>6, <1>8 DEF TableOK
  <2> QED
    BY <2>1, <2>2, <2>4, <2>6, <2>7, <2>8, <2>9, <2>10 DEF TableOK
<1> QED
  BY <1>7, <1>8 DEF Inserts

\* The table half of adding a port, with the rebuild it may start with.
LEMMA RegisterOK ==
    ASSUME TypeInv, TableOK(tab, portOf), NEW d \in Descs, Register(d)
    PROVE  /\ asked \in Ports /\ portOf' = [portOf EXCEPT ![d] = asked]
           /\ TableOK(tab', portOf')
           /\ Linked(tab') \subseteq Linked(tab) \cup {d}
<1>1. asked \in Ports /\ portOf' = [portOf EXCEPT ![d] = asked] /\ portOf[d] = NoPort
  BY DEF TypeInv, Register
<1>2. PICK t \in (IF Overloaded(tab) THEN Rebuilds(tab) ELSE {tab}) : tab' \in Inserts(t, d, asked)
  BY DEF Register, TableInsert
<1>3. TableOK(t, portOf) /\ Linked(t) \subseteq Linked(tab)
  <2>1. CASE t = tab
    BY <2>1
  <2>2. CASE tab.level + 1 < Len(PrimeSizes) /\ t \in {Rebuilt(tab, K) : K \in SUBSET Linked(tab)}
    <3>1. PICK K \in SUBSET Linked(tab) : t = Rebuilt(tab, K)
      BY <2>2
    <3> QED
      BY <2>2, <3>1, SizesPositive, RebuiltOK
  <2> QED
    BY <1>2, <2>1, <2>2 DEF Rebuilds
<1>4. TableOK(tab', [portOf EXCEPT ![d] = asked]) /\ Linked(tab') \subseteq Linked(t) \cup {d}
  BY <1>1, <1>2, <1>3, InsertOK DEF TypeInv
<1> QED
  BY <1>1, <1>3, <1>4
-----------------------------------------------------------------------------
(* The invariant.                                                          *)

\* The invariant holds before there is a port manager.
LEMMA InitIInv == Init => IInv
<1> SUFFICES ASSUME Init PROVE IInv
  OBVIOUS
<1> USE DEF Init
<1>1. TypeInv
  <2>1. portOf \in [Descs -> Ports \cup {NoPort}]
    OBVIOUS
  <2>2. list \in Seq(Descs)
    OBVIOUS
  <2>3. client \in [Clients -> {"none", "connecting", "connected"}]
    OBVIOUS
  <2>4. alive \in BOOLEAN /\ running \in BOOLEAN
    OBVIOUS
  <2>5. call \in {"idle", "add", "start"} /\ call # "add"
    OBVIOUS
  <2>6. capacity \in Nat /\ wsa \in Int
    OBVIOUS
  <2>7. open \subseteq Descs /\ lost \subseteq Descs /\ gone \subseteq Descs
    OBVIOUS
  <2> QED
    BY <2>1, <2>2, <2>3, <2>4, <2>5, <2>6, <2>7 DEF TypeInv
<1>2. TableOK(tab, portOf) /\ Linked(tab) = {}
  BY NewTableOK
<1>3. RegistryInv
  BY <1>2 DEF RegistryInv
<1>4. ActiveClients = {}
  BY DEF ActiveClients
<1>5. WsaInv
  BY <1>4, FS_EmptySet DEF WsaInv, WsaExact, References
<1> QED
  BY <1>1, <1>2, <1>3, <1>5 DEF IInv

\* The steps that leave the registry alone keep what concerns it.
LEMMA RegistryKept ==
    ASSUME IInv, UNCHANGED registry, alive' = alive,
           ~alive' => call' = "idle" /\ ~running'
    PROVE  TableOK(tab', portOf') /\ RegistryInv'
BY DEF IInv, RegistryInv, registry

\* A step of the manager changes the references as it changes the count.
LEMMA ManagerCounts ==
    ASSUME WsaInv, UNCHANGED client, wsa \in Int, wsa' \in Int,
           list \in Seq(Descs), list' \in Seq(Descs),
           wsa' - wsa = Len(list') - Len(list)
                        + (IF call' = "idle" THEN 0 ELSE 1) - (IF call = "idle" THEN 0 ELSE 1)
                        + (IF running' THEN 1 ELSE 0) - (IF running THEN 1 ELSE 0)
    PROVE  WsaInv'
<1>1. ActiveClients' = ActiveClients
  BY DEF ActiveClients
<1>2. Cardinality(ActiveClients) \in Nat
  BY FS_CardinalityType DEF WsaInv
<1>3. Len(list) \in Nat /\ Len(list') \in Nat
  OBVIOUS
<1> DEFINE b == IF call = "idle" THEN 0 ELSE 1
           c == IF call' = "idle" THEN 0 ELSE 1
           x == IF running THEN 1 ELSE 0
           y == IF running' THEN 1 ELSE 0
           k == Cardinality(ActiveClients)
<1>4. b \in Int /\ c \in Int /\ x \in Int /\ y \in Int
  OBVIOUS
<1>5. wsa' - wsa = Len(list') - Len(list) + c - b + y - x
  OBVIOUS
<1>6. wsa = Len(list) + b + x + k
  BY DEF WsaInv, WsaExact, References
<1>7. References' = Len(list') + c + y + k
  BY <1>1 DEF References
<1>8. wsa' = Len(list') + c + y + k
  <2> HIDE DEF b, c, x, y, k
  <2>1. k \in Int
    BY <1>2 DEF k
  <2> QED
    BY <1>3, <1>4, <1>5, <1>6, <2>1
<1> QED
  BY <1>1, <1>7, <1>8 DEF WsaInv, WsaExact

\* A step of a client changes the references as it changes the count.
LEMMA ClientCounts ==
    ASSUME TypeInv, WsaInv, UNCHANGED <<manager, registry>>, NEW c \in Clients
    PROVE  /\ ConnectBegin(c) => WsaInv'
           /\ ConnectDone(c) => WsaInv'
           /\ ClientEnds(c) => WsaInv'
<1> DEFINE others == Len(list) + (IF call = "idle" THEN 0 ELSE 1) + (IF running THEN 1 ELSE 0)
<1>1. others \in Int /\ wsa \in Int /\ wsa = others + Cardinality(ActiveClients)
  <2>1. Len(list) \in Nat /\ wsa \in Int
    BY DEF TypeInv
  <2>2. others \in Int
    BY <2>1
  <2>3. wsa = others + Cardinality(ActiveClients)
    BY DEF WsaInv, WsaExact, References
  <2> QED
    BY <2>1, <2>2, <2>3
<1>2. References' = others + Cardinality(ActiveClients')
  BY DEF References, manager, registry
<1>3. IsFiniteSet(ActiveClients) /\ Cardinality(ActiveClients) \in Nat
  BY FS_CardinalityType DEF WsaInv
<1> HIDE DEF others
<1>4. ASSUME ConnectBegin(c) PROVE WsaInv'
  <2>1. ActiveClients' = ActiveClients \cup {c} /\ c \notin ActiveClients
    BY <1>4 DEF ConnectBegin, ActiveClients, TypeInv
  <2>2. IsFiniteSet(ActiveClients') /\ Cardinality(ActiveClients') = Cardinality(ActiveClients) + 1
    BY <2>1, <1>3, FS_AddElement
  <2>3. wsa' = wsa + 1
    BY <1>4 DEF ConnectBegin, WsaInit
  <2> QED
    BY <1>1, <1>2, <1>3, <2>2, <2>3 DEF WsaInv, WsaExact
<1>5. ASSUME ConnectDone(c) PROVE WsaInv'
  <2>1. ActiveClients' = ActiveClients
    BY <1>5 DEF ConnectDone, ActiveClients, TypeInv
  <2>2. wsa' = wsa
    BY <1>5 DEF ConnectDone
  <2> QED
    BY <1>1, <1>2, <1>3, <2>1, <2>2 DEF WsaInv, WsaExact
<1>6. ASSUME ClientEnds(c) PROVE WsaInv'
  <2>1. ActiveClients' = ActiveClients \ {c} /\ c \in ActiveClients
    BY <1>6 DEF ClientEnds, ActiveClients, TypeInv
  <2>2. IsFiniteSet(ActiveClients') /\ Cardinality(ActiveClients') = Cardinality(ActiveClients) - 1
    BY <2>1, <1>3, FS_RemoveElement
  <2>3. wsa' = wsa - 1
    BY <1>6 DEF ClientEnds, WsaCleanup
  <2> QED
    BY <1>1, <1>2, <1>3, <2>2, <2>3 DEF WsaInv, WsaExact
<1> QED
  BY <1>4, <1>5, <1>6

\* Adding a port, with or without the push that ends it.
LEMMA AddStep ==
    ASSUME IInv, NEW d \in Descs
    PROVE  /\ AddDone(d) => IInv'
           /\ AddUndone(d) => IInv'
<1>1. /\ TypeInv /\ TableOK(tab, portOf) /\ RegistryInv /\ WsaInv
      /\ Len(list) \in Nat
  BY DEF IInv, TypeInv
<1>2. ASSUME Register(d)
      PROVE  /\ TableOK(tab', portOf') /\ Linked(tab') \subseteq Linked(tab) \cup {d}
             /\ alive /\ UNCHANGED <<alive, running, client>>
             /\ call = "add" /\ call' = "idle"
             /\ portOf' \in [Descs -> Ports \cup {NoPort}]
             /\ portOf'[d] \in Ports /\ \A e \in Descs : portOf[e] \in Ports => portOf'[e] \in Ports
  <2>1. /\ asked \in Ports /\ portOf' = [portOf EXCEPT ![d] = asked]
        /\ TableOK(tab', portOf') /\ Linked(tab') \subseteq Linked(tab) \cup {d}
    BY <1>1, <1>2, RegisterOK
  <2>2. call = "add" /\ call' = "idle" /\ UNCHANGED <<alive, running, client>>
    BY <1>2 DEF Register, Return
  <2>3. alive
    BY <1>1, <2>2 DEF RegistryInv
  <2>4. /\ portOf' \in [Descs -> Ports \cup {NoPort}]
        /\ portOf'[d] \in Ports /\ \A e \in Descs : portOf[e] \in Ports => portOf'[e] \in Ports
    BY <1>1, <2>1 DEF TypeInv
  <2> QED
    BY <2>1, <2>2, <2>3, <2>4
<1>3. ASSUME AddDone(d) PROVE IInv'
  <2>1. Register(d) /\ list' = Append(list, d) /\ wsa' = wsa /\ UNCHANGED gone
    BY <1>3 DEF AddDone
  <2>2. open' = open \cup {d} /\ lost' = lost \cup ((Linked(tab) \cup {d}) \ Linked(tab'))
    BY <1>3 DEF AddDone
  <2>3. list' \in Seq(Descs) /\ Len(list') = Len(list) + 1
    BY <1>1, <2>1 DEF TypeInv
  <2>4. capacity' \in Nat
    BY <1>1, <1>3 DEF AddDone, TypeInv
  <2>5. Linked(tab) \subseteq Descs
    BY <1>1, LinkedPlaced
  <2>6. TypeInv'
    BY <1>1, <1>2, <2>1, <2>2, <2>3, <2>4, <2>5 DEF TypeInv
  <2>7. RegistryInv'
    <3>1. Linked(tab') \subseteq open' \cup gone' /\ open' \subseteq Linked(tab') \cup lost'
      BY <1>1, <1>2, <2>1, <2>2 DEF RegistryInv
    <3>2. \A e \in Linked(tab) : portOf[e] \in Ports
      BY <1>1, LinkedPlaced
    <3>3. \A e \in open' \cup gone' \cup lost' : portOf'[e] \in Ports
      BY <1>1, <1>2, <2>1, <2>2, <2>5, <3>2 DEF RegistryInv, TypeInv
    <3> QED
      BY <1>2, <2>1, <3>1, <3>3 DEF RegistryInv
  <2>8. WsaInv'
    BY <1>1, <1>2, <2>1, <2>3, ManagerCounts DEF TypeInv
  <2> QED
    BY <1>2, <2>1, <2>6, <2>7, <2>8 DEF IInv
<1>4. ASSUME AddUndone(d) PROVE IInv'
  <2>1. Register(d) /\ wsa' = wsa - 1 /\ UNCHANGED <<list, capacity, open>>
    BY <1>4 DEF AddUndone, WsaCleanup
  <2>2. /\ gone' = gone \cup ({d} \cap Linked(tab'))
        /\ lost' = lost \cup (Linked(tab) \ Linked(tab'))
    BY <1>4 DEF AddUndone
  <2>3. Linked(tab) \subseteq Descs
    BY <1>1, LinkedPlaced
  <2>4. wsa' \in Int
    BY <1>1, <2>1 DEF TypeInv
  <2>5. TypeInv'
    BY <1>1, <1>2, <2>1, <2>2, <2>3, <2>4 DEF TypeInv
  <2>6. RegistryInv'
    <3>1. Linked(tab') \subseteq open' \cup gone' /\ open' \subseteq Linked(tab') \cup lost'
      BY <1>1, <1>2, <2>1, <2>2 DEF RegistryInv
    <3>2. \A e \in Linked(tab) : portOf[e] \in Ports
      BY <1>1, LinkedPlaced
    <3>3. \A e \in open' \cup gone' \cup lost' : portOf'[e] \in Ports
      BY <1>1, <1>2, <2>1, <2>2, <2>3, <3>2 DEF RegistryInv, TypeInv
    <3> QED
      BY <1>2, <2>1, <3>1, <3>3 DEF RegistryInv
  <2>7. WsaInv'
    BY <1>1, <1>2, <2>1, <2>4, ManagerCounts DEF TypeInv
  <2> QED
    BY <1>2, <2>1, <2>5, <2>6, <2>7 DEF IInv
<1> QED
  BY <1>3, <1>4

\* Every step of the manager, of the server and of the clients keeps it.
LEMMA NextIInv == IInv /\ [Next]_vars => IInv'
<1> SUFFICES ASSUME IInv, [Next]_vars PROVE IInv'
  OBVIOUS
<1>1. TypeInv /\ TableOK(tab, portOf) /\ RegistryInv /\ WsaInv
  BY DEF IInv
<1>2. Len(list) \in Nat /\ wsa \in Int /\ list \in Seq(Descs)
  BY <1>1 DEF TypeInv
<1>3. CASE Create
  <2>1. list = <<>> /\ call = "idle" /\ ~running /\ tab = NewTable
    BY <1>1, <1>3 DEF RegistryInv, Create
  <2>2. list' = <<>> /\ tab' = NewTable /\ alive'
    BY <1>3 DEF Create
  <2>3. UNCHANGED <<list, tab, running, call, asked, portOf, open, lost, gone, client, wsa>>
    BY <1>3, <2>1, <2>2 DEF Create
  <2>4. capacity' \in Nat
    BY <1>3 DEF Create
  <2>5. TypeInv'
    BY <1>1, <2>2, <2>3, <2>4 DEF TypeInv
  <2>6. TableOK(tab', portOf') /\ RegistryInv'
    BY <1>1, <2>2, <2>3 DEF RegistryInv
  <2>7. WsaInv'
    BY <1>1, <1>2, <2>3, ManagerCounts
  <2> QED
    BY <2>5, <2>6, <2>7 DEF IInv
<1>4. CASE Destroy
  <2>1. tab' = NewTable /\ list' = <<>> /\ alive' = FALSE /\ open' = open \ Linked(tab)
    BY <1>4 DEF Destroy
  <2>2. call = "idle" /\ ~running /\ UNCHANGED <<running, call, asked, capacity, portOf, lost, gone, client>>
    BY <1>4 DEF Destroy
  <2>3. wsa' = wsa - Len(list) /\ wsa' \in Int /\ list' \in Seq(Descs) /\ Len(list') = 0
    BY <1>2, <1>4 DEF Destroy
  <2>4. TableOK(tab', portOf') /\ Linked(tab') = {}
    BY <2>1, NewTableOK
  <2>5. TypeInv'
    BY <1>1, <2>1, <2>2, <2>3 DEF TypeInv
  <2>6. RegistryInv'
    BY <1>1, <2>1, <2>2, <2>4 DEF RegistryInv
  <2>7. WsaInv'
    BY <1>1, <1>2, <2>2, <2>3, ManagerCounts
  <2> QED
    BY <2>4, <2>5, <2>6, <2>7 DEF IInv
<1>5. ASSUME NEW port \in Ports, AddBegin(port) PROVE IInv'
  <2>1. /\ alive /\ call = "idle" /\ call' = "add" /\ asked' = port
        /\ UNCHANGED <<alive, running, registry, client>>
    BY <1>5 DEF AddBegin
  <2>2. wsa' = wsa + 1 /\ wsa' \in Int
    BY <1>2, <1>5 DEF AddBegin, WsaInit
  <2>3. TypeInv'
    BY <1>1, <2>1, <2>2 DEF TypeInv, registry
  <2>4. TableOK(tab', portOf') /\ RegistryInv'
    BY <2>1, RegistryKept
  <2>5. WsaInv'
    BY <1>1, <1>2, <2>1, <2>2, ManagerCounts DEF registry
  <2> QED
    BY <2>3, <2>4, <2>5 DEF IInv
<1>6. CASE AddFails \/ StartFails
  <2>1. /\ call # "idle" /\ call' = "idle" /\ UNCHANGED <<alive, running, registry, client>>
        /\ wsa' = wsa - 1
    BY <1>6 DEF AddFails, StartFails, Return, WsaCleanup
  <2>2. wsa' \in Int
    BY <1>2, <2>1
  <2>3. TypeInv'
    BY <1>1, <2>1, <2>2 DEF TypeInv, registry
  <2>4. TableOK(tab', portOf') /\ RegistryInv'
    <3>1. ~alive' => call' = "idle" /\ ~running'
      BY <1>1, <2>1 DEF RegistryInv
    <3> QED
      BY <2>1, <3>1, RegistryKept
  <2>5. WsaInv'
    BY <1>1, <1>2, <2>1, <2>2, ManagerCounts DEF registry
  <2> QED
    BY <2>3, <2>4, <2>5 DEF IInv
<1>7. ASSUME NEW d \in Descs, AddDone(d) \/ AddUndone(d) PROVE IInv'
  BY <1>7, AddStep
<1>8. CASE StartBegin
  <2>1. /\ alive /\ ~running /\ call = "idle" /\ call' = "start"
        /\ UNCHANGED <<alive, running, registry, client>> /\ wsa' = wsa + 1
    BY <1>8 DEF StartBegin, WsaInit
  <2>2. wsa' \in Int
    BY <1>2, <2>1
  <2>3. TypeInv'
    BY <1>1, <2>1, <2>2 DEF TypeInv, registry
  <2>4. TableOK(tab', portOf') /\ RegistryInv'
    BY <2>1, RegistryKept
  <2>5. WsaInv'
    BY <1>1, <1>2, <2>1, <2>2, ManagerCounts DEF registry
  <2> QED
    BY <2>3, <2>4, <2>5 DEF IInv
<1>9. CASE StartDone
  <2>1. /\ call = "start" /\ call' = "idle" /\ running'
        /\ UNCHANGED <<alive, registry, client, wsa>>
    BY <1>9 DEF StartDone, Return
  <2>2. alive /\ ~running
    BY <1>1, <2>1 DEF RegistryInv, TypeInv
  <2>3. running' \in BOOLEAN
    BY <1>9 DEF StartDone
  <2>4. TypeInv'
    BY <1>1, <2>1, <2>3 DEF TypeInv, registry
  <2>5. TableOK(tab', portOf') /\ RegistryInv'
    BY <2>1, <2>2, RegistryKept
  <2>6. WsaInv'
    BY <1>1, <1>2, <2>1, <2>2, ManagerCounts DEF registry
  <2> QED
    BY <2>4, <2>5, <2>6 DEF IInv
<1>10. CASE Stop
  <2>1. /\ running /\ call = "idle" /\ ~running' /\ wsa' = wsa - 1
        /\ UNCHANGED <<alive, call, asked, registry, client>>
    BY <1>10 DEF Stop, WsaCleanup
  <2>2. wsa' \in Int /\ alive
    BY <1>1, <1>2, <2>1 DEF RegistryInv
  <2>3. running' \in BOOLEAN
    BY <1>10 DEF Stop
  <2>4. TypeInv'
    BY <1>1, <2>1, <2>2, <2>3 DEF TypeInv, registry
  <2>5. TableOK(tab', portOf') /\ RegistryInv'
    BY <2>1, <2>2, RegistryKept
  <2>6. WsaInv'
    BY <1>1, <1>2, <2>1, <2>2, ManagerCounts DEF registry
  <2> QED
    BY <2>4, <2>5, <2>6 DEF IInv
<1>11. ASSUME NEW c \in Clients, ConnectBegin(c) \/ ConnectDone(c) \/ ClientEnds(c)
       PROVE  IInv'
  <2>1. UNCHANGED <<manager, registry>>
    BY <1>11 DEF ConnectBegin, ConnectDone, ClientEnds
  <2>2. client' \in [Clients -> {"none", "connecting", "connected"}]
    BY <1>1, <1>11 DEF ConnectBegin, ConnectDone, ClientEnds, TypeInv
  <2>3. wsa' \in Int
    BY <1>2, <1>11 DEF ConnectBegin, ConnectDone, ClientEnds, WsaInit, WsaCleanup
  <2>4. TypeInv'
    BY <1>1, <2>1, <2>2, <2>3 DEF TypeInv, manager, registry
  <2>5. TableOK(tab', portOf') /\ RegistryInv'
    <3>1. ~alive' => call' = "idle" /\ ~running'
      BY <1>1, <2>1 DEF RegistryInv, manager
    <3> QED
      BY <2>1, <3>1, RegistryKept DEF manager
  <2>6. WsaInv'
    BY <1>1, <1>11, <2>1, ClientCounts
  <2> QED
    BY <2>4, <2>5, <2>6 DEF IInv
<1>12. CASE UNCHANGED vars
  <2>1. UNCHANGED <<manager, registry, client, wsa>>
    BY <1>12 DEF vars
  <2> QED
    BY <1>1, <2>1 DEF IInv, TypeInv, RegistryInv, WsaInv, WsaExact, References, ActiveClients,
                      manager, registry
<1> QED
  BY <1>3, <1>4, <1>5, <1>6, <1>7, <1>8, <1>9, <1>10, <1>11, <1>12 DEF Next

\* The invariant holds in every reachable state.
LEMMA AlwaysIInv == Spec => []IInv
BY InitIInv, NextIInv, PTL DEF Spec
-----------------------------------------------------------------------------
(* What follows for the users of the registry.                             *)

\* s_wsa_ref_count is the number of users of Winsock, for any number of ports
\* and clients and on every failure path of krs_server_port_manager_port_add,
\* krs_server_start and krs_client_server_connect.
THEOREM WsaCorrect == Spec => []WsaExact
<1>1. IInv => WsaExact
  BY DEF IInv, WsaInv
<1> QED
  BY <1>1, AlwaysIInv, PTL

\* krs_lib_port_table_lookup finds the descriptor of every port whose
\* insertion was not refused, after any number of rebuilds, and never one of
\* another port.
THEOREM LookupCorrect == Spec => []Findable
<1>1. IInv => Findable
  <2> SUFFICES ASSUME IInv PROVE Findable
    OBVIOUS
  <2>1. TypeInv /\ TableOK(tab, portOf) /\ RegistryInv
    BY DEF IInv
  <2>2. Size(tab) \in Nat /\ Size(tab) > 0
    BY <2>1, SizesPositive DEF TableOK, Size
  <2>3. ASSUME NEW d \in open \ lost PROVE Lookup(portOf[d]) = {d}
    <3>1. d \in Linked(tab)
      BY <2>1 DEF RegistryInv
    <3>2. /\ d \in tab.slots[Hash(portOf[d], Size(tab))]
          /\ Hash(portOf[d], Size(tab)) \in 0 .. Size(tab) - 1
      BY <2>1, <3>1, LinkedPlaced
    <3>3. \A e \in tab.slots[Hash(portOf[d], Size(tab))] : portOf[e] = portOf[d] => e = d
      BY <2>1, <3>2 DEF TableOK
    <3> QED
      BY <3>2, <3>3 DEF Lookup
  <2>4. ASSUME NEW port \in Ports PROVE Lookup(port) \subseteq open \cup gone
    <3>1. Hash(port, Size(tab)) \in 0 .. Size(tab) - 1
      BY <2>2, HashInRange
    <3>2. \A d \in Lookup(port) : d \in Linked(tab)
      BY <3>1, InLinked DEF Lookup
    <3> QED
      BY <2>1, <3>2 DEF RegistryInv
  <2> QED
    BY <2>3, <2>4 DEF Findable
<1> QED
  BY <1>1, AlwaysIInv, PTL

\* krs_server_port_manager_destroy leaves no socket open but those whose
\* descriptors the table had refused or lost.
THEOREM SocketsClosed == Spec => []AllClosed
<1>1. IInv => AllClosed
  <2> SUFFICES ASSUME IInv, ~alive PROVE open \subseteq lost
    BY DEF AllClosed
  <2>1. tab = NewTable /\ open \subseteq Linked(tab) \cup lost
    BY DEF IInv, RegistryInv
  <2>2. Linked(tab) = {}
    BY <2>1, NewTableOK
  <2> QED
    BY <2>1, <2>2
<1> QED
  BY <1>1, AlwaysIInv, PTL

\* total_entries, from which krs_lib_port_table_insert computes the load, is
\* the number of links after every insertion and every rebuild.
THEOREM EntriesCorrect == Spec => []EntriesExact
<1>1. IInv => EntriesExact
  BY DEF IInv, TableOK, EntriesExact
<1> QED
  BY <1>1, AlwaysIInv, PTL
=============================================================================
