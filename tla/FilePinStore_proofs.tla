-------------------------- MODULE FilePinStore_proofs --------------------------
(***************************************************************************)
(* Proofs about FilePinStore: acknowledged changes stay in the file and    *)
(* reads see them, for any number of operations, tools, failures and       *)
(* crashes.  For the TypeScript store they suppose that no operation       *)
(* starts while the first load is under way (Covered).                     *)
(***************************************************************************)
EXTENDS FilePinStore, TLAPS

(* Where an operation can be.                                             *)
Statuses == Points \cup {"idle", "returned", "rejected", "absent", "lost"}

Contents == [Tools -> Ops \cup {None}]

(* The SDKs' stores, and the client's when its first load is awaited.      *)
Covered == store # "ts" \/ ~ColdConcurrency

(* A Map or file with these contents has every acknowledged change.        *)
Fresh(m) == \A o \in Acked : NotOutdated(m[tool[o]], o)

TypeInv ==
  /\ pc \in [Ops -> Statuses]
  /\ kind \in [Ops -> {"none", "get", "set", "remove"}]
  /\ tool \in [Ops -> Tools \cup {None}]
  /\ local \in [Ops -> Ops \cup {None}]
  /\ older \in [Ops -> SUBSET Ops]
  /\ DOMAIN value = Ops
  /\ maps \in [Ops -> Contents] /\ disk \in Contents
  /\ chain \in Seq(Ops) /\ payload \in Contents \cup {None}
  /\ cache \in Ops \cup {None}

(* An operation has a tool once it began, and what it must not undo are    *)
(* acknowledged changes of that tool.                                      *)
OpInv ==
  \A o \in Ops :
    /\ pc[o] # "idle" => tool[o] \in Tools
    /\ \A p \in older[o] : p \in Acked /\ tool[p] = tool[o]

(* The client's store: the operation that loads is alone; afterwards there *)
(* is one Map, which has the acknowledged changes and those still on the   *)
(* chain.                                                                  *)
Loading ==
  \A o \in Ops :
    /\ pc[o] \in {"reading", "read"} =>
         cache = None /\ \A p \in Ops : pc[p] \in Points => p = o
    /\ pc[o] = "read" => maps[o] = disk
    /\ pc[o] \in {"loaded", "chained"} => cache # None /\ local[o] = cache

OneMap ==
  /\ cache # None => Fresh(maps[cache])
  /\ \A o \in Ops : pc[o] = "chained" =>
       kind[o] \in {"set", "remove"} /\ NotOutdated(maps[cache][tool[o]], o)

ChainInv ==
  /\ \A i \in 1..Len(chain) : pc[chain[i]] = "chained"
  /\ \A i, j \in 1..Len(chain) : chain[i] = chain[j] => i = j

Writing ==
  payload # None => /\ chain # <<>> /\ Fresh(payload)
                    /\ NotOutdated(payload[tool[Head(chain)]], Head(chain))

ClientInv == Loading /\ OneMap /\ ChainInv /\ Writing

(* The SDKs' stores: a Put works on the file as it still is.               *)
SdkInv ==
  /\ chain = <<>> /\ payload = None
  /\ \A o \in Ops : pc[o] = "loaded" =>
       /\ local[o] = o
       /\ kind[o] = "get" => \A p \in older[o] : NotOutdated(maps[o][tool[o]], p)
       /\ kind[o] = "set" => /\ Fresh(maps[o]) /\ maps[o][tool[o]] = o
                             /\ store = "go" => mutex = o
  /\ store = "python" =>
       \A o, p \in Ops : pc[o] \in Points /\ pc[p] \in Points => o = p

IInv ==
  /\ TypeInv /\ OpInv /\ Fresh(disk) /\ ReadsSeeAcknowledged
  /\ IF store = "ts" THEN ClientInv ELSE store \in {"go", "python"} /\ SdkInv

------------------------------------------------------------------------------
(* Where nothing is acknowledged and no acknowledged operation changes,    *)
(* contents stay as fresh as they are.                                     *)
LEMMA StillFresh ==
  ASSUME Acked' = Acked, NEW m, Fresh(m),
         \A o \in Acked : tool'[o] = tool[o] /\ older'[o] = older[o]
  PROVE  \A o \in Acked' : m[tool'[o]] # None /\ m[tool'[o]] \notin older'[o]
BY DEF Fresh, NotOutdated

(* At the start nothing is acknowledged and there is no Map.               *)
LEMMA InitIInv == Init => IInv
<1> SUFFICES ASSUME Init PROVE IInv
  OBVIOUS
<1>1. TypeInv
  BY DEF Statuses, Init, TypeInv, Contents
<1>2. Acked = {}
  BY DEF Init, Acked
<1>3. OpInv /\ Fresh(disk) /\ ReadsSeeAcknowledged
  BY <1>2 DEF Init, OpInv, Fresh, ReadsSeeAcknowledged
<1>4. ClientInv /\ SdkInv
  BY DEF Init, ClientInv, Loading, OneMap, ChainInv, Writing, SdkInv, Points
<1> QED
  BY <1>1, <1>3, <1>4, StoreAssumption DEF Init, IInv

(* get(), set() or remove() is called: in the client with the Map there    *)
(* is, or alone when there is none.                                        *)
LEMMA BeginStep ==
  ASSUME IInv, Covered, NEW o \in Ops, NEW op \in {"get", "set", "remove"},
         NEW n \in Tools, Begin(o, op, n) \/ BeginSdk(o, op, n)
  PROVE  IInv'
<1>t. TypeInv /\ OpInv /\ Fresh(disk) /\ ReadsSeeAcknowledged
  BY DEF IInv
<1>1. /\ pc[o] = "idle"
      /\ kind' = [kind EXCEPT ![o] = op] /\ tool' = [tool EXCEPT ![o] = n]
      /\ older' = [older EXCEPT ![o] = {p \in Acked : tool[p] = n}]
      /\ UNCHANGED <<store, mutex, disk, cache, maps, chain, payload, poisoned,
                     value, crashes>>
  BY DEF Begin, BeginSdk, Set
<1>2. /\ store = "ts" => /\ local' = [local EXCEPT ![o] = cache]
                         /\ pc' = [pc EXCEPT ![o] = IF cache = None THEN "reading"
                                                   ELSE "loaded"]
                         /\ cache # None \/ \A p \in Ops : pc[p] \notin Points
      /\ store # "ts" => /\ local' = local /\ pc' = [pc EXCEPT ![o] = "reading"]
                         /\ store = "python" => \A p \in Ops : pc[p] \notin Points
  BY DEF Begin, BeginSdk, Set, Covered
<1>3. /\ pc'[o] \in {"reading", "loaded"} /\ \A p \in Ops : p # o => pc'[p] = pc[p]
      /\ local' \in [Ops -> Ops \cup {None}]
      /\ pc' \in [Ops -> Statuses]
  BY <1>t, <1>2 DEF Statuses, TypeInv, Points
<1>4. TypeInv'
  BY <1>t, <1>1, <1>3 DEF TypeInv, Acked
<1>5. Acked' = Acked /\ o \notin Acked
  BY <1>t, <1>1, <1>3 DEF TypeInv, Acked
<1>6. \A p \in Ops : p # o => tool'[p] = tool[p] /\ older'[p] = older[p] /\ kind'[p] = kind[p]
  BY <1>t, <1>1 DEF TypeInv
<1>7. OpInv'
  <2> SUFFICES ASSUME NEW p \in Ops
               PROVE  /\ pc'[p] # "idle" => tool'[p] \in Tools
                      /\ \A q \in older'[p] : q \in Acked' /\ tool'[q] = tool'[p]
    BY DEF OpInv
  <2>1. CASE p = o
    <3>1. tool'[o] = n /\ older'[o] = {q \in Acked : tool[q] = n}
      BY <1>t, <1>1 DEF TypeInv
    <3> QED
      BY <1>5, <1>6, <2>1, <3>1 DEF Acked
  <2>2. CASE p # o
    BY <1>t, <1>3, <1>5, <1>6, <2>2 DEF OpInv, Acked
  <2> QED
    BY <2>1, <2>2
<1>8. \A m : Fresh(m) =>
        \A p \in Acked' : m[tool'[p]] # None /\ m[tool'[p]] \notin older'[p]
  BY <1>t, <1>5, <1>6, StillFresh DEF Acked
<1>9. Fresh(disk)'
  BY <1>t, <1>1, <1>8 DEF Fresh, NotOutdated
<1>10. ReadsSeeAcknowledged'
  <2> SUFFICES ASSUME NEW g \in Ops, kind'[g] = "get", pc'[g] = "returned",
                      NEW p \in older'[g]
               PROVE  NotOutdated(value[g], p)'
    BY DEF ReadsSeeAcknowledged
  <2>1. g # o
    BY <1>3
  <2>2. p \in older[g] /\ p \in Acked /\ NotOutdated(value[g], p)
    BY <1>t, <1>3, <1>6, <2>1 DEF ReadsSeeAcknowledged, OpInv
  <2> QED
    BY <1>1, <1>5, <1>6, <2>2 DEF NotOutdated, Acked
<1>11. CASE store = "ts"
  <2>0. ClientInv
    BY <1>11 DEF IInv
  <2>1. Loading'
    BY <1>t, <1>1, <1>2, <1>3, <1>11, <2>0 DEF ClientInv, Loading, TypeInv, Points
  <2>2. OneMap'
    <3>1. cache' # None => Fresh(maps[cache])'
      BY <1>1, <1>8, <2>0 DEF ClientInv, OneMap, Fresh, NotOutdated
    <3>2. ASSUME NEW p \in Ops, pc'[p] = "chained"
          PROVE  kind'[p] \in {"set", "remove"} /\ NotOutdated(maps[cache][tool[p]], p)'
      <4>1. p # o /\ pc[p] = "chained"
        BY <1>3, <3>2
      <4> QED
        BY <1>1, <1>6, <2>0, <4>1 DEF ClientInv, OneMap, NotOutdated
    <3> QED
      BY <3>1, <3>2 DEF OneMap
  <2>3. ChainInv' /\ (chain # <<>> => Head(chain) \in Ops /\ Head(chain) # o)
    <3>1. ASSUME NEW i \in 1..Len(chain) PROVE chain[i] \in Ops /\ chain[i] # o
      BY <1>t, <1>1, <2>0 DEF TypeInv, ClientInv, ChainInv
    <3>2. ChainInv'
      BY <1>1, <1>3, <2>0, <3>1 DEF ClientInv, ChainInv
    <3>3. chain # <<>> => Head(chain) = chain[1] /\ 1 \in 1..Len(chain)
      BY <1>t DEF TypeInv
    <3> QED
      BY <3>1, <3>2, <3>3
  <2>4. Writing'
    BY <1>1, <1>6, <1>8, <2>0, <2>3 DEF ClientInv, Writing, Fresh, NotOutdated
  <2> QED
    BY <1>1, <1>4, <1>7, <1>9, <1>10, <1>11, <2>1, <2>2, <2>3, <2>4 DEF IInv, ClientInv
<1>12. CASE store # "ts"
  <2>0. SdkInv /\ store \in {"go", "python"} /\ pc'[o] = "reading"
    BY <1>t, <1>2, <1>12 DEF IInv, TypeInv
  <2>1. ASSUME NEW p \in Ops, pc'[p] = "loaded"
        PROVE  /\ local'[p] = p
               /\ kind'[p] = "get" =>
                    \A q \in older'[p] : NotOutdated(maps[p][tool[p]], q)'
               /\ kind'[p] = "set" => /\ Fresh(maps[p])' /\ maps'[p][tool'[p]] = p
                                      /\ store = "go" => mutex = p
    <3>1. p # o /\ pc[p] = "loaded"
      BY <1>3, <2>0, <2>1
    <3>2. \A q \in older[p] : q # o
      BY <1>t, <1>5 DEF OpInv
    <3>3. kind'[p] = "set" => Fresh(maps[p])'
      <4>1. kind'[p] = "set" => Fresh(maps[p])
        BY <1>6, <2>0, <3>1 DEF SdkInv
      <4>2. maps'[p] = maps[p]
        BY <1>1
      <4> QED
        BY <1>8, <4>1, <4>2 DEF Fresh, NotOutdated
    <3>4. ASSUME kind'[p] = "get", NEW q \in older'[p]
          PROVE  NotOutdated(maps[p][tool[p]], q)'
      <4>1. q \in older[p] /\ q \in Ops /\ q # o
        BY <1>t, <1>6, <3>1, <3>2, <3>4 DEF TypeInv
      <4> QED
        BY <1>1, <1>6, <2>0, <3>1, <3>4, <4>1 DEF SdkInv, NotOutdated
    <3> QED
      BY <1>1, <1>2, <1>6, <1>12, <2>0, <3>1, <3>3, <3>4 DEF SdkInv
  <2>2. SdkInv'
    BY <1>1, <1>2, <1>3, <2>0, <2>1 DEF SdkInv
  <2> QED
    BY <1>1, <1>4, <1>7, <1>9, <1>10, <1>12, <2>0, <2>2 DEF IInv
<1> QED
  BY <1>11, <1>12

(* A step of operation o that acknowledges nothing and touches neither the *)
(* file nor a value read.                                                  *)
LEMMA Unacknowledged ==
  ASSUME IInv, NEW o \in Ops, NEW c \in Statuses \ {"idle", "returned"},
         pc' = [pc EXCEPT ![o] = c], pc[o] \in Points,
         UNCHANGED <<kind, tool, older, value, disk>>
  PROVE  /\ Acked' = Acked /\ pc' \in [Ops -> Statuses] /\ pc'[o] = c
         /\ \A p \in Ops : p # o => pc'[p] = pc[p]
         /\ OpInv' /\ Fresh(disk)' /\ ReadsSeeAcknowledged'
<1>t. TypeInv /\ OpInv /\ Fresh(disk) /\ ReadsSeeAcknowledged
  BY DEF IInv
<1>1. /\ pc' \in [Ops -> Statuses] /\ pc'[o] = c
      /\ \A p \in Ops : p # o => pc'[p] = pc[p]
  BY <1>t DEF TypeInv, Statuses
<1>2. Acked' = Acked
  BY <1>1 DEF Acked, Points
<1>3. OpInv'
  BY <1>t, <1>1, <1>2 DEF OpInv, Points
<1>4. Fresh(disk)'
  BY <1>t, <1>2 DEF Fresh, NotOutdated
<1>5. ReadsSeeAcknowledged'
  BY <1>t, <1>1 DEF ReadsSeeAcknowledged, NotOutdated
<1> QED
  BY <1>1, <1>2, <1>3, <1>4, <1>5

(* load() of the client: the file is read, and its contents become the Map *)
(* of every later operation; or it cannot be read.                         *)
LEMMA LoadStep ==
  ASSUME IInv, NEW o \in Ops, store = "ts", UNCHANGED <<store, mutex>>,
         ReadFile(o) \/ ReadFails(o) \/ LoadReturns(o)
  PROVE  IInv'
<1>t. TypeInv /\ ClientInv /\ OpInv /\ Fresh(disk)
  BY DEF IInv
<1>0. /\ pc[o] \in {"reading", "read"} /\ pc[o] \in Points
      /\ UNCHANGED <<disk, chain, payload, kind, tool, value, older>>
  BY DEF ReadFile, ReadFails, LoadReturns, Points
<1>1. cache = None /\ \A p \in Ops : p # o => pc[p] \notin Points
  BY <1>t, <1>0 DEF ClientInv, Loading
<1>2. PICK c \in {"read", "rejected", "loaded"} :
        /\ pc' = [pc EXCEPT ![o] = c]
        /\ c = "read" => /\ pc[o] = "reading" /\ maps' = [maps EXCEPT ![o] = disk]
                         /\ UNCHANGED <<cache, local>>
        /\ c = "rejected" => UNCHANGED <<cache, maps, local>>
        /\ c = "loaded" => /\ pc[o] = "read" /\ cache' = o /\ maps' = maps
                           /\ local' = [local EXCEPT ![o] = o]
  BY DEF ReadFile, ReadFails, LoadReturns, Set
<1>3. c \in Statuses \ {"idle", "returned"}
  BY DEF Statuses, Points
<1>4. /\ Acked' = Acked /\ pc' \in [Ops -> Statuses] /\ pc'[o] = c
      /\ \A p \in Ops : p # o => pc'[p] = pc[p]
      /\ OpInv' /\ Fresh(disk)' /\ ReadsSeeAcknowledged'
  BY <1>0, <1>2, <1>3, Unacknowledged
<1>5. TypeInv'
  BY <1>t, <1>0, <1>2, <1>4 DEF TypeInv, Statuses
<1>6. Loading'
  BY <1>t, <1>0, <1>1, <1>2, <1>4, StoreAssumption DEF TypeInv, ClientInv, Loading, Points
<1>7. chain = <<>>
  <2>1. ASSUME chain # <<>> PROVE FALSE
    <3>1. 1 \in 1..Len(chain) /\ chain[1] \in Ops
      BY <1>t, <2>1 DEF TypeInv
    <3>2. pc[chain[1]] = "chained"
      BY <1>t, <3>1 DEF ClientInv, ChainInv
    <3> QED
      BY <1>0, <1>1, <3>1, <3>2 DEF Points
  <2> QED
    BY <2>1
<1>8. OneMap'
  <2>1. maps[o] = disk /\ pc[o] = "read" => Fresh(maps[o])
    BY <1>t
  <2>2. c = "loaded" => maps[o] = disk
    BY <1>t, <1>2 DEF ClientInv, Loading
  <2>3. c = "loaded" => Fresh(maps[cache])'
    BY <1>0, <1>2, <1>4, <2>1, <2>2 DEF Fresh, NotOutdated
  <2>4. \A p \in Ops : pc'[p] # "chained"
    BY <1>1, <1>2, <1>4 DEF Points
  <2> QED
    BY <1>1, <1>2, <2>3, <2>4 DEF OneMap
<1>9. ChainInv' /\ Writing'
  BY <1>t, <1>0, <1>7 DEF ClientInv, ChainInv, Writing
<1> QED
  BY <1>4, <1>5, <1>6, <1>8, <1>9 DEF IInv, ClientInv

(* A change of the Map: nobody can have acknowledged o yet, so the entry   *)
(* it leaves outdates no change, made or still on the chain.               *)
LEMMA ChangeStep ==
  ASSUME IInv, NEW o \in Ops, store = "ts", UNCHANGED <<store, mutex>>,
         pc[o] = "loaded", kind[o] \in {"set", "remove"},
         maps' = [maps EXCEPT ![local[o]][tool[o]] = o],
         chain' = Append(chain, o), pc' = [pc EXCEPT ![o] = "chained"],
         UNCHANGED <<disk, cache, payload, poisoned, kind, tool, local, value,
                     crashes, older>>
  PROVE  IInv'
<1>t. TypeInv /\ ClientInv /\ OpInv /\ Fresh(disk)
  BY DEF IInv
<1>0. "chained" \in Statuses \ {"idle", "returned"} /\ pc[o] \in Points
  BY DEF Statuses, Points
<1>1. /\ Acked' = Acked /\ pc' \in [Ops -> Statuses] /\ pc'[o] = "chained"
      /\ \A p \in Ops : p # o => pc'[p] = pc[p]
      /\ OpInv' /\ Fresh(disk)' /\ ReadsSeeAcknowledged'
  BY <1>0, Unacknowledged
<1>2. cache \in Ops /\ local[o] = cache /\ tool[o] \in Tools /\ cache # None
  BY <1>t DEF TypeInv, ClientInv, Loading, OpInv
<1>3. /\ maps' \in [Ops -> Contents] /\ maps'[cache][tool[o]] = o
      /\ \A n \in Tools : n # tool[o] => maps'[cache][n] = maps[cache][n]
  BY <1>t, <1>2 DEF TypeInv, Contents
<1>4. TypeInv'
  BY <1>t, <1>1, <1>3 DEF TypeInv, Statuses
<1>5. \A p \in Ops : o \notin older[p]
  BY <1>t DEF OpInv, Acked
<1>6. Loading'
  BY <1>t, <1>1, <1>2 DEF ClientInv, Loading, Points
<1>7. OneMap'
  <2>n. o # None
    BY StoreAssumption
  <2>1. ASSUME NEW p \in Ops, pc[p] # "idle", NotOutdated(maps[cache][tool[p]], p) \/ p = o
        PROVE  NotOutdated(maps[cache][tool[p]], p)'
    <3>1. tool[p] \in Tools
      BY <1>t, <2>1 DEF OpInv
    <3>2. CASE tool[p] = tool[o]
      BY <1>3, <1>5, <2>n, <3>2 DEF NotOutdated
    <3>3. CASE tool[p] # tool[o]
      BY <1>3, <2>1, <3>1, <3>3 DEF NotOutdated
    <3> QED
      BY <3>2, <3>3
  <2>2. Fresh(maps[cache])'
    <3>1. \A p \in Acked : p \in Ops /\ pc[p] # "idle" /\ NotOutdated(maps[cache][tool[p]], p)
      BY <1>t, <1>2 DEF ClientInv, OneMap, Fresh, Acked
    <3> QED
      BY <1>1, <2>1, <3>1 DEF Fresh
  <2>3. ASSUME NEW p \in Ops, pc'[p] = "chained"
        PROVE  kind'[p] \in {"set", "remove"} /\ NotOutdated(maps[cache][tool[p]], p)'
    <3>1. CASE p = o
      BY <2>1, <3>1
    <3>2. CASE p # o
      BY <1>t, <1>1, <2>1, <2>3, <3>2 DEF ClientInv, OneMap
    <3> QED
      BY <3>1, <3>2
  <2> QED
    BY <2>2, <2>3 DEF OneMap
<1>8. /\ Len(chain') = Len(chain) + 1 /\ chain'[Len(chain) + 1] = o /\ Len(chain) \in Nat
      /\ \A i \in 1..Len(chain) : chain'[i] = chain[i] /\ chain[i] \in Ops
      /\ chain # <<>> => Head(chain') = Head(chain)
      /\ chain' # <<>>
  BY <1>t DEF TypeInv
<1>9. ChainInv'
  <2>1. \A i \in 1..Len(chain) : pc[chain[i]] = "chained"
    BY <1>t DEF ClientInv, ChainInv
  <2>2. \A i \in 1..Len(chain) : chain[i] # o
    BY <2>1
  <2>3. \A i \in 1..Len(chain') : i \in 1..Len(chain) \/ i = Len(chain) + 1
    BY <1>8
  <2>4. \A i, j \in 1..Len(chain) : chain[i] = chain[j] => i = j
    BY <1>t DEF ClientInv, ChainInv
  <2>5. ASSUME NEW i \in 1..Len(chain') PROVE pc'[chain'[i]] = "chained"
    BY <1>1, <1>8, <2>1, <2>2, <2>3
  <2>6. ASSUME NEW i \in 1..Len(chain'), NEW j \in 1..Len(chain'), chain'[i] = chain'[j]
        PROVE  i = j
    BY <1>8, <2>2, <2>3, <2>4, <2>6
  <2> QED
    BY <2>5, <2>6 DEF ChainInv
<1>10. Writing'
  BY <1>t, <1>1, <1>8 DEF ClientInv, Writing, Fresh, NotOutdated
<1> QED
  BY <1>1, <1>4, <1>6, <1>7, <1>9, <1>10 DEF IInv, ClientInv

(* set() and remove() in the client; a remove() of nothing returns.        *)
LEMMA EntryStep ==
  ASSUME IInv, NEW o \in Ops, store = "ts", UNCHANGED <<store, mutex>>,
         SetPin(o) \/ RemoveEntry(o)
  PROVE  IInv'
<1>1. CASE pc' = [pc EXCEPT ![o] = "absent"] /\ UNCHANGED <<maps, chain>>
  <2>t. TypeInv /\ ClientInv /\ OpInv
    BY DEF IInv
  <2>0. "absent" \in Statuses \ {"idle", "returned"} /\ pc[o] \in Points
        /\ pc[o] = "loaded"
        /\ UNCHANGED <<disk, cache, payload, kind, tool, local, value, older>>
    BY DEF SetPin, RemoveEntry, Statuses, Points
  <2>1. /\ Acked' = Acked /\ pc' \in [Ops -> Statuses] /\ pc'[o] = "absent"
        /\ \A p \in Ops : p # o => pc'[p] = pc[p]
        /\ OpInv' /\ Fresh(disk)' /\ ReadsSeeAcknowledged'
    BY <1>1, <2>0, Unacknowledged
  <2>2. TypeInv'
    BY <1>1, <2>t, <2>0, <2>1 DEF TypeInv, Statuses
  <2>3. Loading' /\ OneMap'
    BY <1>1, <2>t, <2>0, <2>1 DEF ClientInv, Loading, OneMap, Fresh, NotOutdated, Points
  <2>4. ChainInv'
    <3>1. \A i \in 1..Len(chain) : chain[i] \in Ops /\ chain[i] # o
      BY <2>t, <2>0 DEF TypeInv, ClientInv, ChainInv
    <3> QED
      BY <1>1, <2>t, <2>1, <3>1 DEF ClientInv, ChainInv
  <2>5. Writing'
    BY <1>1, <2>t, <2>0, <2>1 DEF ClientInv, Writing, Fresh, NotOutdated
  <2> QED
    BY <2>1, <2>2, <2>3, <2>4, <2>5 DEF IInv, ClientInv
<1>2. CASE /\ pc[o] = "loaded" /\ kind[o] \in {"set", "remove"}
           /\ maps' = [maps EXCEPT ![local[o]][tool[o]] = o]
           /\ chain' = Append(chain, o) /\ pc' = [pc EXCEPT ![o] = "chained"]
           /\ UNCHANGED <<disk, cache, payload, poisoned, kind, tool, local, value,
                          crashes, older>>
  BY <1>2, ChangeStep
<1> QED
  BY <1>1, <1>2 DEF SetPin, RemoveEntry, Set

(* get() returns what the Map holds: of the client's store, the one Map;   *)
(* of an SDK's, the file as it was after the get() began.                  *)
LEMMA GetStep ==
  ASSUME IInv, NEW o \in Ops, UNCHANGED <<store, mutex>>, Get(o)
  PROVE  IInv'
<1>t. TypeInv /\ OpInv /\ Fresh(disk) /\ ReadsSeeAcknowledged
  BY DEF IInv
<1>1. /\ pc[o] = "loaded" /\ kind[o] = "get"
      /\ value' = [value EXCEPT ![o] = maps[local[o]][tool[o]]]
      /\ pc' = [pc EXCEPT ![o] = "returned"]
      /\ UNCHANGED <<disk, cache, maps, chain, payload, poisoned, kind, tool,
                     local, crashes, older>>
  BY DEF Get, Set
<1>2. /\ pc'[o] = "returned" /\ \A p \in Ops : p # o => pc'[p] = pc[p]
      /\ value'[o] = maps[local[o]][tool[o]]
      /\ \A p \in Ops : p # o => value'[p] = value[p]
  BY <1>t, <1>1 DEF TypeInv
<1>3. TypeInv'
  BY <1>t, <1>1 DEF Statuses, TypeInv
<1>4. Acked' = Acked
  BY <1>1, <1>2 DEF Acked
<1>5. OpInv' /\ Fresh(disk)'
  BY <1>t, <1>1, <1>2, <1>4 DEF OpInv, Fresh, NotOutdated
<1>6. ASSUME NEW p \in older[o] PROVE NotOutdated(maps[local[o]][tool[o]], p)
  <2>0. p \in Acked /\ tool[p] = tool[o]
    BY <1>t DEF OpInv
  <2>1. CASE store = "ts"
    <3>1. cache # None /\ local[o] = cache /\ Fresh(maps[cache])
      BY <1>1, <2>1 DEF IInv, ClientInv, Loading, OneMap
    <3> QED
      BY <2>0, <3>1 DEF Fresh
  <2>2. CASE store # "ts"
    BY <1>1, <2>2 DEF IInv, SdkInv
  <2> QED
    BY <2>1, <2>2
<1>7. ReadsSeeAcknowledged'
  BY <1>t, <1>1, <1>2, <1>6 DEF ReadsSeeAcknowledged, NotOutdated
<1>8. CASE store = "ts"
  <2>0. ClientInv
    BY <1>8 DEF IInv
  <2>1. Loading' /\ OneMap'
    BY <1>1, <1>2, <1>4, <2>0 DEF ClientInv, Loading, OneMap, Fresh, NotOutdated, Points
  <2>2. ChainInv'
    <3>1. \A i \in 1..Len(chain) : chain[i] \in Ops /\ chain[i] # o
      BY <1>t, <1>1, <2>0 DEF TypeInv, ClientInv, ChainInv
    <3> QED
      BY <1>1, <1>2, <2>0, <3>1 DEF ClientInv, ChainInv
  <2>3. Writing'
    BY <1>1, <1>4, <2>0 DEF ClientInv, Writing, Fresh, NotOutdated
  <2> QED
    BY <1>3, <1>5, <1>7, <1>8, <2>1, <2>2, <2>3 DEF IInv, ClientInv
<1>9. CASE store # "ts"
  <2>0. SdkInv /\ store \in {"go", "python"}
    BY <1>9 DEF IInv
  <2>1. SdkInv'
    BY <1>1, <1>2, <1>4, <2>0 DEF SdkInv, Fresh, NotOutdated, Points
  <2> QED
    BY <1>3, <1>5, <1>7, <1>9, <2>0, <2>1 DEF IInv
<1> QED
  BY <1>8, <1>9

(* flush() serialises the Map, which has the change at the head of the     *)
(* chain.                                                                  *)
LEMMA FlushStartsStep ==
  ASSUME IInv, UNCHANGED <<store, mutex>>, FlushStarts
  PROVE  IInv'
<1>t. TypeInv /\ OpInv /\ Fresh(disk) /\ ReadsSeeAcknowledged
  BY DEF IInv
<1>1. /\ chain # <<>> /\ payload' = maps[local[Head(chain)]]
      /\ UNCHANGED <<disk, cache, maps, chain, poisoned, pc, kind, tool, local,
                     value, crashes, older>>
  BY DEF FlushStarts
<1>2. store = "ts" /\ ClientInv
  BY <1>1 DEF IInv, SdkInv
<1>3. PICK h \in Ops : h = Head(chain) /\ pc[h] = "chained"
  <2>1. 1 \in 1..Len(chain) /\ chain[1] \in Ops /\ Head(chain) = chain[1]
    BY <1>t, <1>1 DEF TypeInv
  <2> QED
    BY <1>2, <2>1 DEF ClientInv, ChainInv
<1>4. /\ cache \in Ops /\ payload' = maps[cache] /\ Fresh(maps[cache])
      /\ NotOutdated(maps[cache][tool[h]], h)
  BY <1>t, <1>1, <1>2, <1>3 DEF TypeInv, ClientInv, Loading, OneMap
<1>5. TypeInv'
  BY <1>t, <1>1, <1>4 DEF TypeInv
<1>6. Acked' = Acked
  BY <1>1 DEF Acked
<1>7. OpInv' /\ Fresh(disk)' /\ ReadsSeeAcknowledged'
  BY <1>t, <1>1, <1>6 DEF OpInv, Fresh, NotOutdated, ReadsSeeAcknowledged
<1>8. Loading' /\ OneMap' /\ ChainInv'
  BY <1>1, <1>2, <1>6 DEF ClientInv, Loading, OneMap, ChainInv, Fresh, NotOutdated
<1>9. Writing'
  BY <1>1, <1>3, <1>4, <1>6 DEF Writing, Fresh, NotOutdated
<1> QED
  BY <1>2, <1>5, <1>7, <1>8, <1>9 DEF IInv, ClientInv

(* A flush settles: what it wrote becomes the file and its change is       *)
(* acknowledged, or the change is rejected and the file stays.             *)
LEMMA SettleStep ==
  ASSUME IInv, UNCHANGED <<store, mutex>>, FlushEnds \/ FlushFails \/ FlushSkipped
  PROVE  IInv'
<1>t. TypeInv /\ OpInv /\ Fresh(disk) /\ ReadsSeeAcknowledged
  BY DEF IInv
<1>1. PICK how \in {"returned", "rejected"} :
        /\ pc' = [pc EXCEPT ![Head(chain)] = how] /\ chain' = Tail(chain) /\ payload' = None
        /\ how = "returned" => payload # None /\ disk' = payload
        /\ how = "rejected" => disk' = disk
        /\ payload # None \/ chain # <<>>
        /\ UNCHANGED <<cache, maps, kind, tool, local, value, crashes, older>>
  BY DEF FlushEnds, FlushFails, FlushSkipped, Settle, Set
<1>2. store = "ts" /\ ClientInv /\ chain # <<>>
  BY <1>1 DEF IInv, SdkInv, ClientInv, Writing
<1>3. PICK h \in Ops : h = Head(chain) /\ pc[h] = "chained" /\ h = chain[1]
  <2>1. 1 \in 1..Len(chain) /\ chain[1] \in Ops /\ Head(chain) = chain[1]
    BY <1>t, <1>2 DEF TypeInv
  <2> QED
    BY <1>2, <2>1 DEF ClientInv, ChainInv
<1>4. /\ pc'[h] = how /\ \A p \in Ops : p # h => pc'[p] = pc[p]
      /\ pc' \in [Ops -> Statuses]
  BY <1>t, <1>1, <1>3 DEF Statuses, TypeInv
<1>5. TypeInv'
  <2>1. Tail(chain) \in Seq(Ops)
    BY <1>t, <1>2 DEF TypeInv
  <2> QED
    BY <1>t, <1>1, <1>4, <2>1 DEF TypeInv
<1>6. /\ how = "returned" => Acked' = Acked \cup {h}
      /\ how = "rejected" => Acked' = Acked
      /\ Acked \subseteq Acked'
  <2>1. kind[h] \in {"set", "remove"}
    BY <1>2, <1>3 DEF ClientInv, OneMap
  <2> QED
    BY <1>1, <1>3, <1>4, <2>1 DEF Acked
<1>7. OpInv'
  BY <1>t, <1>1, <1>3, <1>4, <1>6 DEF OpInv
<1>8. ReadsSeeAcknowledged'
  <2>1. kind[h] # "get"
    BY <1>2, <1>3 DEF ClientInv, OneMap
  <2> QED
    BY <1>t, <1>1, <1>4, <2>1 DEF ReadsSeeAcknowledged, NotOutdated
<1>9. ASSUME NEW m, Fresh(m), how = "returned" => NotOutdated(m[tool[h]], h)
      PROVE  \A p \in Acked' : m[tool[p]] # None /\ m[tool[p]] \notin older[p]
  BY <1>1, <1>6, <1>9 DEF Fresh, NotOutdated
<1>10. Fresh(disk)'
  <2>1. how = "returned" => Fresh(payload) /\ NotOutdated(payload[tool[h]], h)
    BY <1>1, <1>2, <1>3 DEF ClientInv, Writing
  <2>2. how = "returned" =>
          \A p \in Acked' : payload[tool[p]] # None /\ payload[tool[p]] \notin older[p]
    BY <1>9, <2>1
  <2>3. how = "rejected" =>
          \A p \in Acked' : disk[tool[p]] # None /\ disk[tool[p]] \notin older[p]
    BY <1>t, <1>9
  <2> QED
    BY <1>1, <2>2, <2>3 DEF Fresh, NotOutdated
<1>11. Loading'
  <2>1. \A p \in Ops : pc'[p] \in Points => pc[p] = pc'[p] /\ p # h
    BY <1>1, <1>3, <1>4 DEF Points
  <2>2. \A p \in Ops : pc[p] \notin {"reading", "read"}
    BY <1>2, <1>3 DEF ClientInv, Loading, Points
  <2> QED
    BY <1>1, <1>2, <2>1, <2>2 DEF ClientInv, Loading, Points
<1>12. OneMap'
  <2>1. cache # None /\ Fresh(maps[cache]) /\ NotOutdated(maps[cache][tool[h]], h)
    BY <1>2, <1>3 DEF ClientInv, Loading, OneMap
  <2>2. \A p \in Acked' : /\ maps[cache][tool[p]] # None
                          /\ maps[cache][tool[p]] \notin older[p]
    BY <1>9, <2>1
  <2>3. Fresh(maps[cache])'
    BY <1>1, <2>2 DEF Fresh, NotOutdated
  <2>4. \A p \in Ops : pc'[p] = "chained" => pc[p] = "chained"
    BY <1>4
  <2> QED
    BY <1>1, <1>2, <2>3, <2>4 DEF ClientInv, OneMap, NotOutdated
<1>13. ChainInv'
  <2>1. /\ Len(chain) \in Nat /\ Len(chain) >= 1 /\ Len(chain') = Len(chain) - 1
        /\ \A i \in 1..Len(chain') : chain'[i] = chain[i + 1]
        /\ \A i \in 1..Len(chain) : chain[i] \in Ops
    BY <1>t, <1>1, <1>2 DEF TypeInv
  <2>2. \A i \in 1..Len(chain') : i + 1 \in 1..Len(chain) /\ i + 1 # 1
    BY <2>1
  <2>3. \A i, j \in 1..Len(chain) : chain[i] = chain[j] => i = j
    BY <1>2 DEF ClientInv, ChainInv
  <2>4. \A i \in 1..Len(chain) : pc[chain[i]] = "chained"
    BY <1>2 DEF ClientInv, ChainInv
  <2>5. ASSUME NEW i \in 1..Len(chain') PROVE pc'[chain'[i]] = "chained"
    <3>1. chain[i + 1] # h /\ chain[i + 1] \in Ops /\ pc[chain[i + 1]] = "chained"
      BY <1>3, <2>1, <2>2, <2>3, <2>4
    <3> QED
      BY <1>4, <2>1, <3>1
  <2>6. ASSUME NEW i \in 1..Len(chain'), NEW j \in 1..Len(chain'), chain'[i] = chain'[j]
        PROVE  i = j
    <3>1. i + 1 = j + 1
      BY <2>1, <2>2, <2>3, <2>6
    <3> QED
      BY <3>1
  <2> QED
    BY <2>5, <2>6 DEF ChainInv
<1>14. Writing'
  BY <1>1 DEF Writing
<1> QED
  BY <1>2, <1>5, <1>7, <1>8, <1>10, <1>11, <1>12, <1>13, <1>14 DEF IInv, ClientInv

(* load of the SDKs: a Put works under the lock, or alone, on the file.    *)
LEMMA SdkLoadStep ==
  ASSUME IInv, NEW o \in Ops, store # "ts", UNCHANGED store,
         load(o) \/ load_py(o) \/ (ReadFails(o) /\ UNCHANGED mutex)
  PROVE  IInv'
<1>t. TypeInv /\ OpInv /\ Fresh(disk) /\ SdkInv /\ store \in {"go", "python"}
  BY DEF IInv
<1>0. /\ pc[o] = "reading" /\ pc[o] \in Points
      /\ UNCHANGED <<disk, cache, chain, payload, kind, tool, value, older>>
  BY DEF load, load_py, Loaded, ReadFails, Points
<1>1. PICK c \in {"loaded", "rejected"} :
        /\ pc' = [pc EXCEPT ![o] = c]
        /\ c = "rejected" => UNCHANGED <<maps, local, mutex>>
        /\ c = "loaded" =>
             /\ maps' = [maps EXCEPT ![o] = IF kind[o] = "set"
                                            THEN [disk EXCEPT ![tool[o]] = o] ELSE disk]
             /\ local' = [local EXCEPT ![o] = o]
             /\ IF store = "go" /\ kind[o] = "set" THEN mutex = None /\ mutex' = o
                ELSE UNCHANGED mutex
  BY DEF load, load_py, Loaded, ReadFails, Set
<1>2. c \in Statuses \ {"idle", "returned"}
  BY DEF Statuses, Points
<1>3. /\ Acked' = Acked /\ pc' \in [Ops -> Statuses] /\ pc'[o] = c
      /\ \A p \in Ops : p # o => pc'[p] = pc[p]
      /\ OpInv' /\ Fresh(disk)' /\ ReadsSeeAcknowledged'
  BY <1>0, <1>1, <1>2, Unacknowledged
<1>4. tool[o] \in Tools /\ o # None /\ \A p \in Ops : o \notin older[p]
  BY <1>t, <1>0, StoreAssumption DEF OpInv, Acked
<1>5. /\ maps' \in [Ops -> Contents] /\ \A p \in Ops : p # o => maps'[p] = maps[p]
      /\ local' \in [Ops -> Ops \cup {None}] /\ \A p \in Ops : p # o => local'[p] = local[p]
  <2>1. [disk EXCEPT ![tool[o]] = o] \in Contents /\ disk \in Contents
    BY <1>t, <1>4 DEF TypeInv, Contents
  <2>2. CASE c = "loaded"
    <3>1. PICK m \in Contents : maps' = [maps EXCEPT ![o] = m]
      BY <1>1, <2>1, <2>2
    <3> QED
      BY <1>t, <1>1, <2>2, <3>1 DEF TypeInv
  <2>3. CASE c = "rejected"
    BY <1>t, <1>1, <2>3 DEF TypeInv
  <2> QED
    BY <1>1, <2>2, <2>3
<1>6. TypeInv'
  BY <1>t, <1>0, <1>3, <1>5 DEF TypeInv, Statuses
<1>7. CASE c = "loaded"
  <2>1. local'[o] = o
    BY <1>t, <1>1, <1>7 DEF TypeInv
  <2>2. ASSUME kind[o] = "get" PROVE \A q \in older[o] : NotOutdated(maps[o][tool[o]], q)'
    <3>1. maps'[o] = disk
      BY <1>t, <1>1, <1>7, <2>2 DEF TypeInv
    <3>2. \A q \in older[o] : q \in Acked /\ tool[q] = tool[o]
      BY <1>t DEF OpInv
    <3> QED
      BY <1>t, <1>0, <3>1, <3>2 DEF Fresh, NotOutdated
  <2>3. ASSUME kind[o] = "set"
        PROVE  Fresh(maps[o])' /\ maps'[o][tool[o]] = o
    <3>1. maps'[o] = [disk EXCEPT ![tool[o]] = o]
      BY <1>t, <1>1, <1>7, <2>3 DEF TypeInv
    <3>2. /\ maps'[o][tool[o]] = o
          /\ \A n \in Tools : n # tool[o] => maps'[o][n] = disk[n]
      BY <1>t, <1>4, <3>1 DEF TypeInv, Contents
    <3>3. ASSUME NEW p \in Acked
          PROVE  maps'[o][tool[p]] # None /\ maps'[o][tool[p]] \notin older[p]
      <4>1. tool[p] \in Tools /\ p \in Ops /\ NotOutdated(disk[tool[p]], p)
        BY <1>t DEF Acked, OpInv, Fresh
      <4> QED
        BY <1>4, <3>2, <4>1 DEF NotOutdated
    <3> QED
      BY <1>0, <1>3, <3>2, <3>3 DEF Fresh, NotOutdated
  <2>4. ASSUME NEW p \in Ops, p # o, pc[p] = "loaded", kind[p] = "set"
        PROVE  Fresh(maps[p])' /\ (store = "go" => mutex' = p)
    <3>1. Fresh(maps[p]) /\ maps'[p] = maps[p]
      BY <1>t, <1>5, <2>4 DEF SdkInv
    <3>2. store = "go" => mutex' = p
      BY <1>t, <1>1, <1>7, <2>4, StoreAssumption DEF SdkInv
    <3> QED
      BY <1>0, <1>3, <3>1, <3>2 DEF Fresh, NotOutdated
  <2>5. SdkInv'
    <3>1. chain' = <<>> /\ payload' = None
      BY <1>t, <1>0 DEF SdkInv
    <3>2. ASSUME NEW p \in Ops, pc'[p] = "loaded"
          PROVE  /\ local'[p] = p
                 /\ kind'[p] = "get" =>
                      \A q \in older'[p] : NotOutdated(maps[p][tool[p]], q)'
                 /\ kind'[p] = "set" => /\ Fresh(maps[p])' /\ maps'[p][tool'[p]] = p
                                        /\ store = "go" => mutex' = p
      <4>1. CASE p = o
        BY <1>0, <1>1, <1>7, <2>1, <2>2, <2>3, <4>1
      <4>2. CASE p # o
        BY <1>t, <1>0, <1>3, <1>5, <2>4, <3>2, <4>2 DEF SdkInv, NotOutdated
      <4> QED
        BY <4>1, <4>2
    <3>3. store = "python" =>
            \A q, p \in Ops : pc'[q] \in Points /\ pc'[p] \in Points => q = p
      BY <1>t, <1>0, <1>3 DEF SdkInv
    <3> QED
      BY <3>1, <3>2, <3>3 DEF SdkInv
  <2> QED
    BY <1>t, <1>3, <1>6, <2>5 DEF IInv
<1>8. CASE c = "rejected"
  <2>1. SdkInv'
    BY <1>t, <1>0, <1>1, <1>3, <1>8 DEF SdkInv, Fresh, NotOutdated, Points
  <2> QED
    BY <1>t, <1>3, <1>6, <2>1 DEF IInv
<1> QED
  BY <1>1, <1>7, <1>8

(* The rename of an SDK's Put: no other Put is at work, so the file        *)
(* becomes what it was with the new pin.                                   *)
LEMMA SdkPutStep ==
  ASSUME IInv, NEW o \in Ops, store # "ts", UNCHANGED store, Put(o) \/ put_py(o)
  PROVE  IInv'
<1>t. TypeInv /\ OpInv /\ Fresh(disk) /\ SdkInv /\ ReadsSeeAcknowledged
      /\ store \in {"go", "python"}
  BY DEF IInv
<1>0. /\ pc[o] = "loaded" /\ kind[o] = "set" /\ pc[o] \in Points
      /\ UNCHANGED <<cache, maps, local, chain, payload, kind, tool, value, older>>
  BY DEF Put, put_py, Renamed, Points
<1>1. PICK c \in {"returned", "rejected"} :
        /\ pc' = [pc EXCEPT ![o] = c]
        /\ disk' = IF c = "returned" THEN maps[o] ELSE disk
  BY DEF Put, put_py, Renamed, Set
<1>2. /\ pc'[o] = c /\ \A p \in Ops : p # o => pc'[p] = pc[p]
      /\ pc' \in [Ops -> Statuses]
  BY <1>t, <1>1 DEF Statuses, TypeInv
<1>3. TypeInv'
  BY <1>t, <1>0, <1>1, <1>2 DEF TypeInv
<1>4. Acked' = IF c = "returned" THEN Acked \cup {o} ELSE Acked
  BY <1>0, <1>1, <1>2 DEF Acked
<1>5. OpInv'
  BY <1>t, <1>0, <1>2, <1>4 DEF OpInv
<1>6. ReadsSeeAcknowledged'
  BY <1>t, <1>0, <1>2 DEF ReadsSeeAcknowledged, NotOutdated
<1>7. Fresh(disk)'
  <2>1. Fresh(maps[o]) /\ maps[o][tool[o]] = o /\ o # None /\ o \notin older[o]
    BY <1>t, <1>0, StoreAssumption DEF SdkInv, OpInv, Acked
  <2> QED
    BY <1>t, <1>0, <1>1, <1>4, <2>1 DEF Fresh, NotOutdated
<1>8. ASSUME NEW p \in Ops, pc'[p] = "loaded", kind[p] = "set" PROVE FALSE
  <2>1. p # o /\ pc[p] = "loaded"
    BY <1>1, <1>2, <1>8
  <2> QED
    BY <1>t, <1>0, <1>8, <2>1 DEF SdkInv, Points
<1>9. SdkInv'
  BY <1>t, <1>0, <1>1, <1>2, <1>8 DEF SdkInv, NotOutdated, Points
<1> QED
  BY <1>t, <1>3, <1>5, <1>6, <1>7, <1>9 DEF IInv

(* A crash leaves the file, and no operation at work.                      *)
LEMMA CrashStep ==
  ASSUME IInv, Crash
  PROVE  IInv'
<1>t. TypeInv /\ OpInv /\ Fresh(disk) /\ ReadsSeeAcknowledged
  BY DEF IInv
<1>1. /\ pc' = [o \in Ops |-> IF pc[o] \in Points THEN "lost" ELSE pc[o]]
      /\ cache' = None /\ maps' = [o \in Ops |-> [n \in Tools |-> None]]
      /\ local' = [o \in Ops |-> None] /\ chain' = <<>> /\ payload' = None
      /\ UNCHANGED <<store, disk, kind, tool, value, older>>
  BY DEF Crash
<1>2. /\ \A o \in Ops : pc'[o] \notin Points
      /\ \A o \in Ops : pc'[o] # "lost" => pc'[o] = pc[o]
      /\ \A o \in Ops : pc'[o] = "lost" => pc[o] \in Points \cup {"lost"}
      /\ \A o \in Ops : pc[o] = "returned" => pc'[o] = "returned"
  BY <1>1 DEF Points
<1>3. TypeInv'
  <2>1. pc' \in [Ops -> Statuses]
    BY <1>t, <1>1 DEF Statuses, TypeInv
  <2>2. maps' \in [Ops -> Contents] /\ local' \in [Ops -> Ops \cup {None}]
        /\ chain' \in Seq(Ops)
    BY <1>1 DEF Contents
  <2> QED
    BY <1>t, <1>1, <2>1, <2>2 DEF TypeInv
<1>4. Acked' = Acked
  BY <1>1, <1>2 DEF Acked
<1>5. OpInv'
  BY <1>t, <1>1, <1>2, <1>4 DEF OpInv, Points
<1>6. Fresh(disk)' /\ ReadsSeeAcknowledged'
  BY <1>t, <1>1, <1>2, <1>4 DEF Fresh, ReadsSeeAcknowledged, NotOutdated
<1>7. ClientInv' /\ SdkInv'
  BY <1>1, <1>2 DEF ClientInv, Loading, OneMap, ChainInv, Writing, SdkInv, Points
<1>8. store \in {"ts", "go", "python"}
  BY DEF IInv
<1> QED
  BY <1>1, <1>3, <1>5, <1>6, <1>7, <1>8 DEF IInv

(* Every step of a covered store keeps the invariant.                      *)
LEMMA StoreInvariant == Spec => [](Covered => IInv)
<1>1. Init => (Covered => IInv)
  BY InitIInv
<1>2. (Covered => IInv) /\ [Next]_vars => (Covered => IInv)'
  <2>0. [Next]_vars => store' = store
    BY DEF Next, vars, Begin, BeginSdk, Step, Flush, Crash
  <2> SUFFICES ASSUME Covered', Covered => IInv, [Next]_vars PROVE IInv'
    OBVIOUS
  <2>1. Covered /\ IInv /\ store' = store
    BY <2>0 DEF Covered
  <2>2. ASSUME NEW o \in Ops, NEW op \in {"get", "set", "remove"}, NEW n \in Tools,
               Begin(o, op, n) \/ BeginSdk(o, op, n)
        PROVE  IInv'
    BY <2>1, <2>2, BeginStep
  <2>3. ASSUME NEW o \in Ops, Step(o) PROVE IInv'
    <3>1. CASE store = "ts"
      BY <2>1, <2>3, <3>1, LoadStep, EntryStep, GetStep DEF Step
    <3>2. CASE store # "ts"
      BY <2>1, <2>3, <3>2, SdkLoadStep, SdkPutStep, GetStep DEF Step
    <3> QED
      BY <3>1, <3>2
  <2>4. CASE Flush
    BY <2>1, <2>4, FlushStartsStep, SettleStep DEF Flush
  <2>5. CASE UNCHANGED vars
    <3>1. Acked' = Acked
      BY <2>5 DEF Acked, vars
    <3>2. /\ TypeInv' /\ OpInv' /\ Fresh(disk)' /\ ReadsSeeAcknowledged'
      BY <2>1, <2>5, <3>1 DEF IInv, TypeInv, OpInv, Fresh, ReadsSeeAcknowledged,
                              NotOutdated, vars
    <3>3. store = "ts" => ClientInv'
      BY <2>1, <2>5, <3>1 DEF IInv, ClientInv, Loading, OneMap, ChainInv, Writing,
                              Fresh, NotOutdated, vars
    <3>4. store # "ts" => SdkInv'
      BY <2>1, <2>5, <3>1 DEF IInv, SdkInv, Fresh, NotOutdated, vars
    <3> QED
      BY <2>1, <3>2, <3>3, <3>4 DEF IInv
  <2> QED
    BY <2>1, <2>2, <2>3, <2>4, <2>5, CrashStep DEF Next
<1> QED
  BY <1>1, <1>2, PTL DEF Spec

(* Once set(), remove() or Put returned, its change or a newer one is in   *)
(* the file for good: through crashes, failing writes and any other        *)
(* operation, in all three stores.  The client's must not be called while  *)
(* its first load is under way.                                            *)
THEOREM PinsSurvive == Spec => [](Covered => AcknowledgedSurvives)
<1>1. IInv => AcknowledgedSurvives
  BY DEF IInv, Fresh, AcknowledgedSurvives
<1> QED
  BY <1>1, StoreInvariant, PTL

(* A get() that begins after a change of its tool was acknowledged returns *)
(* that change or a newer one, under the same proviso.                     *)
THEOREM ReadsAreCurrent == Spec => [](Covered => ReadsSeeAcknowledged)
<1>1. IInv => ReadsSeeAcknowledged
  BY DEF IInv
<1> QED
  BY <1>1, StoreInvariant, PTL
==============================================================================
