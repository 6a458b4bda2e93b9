----------------------------- MODULE FilePinStore -----------------------------
(***************************************************************************)
(* packages/client/src/file-pin-store.ts: pins in one JSON file, read once *)
(* into a lazily loaded Map and flushed, after every set, by a chain of    *)
(* promises that writes a temporary file and renames it.  The queue of     *)
(* file-audit-queue.ts is the same code, whose set() is called enqueue(),  *)
(* with a remove(); the model is of the two at once.                       *)
(*                                                                         *)
(* Every get(), set() and remove() is an operation of its own and runs     *)
(* from await to await.  A Map is an object: two loads make two of them,   *)
(* so a Map is named by the operation that created it.  The entry a set()  *)
(* stores is named by that operation too, and so is the absence a remove() *)
(* leaves behind.                                                          *)
(*                                                                         *)
(* The stores of the Go and the Python SDK (pinstore.go, pin_store.py)     *)
(* promise the same and work differently: they keep no Map, and a Put      *)
(* reads the file, adds its pin and renames.  Each store has its own file: *)
(* the SDKs list the pins where the client keys them by name.              *)
(***************************************************************************)
EXTENDS Integers, Sequences

CONSTANTS
  Ops,             \* calls of get(), set() and remove()
  Tools,
  Stores,          \* implementations: "ts", "go", "python"
  ColdConcurrency, \* may operations start while the first load is under way?
  MayFail,         \* may reads and writes of the file fail?
  MaxCrashes,      \* bound on the number of process restarts
  None

ASSUME StoreAssumption ==
  /\ None \notin Ops
  /\ Stores \subseteq {"ts", "go", "python"}
  /\ ColdConcurrency \in BOOLEAN /\ MayFail \in BOOLEAN
  /\ MaxCrashes \in Nat

VARIABLES
  store,    \* the implementation at work
  mutex,    \* FilePinStore.mu of the Go SDK
  disk,     \* contents of the pin file; a missing file holds no pin
  cache,    \* this.cache: the Map it refers to
  maps,     \* contents of the Maps, by the operation that created them
  chain,    \* writeChain: the operations whose flush has not settled
  payload,  \* what the flush at the head of the chain is writing
  poisoned, \* did a flush reject?  Then the chain stays rejected.
  pc, kind, tool,
  local,    \* the Map the operation got from load()
  value,    \* the pin get() returned
  crashes,
  older     \* history: the changes acknowledged when the operation began

vars == <<store, mutex, disk, cache, maps, chain, payload, poisoned, pc, kind, tool, local,
          value, crashes, older>>

Points == {"reading", "read", "loaded", "chained"}

Init ==
  /\ store \in Stores
  /\ mutex = None
  /\ disk = [n \in Tools |-> None]
  /\ cache = None
  /\ maps = [o \in Ops |-> [n \in Tools |-> None]]
  /\ chain = <<>>
  /\ payload = None
  /\ poisoned = FALSE
  /\ pc = [o \in Ops |-> "idle"]
  /\ kind = [o \in Ops |-> "none"]
  /\ tool = [o \in Ops |-> None]
  /\ local = [o \in Ops |-> None]
  /\ value = [o \in Ops |-> None]
  /\ crashes = 0
  /\ older = [o \in Ops |-> {}]

------------------------------------------------------------------------------
Set(f, o, v) == [f EXCEPT ![o] = v]

Acked == {o \in Ops : kind[o] \in {"set", "remove"} /\ pc[o] = "returned"}

(* get, set and remove all start with load(), which returns this.cache     *)
(* when there is one and reads the file otherwise.                         *)
Begin(o, op, n) ==
  /\ pc[o] = "idle"
  /\ store = "ts"
  /\ ColdConcurrency \/ cache # None \/ \A p \in Ops : pc[p] \notin Points
  /\ kind' = Set(kind, o, op)
  /\ tool' = Set(tool, o, n)
  /\ local' = Set(local, o, cache)
  /\ pc' = Set(pc, o, IF cache = None THEN "reading" ELSE "loaded")
  /\ older' = Set(older, o, {p \in Acked : tool[p] = n})
  /\ UNCHANGED <<store, mutex, disk, cache, maps, chain, payload, poisoned,
                 value, crashes>>

(* readFile takes the contents; ENOENT is an empty Map. *)
ReadFile(o) ==
  /\ pc[o] = "reading"
  /\ maps' = Set(maps, o, disk)
  /\ pc' = Set(pc, o, "read")
  /\ UNCHANGED <<disk, cache, chain, payload, poisoned, kind, tool, local,
                 value, crashes, older>>

(* Any other error, or a file that is not a pin file, rejects.  Go's Put   *)
(* reads under the lock, which its deferred Unlock gives back.             *)
ReadFails(o) ==
  /\ MayFail
  /\ pc[o] = "reading"
  /\ store = "go" /\ kind[o] = "set" => mutex = None
  /\ pc' = Set(pc, o, "rejected")
  /\ UNCHANGED <<disk, cache, maps, chain, payload, poisoned, kind, tool,
                 local, value, crashes, older>>

(* The answer of readFile is parsed, and this.cache is the new Map. *)
LoadReturns(o) ==
  /\ pc[o] = "read"
  /\ cache' = o
  /\ local' = Set(local, o, o)
  /\ pc' = Set(pc, o, "loaded")
  /\ UNCHANGED <<disk, maps, chain, payload, poisoned, kind, tool, value,
                 crashes, older>>

Get(o) ==
  /\ pc[o] = "loaded" /\ kind[o] = "get"
  /\ value' = Set(value, o, maps[local[o]][tool[o]])
  /\ pc' = Set(pc, o, "returned")
  /\ UNCHANGED <<disk, cache, maps, chain, payload, poisoned, kind, tool,
                 local, crashes, older>>

SetPin(o) ==
  /\ pc[o] = "loaded" /\ kind[o] = "set"
  /\ maps' = [maps EXCEPT ![local[o]][tool[o]] = o]
  /\ chain' = Append(chain, o)
  /\ pc' = Set(pc, o, "chained")
  /\ UNCHANGED <<disk, cache, payload, poisoned, kind, tool, local, value,
                 crashes, older>>

(* remove() flushes when there was something to delete; otherwise it       *)
(* returns at once, even while the flush of an earlier remove() is open.   *)
RemoveEntry(o) ==
  /\ pc[o] = "loaded" /\ kind[o] = "remove"
  /\ LET entry == maps[local[o]][tool[o]]
     IN IF entry # None /\ kind[entry] = "set"
        THEN /\ maps' = [maps EXCEPT ![local[o]][tool[o]] = o]
             /\ chain' = Append(chain, o)
             /\ pc' = Set(pc, o, "chained")
        ELSE pc' = Set(pc, o, "absent") /\ UNCHANGED <<maps, chain>>
  /\ UNCHANGED <<disk, cache, payload, poisoned, kind, tool, local, value,
                 crashes, older>>

(* flush(cache): the Map is serialised when its turn comes. *)
FlushStarts ==
  /\ chain # <<>> /\ ~poisoned /\ payload = None
  /\ payload' = maps[local[Head(chain)]]
  /\ UNCHANGED <<disk, cache, maps, chain, poisoned, pc, kind, tool, local,
                 value, crashes, older>>

Settle(how) ==
  /\ pc' = Set(pc, Head(chain), how)
  /\ chain' = Tail(chain)
  /\ payload' = None

(* Faulty variant: the temporary file is not renamed. *)
FlushEnds_NoRename ==
  /\ payload # None
  /\ Settle("returned")
  /\ UNCHANGED <<disk, cache, maps, poisoned, kind, tool, local, value,
                 crashes, older>>

(* The temporary file is complete and renamed over the pin file. *)
FlushEnds ==
  /\ payload # None
  /\ disk' = payload
  /\ Settle("returned")
  /\ UNCHANGED <<cache, maps, poisoned, kind, tool, local, value, crashes,
                 older>>

(* mkdir, writeFile or rename rejects: the pin file is as it was. *)
FlushFails ==
  /\ MayFail
  /\ payload # None
  /\ poisoned' = TRUE
  /\ Settle("rejected")
  /\ UNCHANGED <<disk, cache, maps, kind, tool, local, value, crashes, older>>

(* then() on a rejected chain does not run the next flush. *)
FlushSkipped ==
  /\ chain # <<>> /\ poisoned
  /\ Settle("rejected")
  /\ UNCHANGED <<disk, cache, maps, poisoned, kind, tool, local, value,
                 crashes, older>>

------------------------------------------------------------------------------
(* The stores of the SDKs *)

(* Python has no lock: a store belongs to one thread. *)
BeginSdk(o, op, n) ==
  /\ pc[o] = "idle"
  /\ store # "ts" /\ op # "remove"
  /\ store = "python" => \A p \in Ops : pc[p] \notin Points
  /\ kind' = Set(kind, o, op)
  /\ tool' = Set(tool, o, n)
  /\ pc' = Set(pc, o, "reading")
  /\ older' = Set(older, o, {p \in Acked : tool[p] = n})
  /\ UNCHANGED <<store, mutex, disk, cache, maps, local, chain, payload,
                 poisoned, value, crashes>>

(* load: the pins of the file, to which a Put then adds its own. *)
Loaded(o) ==
  /\ pc[o] = "reading"
  /\ maps' = Set(maps, o, IF kind[o] = "set" THEN Set(disk, tool[o], o) ELSE disk)
  /\ local' = Set(local, o, o)
  /\ pc' = Set(pc, o, "loaded")
  /\ UNCHANGED <<disk, cache, chain, payload, poisoned, kind, tool, value,
                 crashes, older>>

(* The temporary file replaces the pin file, or an error leaves it. *)
Renamed(o) ==
  /\ pc[o] = "loaded" /\ kind[o] = "set"
  /\ \/ disk' = maps[o] /\ pc' = Set(pc, o, "returned")
     \/ MayFail /\ pc' = Set(pc, o, "rejected") /\ UNCHANGED disk
  /\ UNCHANGED <<cache, maps, local, chain, payload, poisoned, kind, tool,
                 value, crashes, older>>

(* Faulty variant: Put does not take the lock. *)
load_Unlocked(o) == store = "go" /\ Loaded(o) /\ UNCHANGED mutex

(* Go's Put holds the lock from before the load; Get does not ask for it. *)
load(o) ==
  /\ store = "go" /\ Loaded(o)
  /\ IF kind[o] = "set" THEN mutex = None /\ mutex' = o ELSE UNCHANGED mutex

(* Faulty variant: Put does not give the lock back. *)
Put_KeepsLock(o) == store = "go" /\ Renamed(o) /\ UNCHANGED mutex

Put(o) ==
  /\ store = "go" /\ Renamed(o)
  /\ mutex' = IF mutex = o THEN None ELSE mutex

load_py(o) == store = "python" /\ Loaded(o) /\ UNCHANGED mutex

put_py(o) == store = "python" /\ Renamed(o) /\ UNCHANGED mutex

------------------------------------------------------------------------------
(* The process dies and a new one opens the same file. *)
Crash ==
  /\ crashes < MaxCrashes
  /\ crashes' = crashes + 1
  /\ pc' = [o \in Ops |-> IF pc[o] \in Points THEN "lost" ELSE pc[o]]
  /\ cache' = None
  /\ maps' = [o \in Ops |-> [n \in Tools |-> None]]
  /\ local' = [o \in Ops |-> None]
  /\ chain' = <<>>
  /\ payload' = None
  /\ poisoned' = FALSE
  /\ mutex' = None
  /\ UNCHANGED <<store, disk, kind, tool, value, older>>

Step(o) ==
  /\ UNCHANGED store
  /\ \/ /\ store = "ts" /\ UNCHANGED mutex
        /\ \/ ReadFile(o) \/ ReadFails(o) \/ LoadReturns(o) \/ Get(o) \/ SetPin(o)
           \/ RemoveEntry(o)
     \/ /\ store # "ts"
        /\ \/ load(o) \/ Put(o) \/ load_py(o) \/ put_py(o)
           \/ (ReadFails(o) \/ Get(o)) /\ UNCHANGED mutex

Flush ==
  /\ FlushStarts \/ FlushEnds \/ FlushFails \/ FlushSkipped
  /\ UNCHANGED <<store, mutex>>

Next ==
  \/ \E o \in Ops, op \in {"get", "set", "remove"}, n \in Tools :
       Begin(o, op, n) \/ BeginSdk(o, op, n)
  \/ \E o \in Ops : Step(o)
  \/ Flush
  \/ Crash

Spec == Init /\ [][Next]_vars

(* Node settles every file operation and runs every continuation; the      *)
(* threads of the SDKs run, and a released lock goes to one that waits.    *)
FairSpec ==
  /\ Spec
  /\ WF_vars(Flush)
  /\ \A o \in Ops : WF_vars(Step(o))

------------------------------------------------------------------------------
(* Properties *)

(* Entry p of the tool of o is o's own or not outdated by o. *)
NotOutdated(p, o) == p # None /\ p \notin older[o]

(* What a set() stored or a remove() deleted, once it returned, is in the  *)
(* file like that from then on, or a change of the same tool that was not  *)
(* over before it began is: no restart, failing write or other operation   *)
(* takes an acknowledged pin away or brings a removed update back (set,    *)
(* remove, flush; Put of the Go and the Python SDK).                       *)
AcknowledgedSurvives ==
  \A o \in Acked : NotOutdated(disk[tool[o]], o)

(* A get() that starts after a change of the same tool returned sees that  *)
(* change or a newer one, through restarts (get, load).                    *)
ReadsSeeAcknowledged ==
  \A g \in Ops : kind[g] = "get" /\ pc[g] = "returned" =>
    \A o \in older[g] : NotOutdated(value[g], o)

(* Every operation returns, rejects or dies with its process: no change    *)
(* waits for ever on the chain, not even behind a flush that failed, and   *)
(* no Put of the Go SDK for a lock that another holds.                     *)
EveryOperationSettles ==
  \A o \in Ops : pc[o] \in Points ~> pc[o] \notin Points
==============================================================================
