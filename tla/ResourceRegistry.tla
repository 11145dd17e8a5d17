--------------------------- MODULE ResourceRegistry ---------------------------
(***************************************************************************)
(* The resource registry of engine/portal/engine/resources: loads run as   *)
(* jobs and move an id from unloaded through pending to loaded or errored, *)
(* while other jobs and threads ask for the same ids.                      *)
(*                                                                         *)
(* One step is one critical section of ResourceRegistry::lock, or one of   *)
(* the accesses load_resource makes without it.  Who executes a job is the *)
(* subject of Scheduler: here every load makes progress on its own, and a  *)
(* wait_for_job ends when its job has ended.                               *)
(*                                                                         *)
(* A loader reads its source and asks the registry for what else it needs: *)
(* the textures and the shader of a material with immediate_load, the      *)
(* parts of a glTF composite with load_direct in jobs of their own.        *)
(* enrich_metadata files the metadata of the composite under the id of     *)
(* each embedded texture, so that MetadataId of a texture is its composite.*)
(***************************************************************************)
EXTENDS Naturals, FiniteSets

CONSTANTS
  Ids,          \* resource ids
  Known,        \* ids with metadata in the ResourceDatabase
  CompositeOf,  \* CompositeOf[i]: the composite i is a part of, or None
  MetadataId,   \* MetadataId[i]: resource_id of the metadata the database has for i
  Needs,        \* Needs[i]: what the loader of i asks for with immediate_load
  Stage,        \* Stage[i]: textures, materials and meshes of a composite load in turn
  Callers,      \* threads outside of any load
  None,
  MaxCalls,     \* bound: requests per caller
  MaxLoads,     \* bound: loads in flight at a time
  MaxFailures   \* bound: sources that turn out unreadable

Loads == 1..MaxLoads
Processes == Callers \cup Loads

ASSUME RegistryAssumption ==
  /\ Known \subseteq Ids /\ None \notin Ids
  /\ CompositeOf \in [Ids -> Known \cup {None}]
  /\ \A i \in Ids : CompositeOf[i] # None => CompositeOf[CompositeOf[i]] = None
  /\ \A i \in Ids : MetadataId[i] \in {i, CompositeOf[i]} \cap Ids
  /\ Needs \in [Ids -> SUBSET Ids] /\ Stage \in [Ids -> Nat]
  /\ Callers \cap Loads = {}
  /\ MaxCalls \in Nat /\ MaxLoads \in Nat /\ MaxFailures \in Nat

VARIABLES
  resources,  \* the keys of ResourceRegistry::resources
  pending,    \* pending_resources
  errored,    \* errored_resources
  pc,         \* where a caller or a load is; a load that does not exist is "free"
  target,     \* the id a load was started for
  parts,      \* the loads that load a part of a composite (load_direct, no more)
  todo,       \* the ids the loader of a load has still to ask for
  awaited,    \* the loads a process is waiting for
  want,       \* the id of the request a process is making
  immediate,  \* the processes whose request is an immediate_load
  calls,      \* requests a caller has made
  failures    \* sources that were unreadable

registry == <<resources, pending, errored>>
vars == <<registry, pc, target, parts, todo, awaited, want, immediate, calls, failures>>

-----------------------------------------------------------------------------
(* Helpers *)

\* What load_resource loads: the metadata of a part names its composite, or is
\* replaced by that of its composite.  Mutant: every source is taken for a part.
SourceAlwaysComposite(id) == CompositeOf[id]
SourceOf(id) == IF CompositeOf[id] # None THEN CompositeOf[id] ELSE id
Meta(l) == IF l \in parts THEN target[l] ELSE SourceOf(target[l])

PartsOf(id) == {i \in Ids : CompositeOf[i] = id}
IsComposite(id) == PartsOf(id) # {}
Work(id) == IF IsComposite(id) THEN PartsOf(id) ELSE Needs[id]

\* get_resource
View(id) ==
  IF id \in resources THEN "Loaded"
  ELSE IF id \in pending THEN "Pending"
  ELSE IF id \in errored THEN "Error"
  ELSE IF id \in Known THEN "Unloaded" ELSE "Missing"

\* get makes a reference to the id in the metadata, whose state is looked up.
StateOfReference(id) ==
  IF id \in Known THEN View(MetadataId[id])
  ELSE IF id \in resources THEN "Loaded" ELSE "Null"

Free == {l \in Loads : pc[l] = "free"}
NextFree == CHOOSE l \in Free : \A k \in Free : l <= k

Goto(p, location) == pc' = [pc EXCEPT ![p] = location]

\* A load ends, and whoever waits for it is one load closer.
EndLoad(l) ==
  /\ Goto(l, "free")
  /\ target' = [target EXCEPT ![l] = None]
  /\ parts' = parts \ {l}
  /\ todo' = [todo EXCEPT ![l] = {}]
  /\ awaited' = [p \in Processes |-> awaited[p] \ {l}]

-----------------------------------------------------------------------------
Init ==
  /\ resources = {} /\ pending = {} /\ errored = {}
  /\ pc = [p \in Processes |-> IF p \in Callers THEN "idle" ELSE "free"]
  /\ target = [l \in Loads |-> None]
  /\ parts = {}
  /\ todo = [l \in Loads |-> {}]
  /\ awaited = [p \in Processes |-> {}]
  /\ want = [p \in Processes |-> None]
  /\ immediate = {}
  /\ calls = [c \in Callers |-> 0]
  /\ failures = 0

-----------------------------------------------------------------------------
(* load and immediate_load *)

\* The test under the lock.
Test(id) == IF id \in resources \cup pending THEN "get" ELSE "submit"

\* create_resource and create_resource_immediate up to the end of the critical section.
Request(c, id) ==
  /\ pc[c] = "idle" /\ calls[c] < MaxCalls
  /\ calls' = [calls EXCEPT ![c] = @ + 1]
  /\ want' = [want EXCEPT ![c] = id]
  /\ immediate' \in {immediate \cup {c}, immediate \ {c}}
  /\ Goto(c, Test(id))
  /\ UNCHANGED <<registry, target, parts, todo, awaited, failures>>

\* A loader asks for a resource it still needs; in which order is up to the material.
AskFor(l, id) ==
  /\ pc[l] = "load" /\ ~IsComposite(Meta(l))
  /\ id \in todo[l]
  /\ todo' = [todo EXCEPT ![l] = @ \ {id}]
  /\ want' = [want EXCEPT ![l] = id]
  /\ immediate' = immediate \cup {l}
  /\ Goto(l, Test(id))
  /\ UNCHANGED <<registry, target, parts, awaited, calls, failures>>

\* Mutant: nobody waits for the load of an immediate request.
SubmitDetached(p) ==
  /\ pc[p] = "submit" /\ Free # {}
  /\ target' = [target EXCEPT ![NextFree] = want[p]]
  /\ pc' = [pc EXCEPT ![NextFree] = "begin", ![p] = "get"]
  /\ UNCHANGED <<registry, parts, todo, awaited, want, immediate, calls, failures>>

\* dispatch_job or wait_for_job of load_resource.
Submit(p) ==
  /\ pc[p] = "submit" /\ Free # {}
  /\ target' = [target EXCEPT ![NextFree] = want[p]]
  /\ pc' = [pc EXCEPT ![NextFree] = "begin", ![p] = IF p \in immediate THEN "wait" ELSE "get"]
  /\ awaited' = [awaited EXCEPT ![p] = IF p \in immediate THEN {NextFree} ELSE {}]
  /\ UNCHANGED <<registry, parts, todo, want, immediate, calls, failures>>

EndWait(p) ==
  /\ pc[p] = "wait" /\ awaited[p] = {}
  /\ Goto(p, "get")
  /\ UNCHANGED <<registry, target, parts, todo, awaited, want, immediate, calls, failures>>

\* Mutant: an immediate request comes back when its id is no longer pending.
GetSettled(p) ==
  /\ pc[p] = "get" /\ (p \in immediate => want[p] \notin pending)
  /\ want' = [want EXCEPT ![p] = None]
  /\ immediate' = immediate \ {p}
  /\ Goto(p, IF p \in Callers THEN "idle" ELSE "load")
  /\ UNCHANGED <<registry, target, parts, todo, awaited, calls, failures>>

\* get: the request comes back with a reference in the state StateOfReference(want[p]).
Get(p) ==
  /\ pc[p] = "get"
  /\ want' = [want EXCEPT ![p] = None]
  /\ immediate' = immediate \ {p}
  /\ Goto(p, IF p \in Callers THEN "idle" ELSE "load")
  /\ UNCHANGED <<registry, target, parts, todo, awaited, calls, failures>>

-----------------------------------------------------------------------------
(* load_resource *)

\* The look at pending_resources and resources without the lock, taken as atomic.
Begin(l) ==
  /\ pc[l] = "begin" /\ l \notin parts
  /\ IF target[l] \in pending \cup resources
       THEN EndLoad(l)
       ELSE Goto(l, "insert") /\ UNCHANGED <<target, parts, todo, awaited>>
  /\ UNCHANGED <<registry, want, immediate, calls, failures>>

InsertPending(l) ==
  /\ pc[l] = "insert"
  /\ pending' = pending \cup {target[l]}
  /\ Goto(l, "find")
  /\ UNCHANGED <<resources, errored, target, parts, todo, awaited, want, immediate,
                 calls, failures>>

FindMetadata(l) ==
  /\ pc[l] = "find"
  /\ target[l] \in Known
  /\ todo' = [todo EXCEPT ![l] = Work(Meta(l))]
  /\ Goto(l, "load")
  /\ UNCHANGED <<registry, target, parts, awaited, want, immediate, calls, failures>>

FindNothing(l) ==
  /\ pc[l] = "find"
  /\ target[l] \notin Known
  /\ errored' = errored \cup {target[l]}
  /\ pending' = pending \ {target[l]}
  /\ EndLoad(l)
  /\ UNCHANGED <<resources, want, immediate, calls, failures>>

\* Mutant: the id is off the pending list before the outcome is on another one.
FailSilently(l) ==
  /\ pc[l] = "load" /\ todo[l] = Work(Meta(l)) /\ awaited[l] = {} /\ failures < MaxFailures
  /\ failures' = failures + 1
  /\ pending' = pending \ {Meta(l)}
  /\ EndLoad(l)
  /\ UNCHANGED <<resources, errored, want, immediate, calls>>

\* The source is unreadable, which a loader finds before it asks for anything.  The
\* id that comes off the pending list is the one in the metadata.
Fail(l) ==
  /\ pc[l] = "load" /\ todo[l] = Work(Meta(l)) /\ awaited[l] = {} /\ failures < MaxFailures
  /\ failures' = failures + 1
  /\ IF l \in parts
       THEN UNCHANGED <<errored, pending>>
       ELSE errored' = errored \cup {Meta(l)} /\ pending' = pending \ {Meta(l)}
  /\ EndLoad(l)
  /\ UNCHANGED <<resources, want, immediate, calls>>

\* load_direct registers what the loader returned.
Register(l) ==
  /\ pc[l] = "load" /\ todo[l] = {} /\ awaited[l] = {}
  /\ resources' = resources \cup {Meta(l)}
  /\ IF l \in parts
       THEN EndLoad(l)
       ELSE Goto(l, "finish") /\ UNCHANGED <<target, parts, todo, awaited>>
  /\ UNCHANGED <<pending, errored, want, immediate, calls, failures>>

\* Mutant: a finished load stays on the pending list.
FinishPending(l) ==
  /\ pc[l] = "finish"
  /\ EndLoad(l)
  /\ UNCHANGED <<registry, want, immediate, calls, failures>>

Finish(l) ==
  /\ pc[l] = "finish"
  /\ pending' = pending \ {target[l]}
  /\ EndLoad(l)
  /\ UNCHANGED <<resources, errored, want, immediate, calls, failures>>

-----------------------------------------------------------------------------
(* The loader of a composite *)

\* One job for each part; those of one stage end before the next stage begins.
LoadPart(l, id) ==
  /\ pc[l] = "load" /\ IsComposite(Meta(l)) /\ Free # {}
  /\ id \in todo[l]
  /\ \A i \in todo[l] : Stage[id] <= Stage[i]
  /\ \A k \in awaited[l] : Stage[target[k]] = Stage[id]
  /\ todo' = [todo EXCEPT ![l] = @ \ {id}]
  /\ target' = [target EXCEPT ![NextFree] = id]
  /\ parts' = parts \cup {NextFree}
  /\ pc' = [pc EXCEPT ![NextFree] = "begin"]
  /\ awaited' = [awaited EXCEPT ![l] = @ \cup {NextFree}]
  /\ UNCHANGED <<registry, want, immediate, calls, failures>>

\* A part is not loaded again when the resource its metadata names is loaded.
BeginPart(l) ==
  /\ pc[l] = "begin" /\ l \in parts
  /\ IF View(MetadataId[target[l]]) = "Loaded"
       THEN EndLoad(l)
       ELSE /\ Goto(l, "load")
            /\ todo' = [todo EXCEPT ![l] = Work(target[l])]
            /\ UNCHANGED <<target, parts, awaited>>
  /\ UNCHANGED <<registry, want, immediate, calls, failures>>

-----------------------------------------------------------------------------
RequestStep(p) == Submit(p) \/ EndWait(p) \/ Get(p)

LoadStep(l) ==
  \/ Begin(l) \/ InsertPending(l) \/ FindMetadata(l) \/ FindNothing(l)
  \/ \E id \in Ids : AskFor(l, id) \/ LoadPart(l, id)
  \/ BeginPart(l) \/ Fail(l) \/ Register(l) \/ Finish(l)

Next ==
  \/ \E c \in Callers, id \in Ids : Request(c, id)
  \/ \E p \in Processes : RequestStep(p)
  \/ \E l \in Loads : LoadStep(l)

Spec == Init /\ [][Next]_vars

\* Jobs and threads are scheduled, and loaders return.
FairSpec ==
  /\ Spec
  /\ \A c \in Callers : WF_vars(RequestStep(c))
  /\ \A l \in Loads : WF_vars(RequestStep(l) \/ LoadStep(l))

-----------------------------------------------------------------------------
(* Properties *)

TypeOK ==
  /\ resources \subseteq Ids /\ pending \subseteq Ids /\ errored \subseteq Ids
  /\ pc \in [Processes -> {"idle", "free", "submit", "wait", "get", "begin", "insert", "find",
                           "load", "finish"}]
  /\ target \in [Loads -> Ids \cup {None}]
  /\ parts \subseteq Loads
  /\ todo \in [Loads -> SUBSET Ids]
  /\ awaited \in [Processes -> SUBSET Loads]
  /\ want \in [Processes -> Ids \cup {None}]
  /\ immediate \subseteq Processes
  /\ calls \in [Callers -> 0..MaxCalls]
  /\ failures \in 0..MaxFailures

\* The load of id that will take it off the pending list.
Loading(l, id) ==
  l \notin parts /\ target[l] = id /\ pc[l] \notin {"free", "begin", "insert"}

\* An id on the pending list is being loaded.  The exception is a part whose
\* composite could not be loaded: the load took the composite off the list, not
\* the part it was started for, which stays pending for good.
PendingIsLoading ==
  \A id \in pending :
    (\E l \in Loads : Loading(l, id)) \/ (CompositeOf[id] # None /\ CompositeOf[id] \in errored)

\* "Once a resource is loaded in the registry, it's always valid", and a load
\* that ends leaves a trace: what get_resource reports of an id that was pending
\* or errored is never again that it is unloaded or missing.  (A part can be: its
\* composite may load without it.)
StatesAdvance ==
  [][\A id \in Ids :
       /\ View(id) = "Loaded" => View(id)' = "Loaded"
       /\ View(id) \in {"Pending", "Error"} /\ CompositeOf[id] = None =>
            View(id)' \notin {"Unloaded", "Missing"}]_vars

\* An immediate_load of an id that is no part of a composite comes back after
\* the outcome of a load is known or while another load of the id is on its way.
ImmediateIsSettled ==
  [][\A p \in Processes :
       p \in immediate /\ p \notin immediate' /\ want[p] \in Known /\ CompositeOf[want[p]] = None =>
         StateOfReference(want[p]) \in {"Loaded", "Error"} \/ \E l \in Loads : Loading(l, want[p])]_vars

\* Every load ends, although loads wait for each other and the loader of a part
\* may come to ask for a part of the same composite.
InFlight == {l \in Loads : pc[l] # "free"}
LoadsEnd == InFlight # {} ~> InFlight = {}

\* "For immediate_load(), this state is never observable since the call blocks."
ImmediateNeverPending ==
  [][\A p \in Processes : p \in immediate /\ p \notin immediate' => StateOfReference(want[p]) # "Pending"]_vars

=============================================================================
