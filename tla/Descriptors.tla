---------------------------- MODULE Descriptors ----------------------------
(***************************************************************************)
(* The registry of descriptors uploaded at run time                        *)
(* (domain/descriptors/registry.go), the REST operations that change it    *)
(* (app/rest_descriptors.go), and the resolver that caches a view of it by *)
(* its generation (dynamicDescriptorResolver, app/grpc_registration.go).   *)
(***************************************************************************)
EXTENDS Naturals, FiniteSets

CONSTANTS
  FilePool,    \* descriptors that may be uploaded: [path, services]
  Lookers,     \* calls that resolve names at the same time
  MaxGen,      \* bound: changes of the registry
  NoView       \* the resolver has no view yet

ASSUME DescriptorsAssumption ==
  /\ \A f \in FilePool : DOMAIN f = {"path", "services"}
  /\ MaxGen \in Nat

VARIABLES
  files,      \* Registry.files, as the set of its values
  gen,        \* Registry.gen
  adding,     \* files of an upload that are still to be registered
  cached, cachedGen,
  look,       \* the calls of dynamicFiles: [at, gen, copy]
  since       \* history: the registry's contents during each of these calls

descriptorVars == <<files, gen, adding, cached, cachedGen, look, since>>
registryVars == <<files, gen, adding>>
cacheVars == <<cached, cachedGen>>

Free == [at |-> "free", gen |-> 0, copy |-> {}]

RegistryInit ==
  /\ files = {} /\ gen = 0 /\ adding = {}
  /\ cached = NoView /\ cachedGen = 0
  /\ look = [l \in Lookers |-> Free] /\ since = [l \in Lookers |-> {}]

\* What RegisterFile refuses: two files with one path or one symbol.
Compatible(fs) ==
  \A f, g \in fs : f # g => f.path # g.path /\ f.services \cap g.services = {}

\* A view takes the files in the order of a map and drops those that clash.
Views(fs) ==
  {v \in SUBSET fs : Compatible(v) /\ \A f \in fs \ v : ~Compatible(v \cup {f})}

\* Every lookup under way sees the new contents from here on.
Witnessed(fs) == since' = [l \in Lookers |-> IF look[l].at = "free" THEN {} ELSE since[l] \cup {fs}]

----------------------------------------------------------------------------
(* REST: one operation at a time, under descriptorOpsMu.                   *)

\* AddDescriptors: an upload that does not clash in itself.
BeginUpload ==
  /\ adding = {}
  /\ \E fs \in SUBSET FilePool \ {{}} :
       /\ Compatible(fs) /\ gen + Cardinality(fs) <= MaxGen
       /\ adding' = fs
  /\ UNCHANGED <<files, gen, cacheVars, look, since>>

\* Register: a file at a time, in the place of the one with its path.
RegisterNext ==
  /\ \E f \in adding :
       /\ adding' = adding \ {f}
       /\ files' = {g \in files : g.path # f.path} \cup {f}
  /\ gen' = gen + 1
  /\ Witnessed(files')
  /\ UNCHANGED <<cacheVars, look>>

\* DeleteService: all files that declare the service, under one lock.
UnregisterByService ==
  /\ adding = {}
  /\ \E f \in files : \E service \in f.services :
       LET gone == {g \in files : service \in g.services}
       IN  /\ files' = files \ gone
           /\ gen' = gen + Cardinality(gone) /\ gen' <= MaxGen
  /\ Witnessed(files')
  /\ UNCHANGED <<adding, cacheVars, look>>

----------------------------------------------------------------------------
(* dynamicFiles: the generation, then the view under the resolver's mutex. *)

BeginLookup(l) ==
  /\ look[l].at = "free"
  /\ look' = [look EXCEPT ![l] = [Free EXCEPT !.at = "lock", !.gen = gen]]
  /\ since' = [since EXCEPT ![l] = {files}]
  /\ UNCHANGED <<registryVars, cacheVars>>

Unlocked == \A l \in Lookers : look[l].at # "built"

CacheHit(l) ==
  /\ look[l].at = "lock" /\ Unlocked
  /\ cached # NoView /\ cachedGen = look[l].gen
  /\ look' = [look EXCEPT ![l] = Free]
  /\ since' = [since EXCEPT ![l] = {}]
  /\ UNCHANGED <<registryVars, cacheVars>>

\* RangeFiles copies the files, then each is registered with the new view.
Rebuild(l) ==
  /\ look[l].at = "lock" /\ Unlocked
  /\ cached = NoView \/ cachedGen # look[l].gen
  /\ \E view \in Views(files) :
       look' = [look EXCEPT ![l] = [@ EXCEPT !.at = "built", !.copy = view]]
  /\ UNCHANGED <<registryVars, cacheVars, since>>

\* Fault: the view is stored under the generation of that moment.
StoreWithNewGeneration(l) ==
  /\ look[l].at = "built"
  /\ cached' = look[l].copy /\ cachedGen' = gen
  /\ look' = [look EXCEPT ![l] = Free]
  /\ since' = [since EXCEPT ![l] = {}]
  /\ UNCHANGED registryVars

Store(l) ==
  /\ look[l].at = "built"
  /\ cached' = look[l].copy /\ cachedGen' = look[l].gen
  /\ look' = [look EXCEPT ![l] = Free]
  /\ since' = [since EXCEPT ![l] = {}]
  /\ UNCHANGED registryVars

----------------------------------------------------------------------------
RegistryNext ==
  \/ BeginUpload \/ RegisterNext \/ UnregisterByService
  \/ \E l \in Lookers : BeginLookup(l) \/ CacheHit(l) \/ Rebuild(l) \/ Store(l)

RegistrySpec == RegistryInit /\ [][RegistryNext]_descriptorVars

----------------------------------------------------------------------------
(* Properties.                                                             *)

\* A name is resolved from a view of what the registry held at some moment of
\* the call, never from an older one: "a registry mutation racing the RangeFiles
\* below leaves cachedGen stale, so the next call rebuilds"
\* (app/grpc_registration.go:277).  Both ways out answer from the view in cached.
LookupsCurrent ==
  [][\A l \in Lookers :
       look[l].at # "free" /\ look'[l].at = "free"
       => \E fs \in since[l] : cached' \in Views(fs)]_descriptorVars
=============================================================================
