----------------------------- MODULE StubFiles -----------------------------
(***************************************************************************)
(* The loader of stub files (internal/infra/storage/stubs.go): every load  *)
(* is a goroutine that reads its file, takes muMapIDs and replaces the     *)
(* stubs the file had before, reusing their IDs for stubs without one.     *)
(*                                                                         *)
(* A content is the sequence of IDs its stubs are written with, NilId for  *)
(* a stub without one, or Unreadable: a file that is gone or does not      *)
(* parse.  IDs of different files are different.  Stubs put over the API   *)
(* are not touched by loads and are left out.                              *)
(***************************************************************************)
EXTENDS Naturals, Sequences, FiniteSets, Functions

CONSTANTS
  Files,
  Contents,    \* Contents[f]: what may be written to f
  Unreadable,
  NilId,       \* uuid.Nil
  NewIds,      \* the IDs uuid.New returns
  Loads,       \* the loads that may run, each once (a bound), or for the
               \* initial one, once per file
  Nobody       \* muMapIDs is free

VARIABLES
  disk,          \* what is in the files, and which edit it is
  load,          \* what a load does, with what it has read
  stored,        \* the stubs of files in the storage
  mapIDsByFile,  \* Extender.mapIDsByFile
  holder,        \* the load that holds muMapIDs
  seen,          \* history: the newest edit of a file that a load has read
  applied        \* history: the edit of a file that was applied last

loaderVars == <<load, stored, mapIDsByFile, holder, seen, applied>>
filesVars == <<disk, loaderVars>>

NoLoad == [at |-> "idle", file |-> CHOOSE f \in Files : TRUE, version |-> 0, stubs |-> <<>>]

----------------------------------------------------------------------------
(* IDs.                                                                    *)

WithoutIDs(ids, exclude) ==
  LET left[i \in 0..Len(ids)] ==
        IF i = 0 THEN <<>>
        ELSE IF ids[i] \in exclude THEN left[i - 1] ELSE Append(left[i - 1], ids[i])
  IN  left[Len(ids)]

Existing(f) == IF f \in DOMAIN mapIDsByFile THEN mapIDsByFile[f] ELSE <<>>

\* What uuid.New may return for the stubs of a content: IDs that nobody has.
FreshIDs(stubs) ==
  LET taken == DOMAIN stored \cup UNION {Range(mapIDsByFile[f]) : f \in DOMAIN mapIDsByFile}
  IN  {fresh \in [DOMAIN stubs -> NewIds \ taken] : IsInjective(fresh)}

\* generateNewIDs: the unused IDs of the file first, in their order.
GenerateNewIDs(stubs, unused) ==
  LET fresh    == CHOOSE ids \in FreshIDs(stubs) : TRUE
      blank(i) == Cardinality({j \in 1..i : stubs[j] = NilId})
  IN  [i \in DOMAIN stubs |->
         IF stubs[i] # NilId THEN stubs[i]
         ELSE IF blank(i) <= Len(unused) THEN unused[blank(i)] ELSE fresh[i]]

Written(l) == Range(load[l].stubs) \ {NilId}

NewIDsOf(l) ==
  GenerateNewIDs(load[l].stubs, WithoutIDs(Existing(load[l].file), Written(l)))

\* PutMany of a file's stubs.
Put(l, ids) ==
  [id \in DOMAIN stored \cup Range(ids) |->
     IF id \in Range(ids) THEN [file |-> load[l].file, version |-> load[l].version]
                          ELSE stored[id]]

Filed(f, ids) == [g \in DOMAIN mapIDsByFile \cup {f} |-> IF g = f THEN ids ELSE mapIDsByFile[g]]

DeleteByID(ids) == Restrict(stored, DOMAIN stored \ Range(ids))

----------------------------------------------------------------------------
(* readByFile.                                                             *)

Begin(l, f) ==
  /\ load[l].at = "idle"
  /\ load' = [load EXCEPT ![l] = [at |-> "reading", file |-> f, version |-> 0, stubs |-> <<>>]]
  /\ UNCHANGED <<stored, mapIDsByFile, holder, seen, applied>>

\* readStub reads the file before any lock is taken.
ReadStub(l) ==
  /\ load[l].at = "reading"
  /\ LET f == load[l].file
     IN  /\ load' = [load EXCEPT ![l] = [at |-> "read", file |-> f,
                                         version |-> disk[f].version, stubs |-> disk[f].stubs]]
         /\ seen' = [seen EXCEPT ![f] = IF disk[f].version > @ THEN disk[f].version ELSE @]
  /\ UNCHANGED <<stored, mapIDsByFile, holder, applied>>

Applied(l) ==
  /\ load' = [load EXCEPT ![l] = NoLoad]
  /\ applied' = [applied EXCEPT ![load[l].file] = load[l].version]
  /\ UNCHANGED seen

HandleFileReadError(l) ==
  /\ load[l].at = "read" /\ holder = Nobody /\ load[l].stubs = Unreadable
  /\ stored' = DeleteByID(Existing(load[l].file))
  /\ mapIDsByFile' = Restrict(mapIDsByFile, DOMAIN mapIDsByFile \ {load[l].file})
  /\ Applied(l)
  /\ UNCHANGED holder

HandleFirstTimeLoad(l) ==
  /\ load[l].at = "read" /\ holder = Nobody /\ load[l].stubs # Unreadable
  /\ load[l].file \notin DOMAIN mapIDsByFile
  /\ FreshIDs(load[l].stubs) # {}          \* bound: there are IDs left
  /\ LET ids == GenerateNewIDs(load[l].stubs, <<>>)
     IN  /\ stored' = Put(l, ids)
         /\ mapIDsByFile' = Filed(load[l].file, ids)
  /\ Applied(l)
  /\ UNCHANGED holder

\* Fault: the old stubs go before the new ones come.
HandleUpdateDeleteAll(l) ==
  /\ load[l].at = "read" /\ holder = Nobody /\ load[l].stubs # Unreadable
  /\ load[l].file \in DOMAIN mapIDsByFile
  /\ stored' = DeleteByID(Existing(load[l].file))
  /\ load' = [load EXCEPT ![l].at = "putting", ![l].stubs = NewIDsOf(l)]
  /\ holder' = l
  /\ UNCHANGED <<mapIDsByFile, seen, applied>>

\* Fault: an update only adds and replaces.
HandleUpdateNoDelete(l) ==
  /\ load[l].at = "read" /\ holder = Nobody /\ load[l].stubs # Unreadable
  /\ load[l].file \in DOMAIN mapIDsByFile
  /\ load' = [load EXCEPT ![l].at = "putting", ![l].stubs = NewIDsOf(l)]
  /\ holder' = l
  /\ UNCHANGED <<stored, mapIDsByFile, seen, applied>>

\* handleExistingFileUpdate deletes what the new content has no use for ...
HandleExistingFileUpdate(l) ==
  /\ load[l].at = "read" /\ holder = Nobody /\ load[l].stubs # Unreadable
  /\ load[l].file \in DOMAIN mapIDsByFile
  /\ FreshIDs(load[l].stubs) # {}
  /\ stored' = DeleteByID(WithoutIDs(Existing(load[l].file), Range(NewIDsOf(l))))
  /\ load' = [load EXCEPT ![l].at = "putting", ![l].stubs = NewIDsOf(l)]
  /\ holder' = l
  /\ UNCHANGED <<mapIDsByFile, seen, applied>>

\* ... and then puts the new content: another call of the storage.
PutUpdate(l) ==
  /\ load[l].at = "putting"
  /\ LET f == load[l].file  ids == load[l].stubs
     IN  /\ stored' = Put(l, ids)
         /\ mapIDsByFile' = IF ids = <<>>
              THEN Restrict(mapIDsByFile, DOMAIN mapIDsByFile \ {f})
              ELSE Filed(f, ids)
  /\ Applied(l)
  /\ holder' = Nobody

Apply(l) ==
  \/ HandleFileReadError(l) \/ HandleFirstTimeLoad(l)
  \/ HandleExistingFileUpdate(l) \/ PutUpdate(l)

\* Somebody saves or removes a file.
Edit(f) ==
  /\ \E stubs \in Contents[f] :
       disk' = [disk EXCEPT ![f] = [version |-> @.version + 1, stubs |-> stubs]]
  /\ UNCHANGED loaderVars

FilesInit ==
  /\ disk \in [Files -> [version : {1}, stubs : UNION {Contents[f] : f \in Files}]]
  /\ \A f \in Files : disk[f].stubs \in Contents[f]
  /\ load = [l \in Loads |-> NoLoad]
  /\ stored = <<>> /\ mapIDsByFile = <<>>
  /\ holder = Nobody
  /\ seen = [f \in Files |-> 0] /\ applied = [f \in Files |-> 0]

----------------------------------------------------------------------------
(* Properties.                                                             *)

FilesTypeOK ==
  /\ \A f \in Files : disk[f].version \in Nat \ {0} /\ disk[f].stubs \in Contents[f]
  /\ \A l \in Loads :
       /\ load[l].at \in {"idle", "reading", "read", "putting"}
       /\ load[l].at = "putting" <=> holder = l
  /\ DOMAIN mapIDsByFile \subseteq Files
  /\ \A f \in Files : seen[f] \in 0..disk[f].version /\ applied[f] \in 0..seen[f]

\* Whatever loads ran in whatever order, the storage holds for each file the
\* stubs of exactly one of its contents, and mapIDsByFile knows them all: a
\* stub it loses could never be removed again by a reload.
WholeContents ==
  \A f \in Files : holder = Nobody \/ load[holder].file # f =>
    LET here == {id \in DOMAIN stored : stored[id].file = f}
    IN  /\ here = Range(Existing(f))
        /\ \A id \in here : stored[id].version = applied[f]

\* "A stub with a written ID is updated in place" (docs/guide/stubs/
\* why-ids-are-crucial.md:63): between the two storage calls of a reload no ID
\* is missing that the file had before and will have again.
UpdatedInPlace ==
  [][\A l \in Loads : load[l].at = "read" /\ load'[l].at = "putting" =>
       (DOMAIN stored \ DOMAIN stored') \cap Range(load'[l].stubs) = {}]_filesVars
=============================================================================
