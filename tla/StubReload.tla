---------------------------- MODULE StubReload ----------------------------
(***************************************************************************)
(* The live reload of stub files: the watcher (StubWatcher) and the loader *)
(* (StubFiles), joined by the output channel.  At start-up                 *)
(* ReadFromPathSync loads the files one after another and then starts the  *)
(* watcher; from then on every path received from the channel starts a     *)
(* load in a goroutine of its own.  The load of a timer has its name.      *)
(***************************************************************************)
EXTENDS StubWatcher, Sequences

CONSTANTS
  Contents, Unreadable, NilId, NewIds, Nobody,  \* as in StubFiles
  Initial,                                      \* the load at start-up
  MaxEdits                                      \* bound: edits of each file

\* The IDs written in a file, of which no other file has any.
OwnIDs(f) == (UNION {Range(c) : c \in Contents[f] \ {Unreadable}}) \ {NilId}

ASSUME ReloadAssumption ==
  /\ \A f \in Files : \A c \in Contents[f] \ {Unreadable} : c \in Seq(Range(c))
  /\ \A f \in Files : OwnIDs(f) \cap NewIds = {}
  /\ \A f, g \in Files : f # g => OwnIDs(f) \cap OwnIDs(g) = {}
  /\ NilId \notin NewIds
  /\ Initial \notin Timers /\ Nobody \notin Timers \cup {Initial}

VARIABLES
  disk, load, stored, mapIDsByFile, holder, seen, applied,
  toLoad     \* the files the start-up has not loaded yet

loader == INSTANCE StubFiles WITH Loads <- Timers \cup {Initial}

loaderVars == <<load, stored, mapIDsByFile, holder, seen, applied>>
vars == <<watcherVars, disk, loaderVars, toLoad>>

Loads == Timers \cup {Initial}

WatcherOnly(A) == A /\ UNCHANGED <<disk, loaderVars, toLoad>>
LoaderOnly(A) == A /\ UNCHANGED <<watcherVars, disk, toLoad>>

\* handleDirectoryPath goes on to a file when it is done with the last one.
LoadInitially(f) ==
  /\ f \in toLoad
  /\ loader!Begin(Initial, f)
  /\ toLoad' = toLoad \ {f}
  /\ UNCHANGED <<watcherVars, disk>>

StartWatching ==
  /\ toLoad = {} /\ load[Initial].at = "idle"
  /\ WatcherOnly(Watch)

\* Edits before the directory is watched raise no event.
EditFile(f) ==
  /\ disk[f].version <= MaxEdits[f]
  /\ loader!Edit(f)
  /\ events' = IF pc = "off" THEN events ELSE events \cup {f}
  /\ UNCHANGED <<timers, timer, wg, closed, pc, cancelled, toLoad>>

\* The consumer of the channel starts a goroutine and is ready again.
Deliver(t) ==
  /\ Send(t)
  /\ loader!Begin(t, timer[t].path)
  /\ UNCHANGED <<disk, toLoad>>

Init ==
  /\ WatcherInit /\ loader!FilesInit
  /\ toLoad = Files

WatcherStep ==
  StartWatching \/ WatcherOnly((\E f \in Files : Notice(f)) \/ StopAll \/ CloseOutput)

TimerStep(t) ==
  WatcherOnly(Fire(t) \/ Callback(t) \/ Abort(t)) \/ Deliver(t)

LoadStep(l) == LoaderOnly(loader!ReadStub(l) \/ loader!Apply(l))

Next ==
  \/ \E f \in Files : EditFile(f) \/ LoadInitially(f)
  \/ WatcherStep
  \/ WatcherOnly(Cancel)
  \/ \E t \in Timers : TimerStep(t)
  \/ \E l \in Loads : LoadStep(l)

Spec == Init /\ [][Next]_vars

\* Goroutines keep being scheduled, timers fire and events arrive.
FairSpec ==
  /\ Spec
  /\ WF_vars(\E f \in Files : LoadInitially(f)) /\ WF_vars(WatcherStep)
  /\ \A t \in Timers : WF_vars(TimerStep(t))
  /\ \A l \in Loads : WF_vars(LoadStep(l))

----------------------------------------------------------------------------
(* Properties.                                                             *)

\* Type invariant of the watcher and of the loader.
TypeOK ==
  /\ WatcherTypeOK /\ loader!FilesTypeOK
  /\ toLoad \subseteq Files

WholeContents == loader!WholeContents
UpdatedInPlace == loader!UpdatedInPlace

\* No edit is lost among replaced timers, late callbacks and loads: after an
\* edit that raised an event some load reads the file as it is then, unless
\* the server shuts down (stub.go:54 replaces a timer that may just have fired).
EventsLoaded ==
  \A f \in Files : f \in events ~> (seen[f] = disk[f].version \/ cancelled)
=============================================================================
