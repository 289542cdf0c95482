---------------------------- MODULE StubWatcher ----------------------------
(***************************************************************************)
(* The fsnotify watcher of stub files and its debouncer                    *)
(* (internal/infra/watcher/stub.go).  The watcher goroutine turns an event *)
(* of a file into a timer; another event of the file replaces the timer; a *)
(* timer that fires runs a callback, a goroutine of its own, that sends    *)
(* the path on the unbuffered output channel.  At shutdown the watcher     *)
(* stops the timers, waits for the callbacks and closes the channel.       *)
(***************************************************************************)
EXTENDS Integers, FiniteSets, Functions

CONSTANTS
  Files,    \* paths of stub files
  Timers    \* the timers that may be started, numbered (a bound)

ASSUME WatcherAssumption == Timers \subseteq Nat /\ Files # {}

VARIABLES
  events,     \* files with an event the watcher has not received
  timers,     \* debouncer.timers
  timer,      \* every timer with its path and its callback
  wg,         \* debouncer.wg: timers that still have to be accounted for
  closed,     \* debouncer.closed, set together with closing debouncer.done
  pc,         \* the watcher goroutine
  cancelled   \* whether the server's context is

watcherVars == <<events, timers, timer, wg, closed, pc, cancelled>>

InFlight == {t \in Timers : timer[t].at \in {"armed", "fired", "sending"}}

Without(f, k) == Restrict(f, DOMAIN f \ {k})

With(f, k, v) == [x \in DOMAIN f \cup {k} |-> IF x = k THEN v ELSE f[x]]

SetTimer(t, at) == timer' = [timer EXCEPT ![t].at = at]

----------------------------------------------------------------------------
(* The watcher goroutine.                                                  *)

\* notify: from here on the directory is watched.
Watch ==
  /\ pc = "off"
  /\ pc' = "loop"
  /\ UNCHANGED <<events, timers, timer, wg, closed, cancelled>>

\* Fault: the timer that add stops is not taken off the wait group.
addUnbalanced(f) ==
  LET old   == {timers[g] : g \in DOMAIN timers \cap {f}}
      fresh == CHOOSE t \in Timers : timer[t].at = "unused"
  IN  /\ timer' = [t \in Timers |->
                     IF t = fresh THEN [path |-> f, at |-> "armed"]
                     ELSE IF t \in old /\ timer[t].at = "armed"
                     THEN [timer[t] EXCEPT !.at = "stopped"] ELSE timer[t]]
      /\ timers' = With(timers, f, fresh)
      /\ wg' = wg + 1

\* Fault: a pending timer is stopped, and the event forgotten with it.
addReturningEarly(f) ==
  LET fresh == CHOOSE t \in Timers : timer[t].at = "unused"
  IN  IF f \in DOMAIN timers /\ timer[timers[f]].at = "armed"
      THEN /\ SetTimer(timers[f], "stopped")
           /\ timers' = Without(timers, f)
           /\ wg' = wg - 1
      ELSE /\ timer' = [timer EXCEPT ![fresh] = [path |-> f, at |-> "armed"]]
           /\ timers' = With(timers, f, fresh)
           /\ wg' = wg + 1

\* add: Stop returns true, and the wait group is balanced, only for a timer
\* that has not fired.
add(f) ==
  LET old     == {timers[g] : g \in DOMAIN timers \cap {f}}
      stopped == {t \in old : timer[t].at = "armed"}
      fresh   == CHOOSE t \in Timers : timer[t].at = "unused"
  IN  /\ timer' = [t \in Timers |->
                     IF t = fresh THEN [path |-> f, at |-> "armed"]
                     ELSE IF t \in stopped THEN [timer[t] EXCEPT !.at = "stopped"]
                     ELSE timer[t]]
      /\ timers' = With(timers, f, fresh)
      /\ wg' = wg + 1 - Cardinality(stopped)

\* The event loop receives an event of a stub file.
Notice(f) ==
  /\ pc = "loop" /\ f \in events
  /\ \E t \in Timers : timer[t].at = "unused"
  /\ events' = events \ {f}
  /\ add(f)
  /\ UNCHANGED <<closed, pc, cancelled>>

\* stopAll up to its wait.  A timer whose map entry is gone is not stopped.
StopAll ==
  /\ pc = "loop" /\ cancelled
  /\ LET stopped == {t \in Range(timers) : timer[t].at = "armed"}
     IN  /\ timer' = [t \in Timers |-> IF t \in stopped
                        THEN [timer[t] EXCEPT !.at = "stopped"] ELSE timer[t]]
         /\ wg' = wg - Cardinality(stopped)
  /\ closed' = TRUE
  /\ timers' = <<>>
  /\ pc' = "waiting"
  /\ UNCHANGED <<events, cancelled>>

\* Fault: the channel is closed without waiting for the callbacks.
CloseOutputAtOnce ==
  /\ pc = "waiting"
  /\ pc' = "ended"
  /\ UNCHANGED <<events, timers, timer, wg, closed, cancelled>>

\* The end of wg.Wait and of the goroutine, which closes the channel.
CloseOutput ==
  /\ pc = "waiting" /\ wg = 0
  /\ pc' = "ended"
  /\ UNCHANGED <<events, timers, timer, wg, closed, cancelled>>

Cancel ==
  /\ ~cancelled
  /\ cancelled' = TRUE
  /\ UNCHANGED <<events, timers, timer, wg, closed, pc>>

----------------------------------------------------------------------------
(* Timers and their callbacks.                                             *)

Fire(t) ==
  /\ timer[t].at = "armed"
  /\ SetTimer(t, "fired")
  /\ UNCHANGED <<events, timers, wg, closed, pc, cancelled>>

\* The callback deletes the entry of its path, whichever timer is there.
Callback(t) ==
  /\ timer[t].at = "fired"
  /\ timers' = Without(timers, timer[t].path)
  /\ IF closed THEN SetTimer(t, "returned") /\ wg' = wg - 1
               ELSE SetTimer(t, "sending") /\ UNCHANGED wg
  /\ UNCHANGED <<events, closed, pc, cancelled>>

\* The receiver takes the path.
Send(t) ==
  /\ timer[t].at = "sending"
  /\ SetTimer(t, "returned")
  /\ wg' = wg - 1
  /\ UNCHANGED <<events, timers, closed, pc, cancelled>>

Abort(t) ==
  /\ timer[t].at = "sending" /\ closed
  /\ SetTimer(t, "returned")
  /\ wg' = wg - 1
  /\ UNCHANGED <<events, timers, closed, pc, cancelled>>

WatcherInit ==
  /\ events = {}
  /\ timers = <<>>
  /\ timer = [t \in Timers |-> [path |-> CHOOSE f \in Files : TRUE, at |-> "unused"]]
  /\ wg = 0
  /\ closed = FALSE /\ cancelled = FALSE
  /\ pc = "off"

----------------------------------------------------------------------------
(* Properties.                                                             *)

WatcherTypeOK ==
  /\ events \subseteq Files
  /\ timers \in UNION {[S -> Timers] : S \in SUBSET Files}
  /\ timer \in [Timers -> [path : Files, at : {"unused", "armed", "stopped", "fired",
                                               "sending", "returned"}]]
  /\ wg \in Nat
  /\ closed \in BOOLEAN /\ cancelled \in BOOLEAN
  /\ pc \in {"off", "loop", "waiting", "ended"}

\* Nobody sends on the closed output channel, which would panic: when the
\* watcher has closed it no timer can fire any more and no callback is on its
\* way, those of timers that the map has lost included (stub.go:60: "this can
\* never send on a closed channel").
NoSendAfterClose == pc = "ended" => InFlight = {}

\* Shutdown ends: the wait group is balanced for every timer that was stopped,
\* and a callback nobody listens to leaves by the done channel (stub.go:101).
ShutdownEnds == (cancelled /\ pc # "off") ~> pc = "ended"
=============================================================================
