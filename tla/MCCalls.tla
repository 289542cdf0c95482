------------------------------ MODULE MCCalls ------------------------------
(***************************************************************************)
(* Two calls, two stub IDs, one named session.  One call is of any kind,   *)
(* the other is a unary one of the same service that runs meanwhile.       *)
(***************************************************************************)
EXTENDS BidiCalls

CONSTANTS c1, c2, s1, m1, m2

Stub(session, times, accepts, inputs, len, code, effects) ==
  [session |-> session, times |-> times, accepts |-> accepts, inputs |-> inputs,
   len |-> len, code |-> code, effects |-> effects]

Op(action, id) == [action |-> action, id |-> id]

\* A stub of everybody for one use, with effects; one of the session, with an
\* effect that cannot be prepared, for bidirectional scripts; a NotFound answer.
Once == Stub(Global, 1, {m1, m2}, 0, 1, "OK", <<Op("delete", 2), Op("upsert", 2)>>)
Script == Stub(s1, 0, {m1, m2}, 1, 2, "OK", <<Op("delete", 1), Op("broken", 2)>>)
Missing == Stub(s1, 0, {m1}, 0, 0, "NotFound", <<Op("delete", 1)>>)

MCLoaded == {Once, Script, Missing}
MCBodies == {Script}

Shape(kind, session, mode, msgs) ==
  [kind |-> kind, session |-> session, mode |-> mode, msgs |-> msgs]

\* Replay is capture without the captured stub: it is left to two kinds.
MCShapes ==
  {Shape("unary", Global, "none", <<m1>>)}
  \cup {Shape("unary", s1, mode, <<m1>>) : mode \in Modes}
  \cup {Shape("server", s1, mode, <<m1>>) : mode \in {"none", "replay", "capture"}}
  \cup {Shape("client", s1, mode, <<m1, m2>>) : mode \in {"none", "capture"}}
  \cup {Shape("bidi", s1, mode, <<m1, m2>>) : mode \in {"none", "proxy", "capture"}}
  \cup {Shape("client", s1, "capture", <<>>), Shape("server", s1, "capture", <<>>)}

\* The second call is the unary one, outside the session; the first ID holds the
\* stub with effects, the second another or none.
MCInit ==
  /\ Init
  /\ call[c2].kind = "unary" /\ call[c2].mode = "none" /\ call[c2].session = Global
  /\ call[c1].session = s1
  /\ stubs[1] # NoStub /\ stubs[1] = Once /\ stubs[2] # Once

MCSpec == MCInit /\ [][Next]_vars /\ Fairness
=============================================================================
