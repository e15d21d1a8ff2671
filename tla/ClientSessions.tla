--------------------------- MODULE ClientSessions ---------------------------
(***************************************************************************)
(* What StreamServer promises a subclass about every client, with no       *)
(* bufferevents, no map and no hook stack: on_client_connect first; then,  *)
(* while the client is open, on_client_input, one call at a time; then     *)
(* on_client_disconnect exactly once; and the client's resources go away   *)
(* after that and never before. A client refused by on_client_connect sees *)
(* no other hook. When the server is destroyed every client goes with it,  *)
(* and no hook tells of it.                                                *)
(***************************************************************************)
CONSTANT Client

VARIABLES
  session,   \* none, connecting, open, leaving (on_client_disconnect), gone
  serving,   \* clients whose on_client_input runs
  present    \* clients whose object and bufferevent exist

vars == <<session, serving, present>>

Init ==
  /\ session = [c \in Client |-> "none"]
  /\ serving = {}
  /\ present = {}

Becomes(c, from, to) ==
  /\ session[c] = from
  /\ session' = [session EXCEPT ![c] = to]

Connect(c) ==
  /\ Becomes(c, "none", "connecting")
  /\ present' = present \cup {c}
  /\ UNCHANGED serving

Open(c) == Becomes(c, "connecting", "open") /\ UNCHANGED <<serving, present>>

Refuse(c) ==
  /\ Becomes(c, "connecting", "gone")
  /\ present' = present \ {c}
  /\ UNCHANGED serving

BeginInput(c) ==
  /\ session[c] = "open"
  /\ serving = {}
  /\ serving' = {c}
  /\ UNCHANGED <<session, present>>

(* on_client_input ends; if it had the client disconnected (session gone), *)
(* the client may go away with it.                                         *)
EndInput(c) ==
  /\ serving = {c}
  /\ serving' = {}
  /\ \/ UNCHANGED present
     \/ session[c] = "gone" /\ present' = present \ {c}
  /\ UNCHANGED session

(* on_client_disconnect starts; it replaces a handler that threw.          *)
Leave(c) ==
  /\ Becomes(c, "open", "leaving")
  /\ serving' \in {serving, serving \ {c}}
  /\ UNCHANGED present

Left(c) ==
  /\ Becomes(c, "leaving", "gone")
  /\ present' \in {present, present \ {c}}
  /\ UNCHANGED serving

Release(c) ==
  /\ session[c] = "gone"
  /\ c \in present
  /\ present' = present \ {c}
  /\ UNCHANGED <<session, serving>>

Shutdown ==
  /\ serving = {}
  /\ session' = [c \in Client |-> IF session[c] = "none" THEN "none" ELSE "gone"]
  /\ present' = {}
  /\ UNCHANGED serving

Next ==
  \/ \E c \in Client :
       \/ Connect(c) \/ Open(c) \/ Refuse(c)
       \/ BeginInput(c) \/ EndInput(c)
       \/ Leave(c) \/ Left(c) \/ Release(c)
  \/ Shutdown

Safety == Init /\ [][Next]_vars

Spec ==
  /\ Safety
  /\ \A c \in Client : WF_vars(Left(c)) /\ WF_vars(Release(c))
=============================================================================
