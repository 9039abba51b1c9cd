----------------------------- MODULE GrHistory -----------------------------
(***************************************************************************)
(* The reference model of the helper with the history it forgets: how many *)
(* sessions were lost since a route was last heard, and whether the helper *)
(* was told, since the last loss, to clear what it retained.  The history  *)
(* only observes; it states which routes RFC 4724 lets a helper hold, by   *)
(* when they were learned, instead of by the three states of the code.     *)
(***************************************************************************)
EXTENDS GrModel, Naturals

VARIABLES
  losses,      \* losses since the route was heard; NEVER if two, or not heard
  swept        \* retained routes were to be cleared since the last loss

hvars == <<state, losses, swept>>

NEVER == 2     \* bound of the history: two losses are as good as never heard

HInit ==
  /\ Init
  /\ losses = [r \in Routes |-> NEVER]
  /\ swept = FALSE

OneMoreLoss == [r \in Routes |-> IF losses[r] = NEVER THEN NEVER ELSE losses[r] + 1]

HLearn(r) ==
  /\ state' = Learned(state, r)
  /\ losses' = IF state.connected THEN [losses EXCEPT ![r] = 0] ELSE losses
  /\ UNCHANGED swept

HDisconnect ==
  /\ state' = Disconnected(state)
  /\ losses' = IF state.connected THEN OneMoreLoss ELSE losses
  /\ swept' = IF state.connected THEN FALSE ELSE swept

HReconnectKeep == state' = ReconnectedKeeping(state) /\ UNCHANGED <<losses, swept>>

HReconnectClear ==
  /\ state' = ReconnectedClearing(state)
  /\ swept' = TRUE
  /\ UNCHANGED losses

HSweep ==
  /\ state' = Swept(state)
  /\ swept' = TRUE
  /\ UNCHANGED losses

HNotification ==
  /\ state' = Notified(state)
  /\ losses' = IF state.connected THEN OneMoreLoss ELSE losses
  /\ swept' = TRUE

HNext ==
  \/ \E r \in Routes : HLearn(r)
  \/ HDisconnect
  \/ HReconnectKeep
  \/ HReconnectClear
  \/ HSweep
  \/ HNotification

HSpec == HInit /\ [][HNext]_hvars

(***************************************************************************)
(* Properties                                                              *)
(***************************************************************************)

(* The history stays within its bound.                                     *)
HTypeOK ==
  /\ TypeOK
  /\ losses \in [Routes -> 0 .. NEVER]
  /\ swept \in BOOLEAN

(* What RFC 4724 lets the helper hold of a route.                          *)
Held(r) ==
  IF losses[r] = 0 THEN ACTIVE
  ELSE IF losses[r] = 1 /\ state.gr_enabled /\ ~swept THEN STALE ELSE ABSENT

(* The helper holds exactly what it may: a route heard on this session is  *)
(* active, one heard on the session just lost is stale until the helper is *)
(* told to clear it, and everything else is gone.  In particular no route  *)
(* outlives two losses without being heard in between (the consecutive     *)
(* restart rule of gr_model.py:43-44), and no clean-up takes a route heard *)
(* on this session.                                                        *)
RetentionExact == \A r \in Routes : state.routes[r] = Held(r)

(* Nothing is heard without a session: the strengthening RetentionExact    *)
(* needs to be inductive.                                                  *)
HeardOnlyConnected == \A r \in Routes : losses[r] = 0 => state.connected

=============================================================================
