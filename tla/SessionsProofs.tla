--------------------------- MODULE SessionsProofs ---------------------------
(***************************************************************************)
(* Simulations of one stream are independent of each other, for every      *)
(* client, every pipelining of requests and every set of streams: the      *)
(* proof of Sessions!Independent over the composition of module Remote.    *)
(*                                                                         *)
(* Independent alone is not inductive: it says nothing of a stream without *)
(* a simulation, whose parameters the next Init starts from.               *)
(***************************************************************************)
EXTENDS Remote, TLAPS

(* The locals of Session() as a record; what a simulation, a request or an *)
(* answer is does not matter here.                                         *)
SessionsOver(A) ==
  [live : BOOLEAN, sim : A, params : A, id : A, request : A, clean : BOOLEAN,
   acked : A, failed : A]
IsSession(s) == \E A : s \in SessionsOver(A)

(* Before an Init the parameters are the defaults, unless an Init failed;  *)
(* after it they are what it asked for.                                    *)
OwnParams(s) ==
  s.clean => s.params = IF s.live THEN Assigned(DefaultParams, s.request) ELSE DefaultParams

GoodSession(s) == IsSession(s) /\ OwnParams(s)

(* The inductive invariant. *)
SessionsInv ==
  /\ session = [k \in Streams |-> session[k]]
  /\ \A k \in Streams : GoodSession(session[k])

-----------------------------------------------------------------------------
LEMMA NewSessionGood == GoodSession(NewSession)
<1> DEFINE A == {NoSimulation, DefaultParams, 0, << >>, {}}
<1>1. NewSession \in SessionsOver(A)
  <2> HIDE DEF A
  <2>1. NoSimulation \in A /\ DefaultParams \in A /\ 0 \in A /\ << >> \in A /\ {} \in A
    BY DEF A
  <2> QED BY <2>1 DEF NewSession, SessionsOver
<1> QED BY <1>1 DEF GoodSession, IsSession, OwnParams, NewSession

(* Records over a set are records over a larger one. *)
LEMMA Wider ==
  ASSUME NEW A, NEW B, NEW s \in SessionsOver(A)
  PROVE  s \in SessionsOver(A \cup B)
  BY DEF SessionsOver

(* A session whose simulation, account of appended jobs or count of failed *)
(* finishes changes is as good as before.                                  *)
LEMMA SimChange ==
  ASSUME NEW s, GoodSession(s), NEW x
  PROVE  GoodSession([s EXCEPT !.sim = x])
<1>1. PICK A : s \in SessionsOver(A)
  BY DEF GoodSession, IsSession
<1> DEFINE B == A \cup {x}
           t == [s EXCEPT !.sim = x]
<1>2. s \in SessionsOver(B) /\ x \in B
  BY <1>1, Wider
<1> HIDE DEF B
<1>3. /\ t \in SessionsOver(B) /\ t.params = s.params /\ t.clean = s.clean
      /\ t.live = s.live /\ t.request = s.request
  BY <1>2 DEF SessionsOver
<1> QED BY <1>3 DEF GoodSession, IsSession, OwnParams

LEMMA AckedChange ==
  ASSUME NEW s, GoodSession(s), NEW x, NEW ids
  PROVE  GoodSession([s EXCEPT !.sim = x, !.acked = @ \cup ids])
<1>1. PICK A : s \in SessionsOver(A)
  BY DEF GoodSession, IsSession
<1> DEFINE y == s.acked \cup ids
           B == A \cup {x, y}
           t == [s EXCEPT !.sim = x, !.acked = y]
<1>2. s \in SessionsOver(B) /\ x \in B /\ y \in B
  BY <1>1, Wider
<1> HIDE DEF B, y
<1>3. /\ t \in SessionsOver(B) /\ t.params = s.params /\ t.clean = s.clean
      /\ t.live = s.live /\ t.request = s.request
  BY <1>2 DEF SessionsOver
<1>4. GoodSession(t)
  BY <1>3 DEF GoodSession, IsSession, OwnParams
<1> QED BY <1>4 DEF y

LEMMA FailedChange ==
  ASSUME NEW s, GoodSession(s), NEW x
  PROVE  GoodSession([s EXCEPT !.sim = x, !.failed = @ + 1])
<1>1. PICK A : s \in SessionsOver(A)
  BY DEF GoodSession, IsSession
<1> DEFINE y == s.failed + 1
           B == A \cup {x, y}
           t == [s EXCEPT !.sim = x, !.failed = y]
<1>2. s \in SessionsOver(B) /\ x \in B /\ y \in B
  BY <1>1, Wider
<1> HIDE DEF B, y
<1>3. /\ t \in SessionsOver(B) /\ t.params = s.params /\ t.clean = s.clean
      /\ t.live = s.live /\ t.request = s.request
  BY <1>2 DEF SessionsOver
<1>4. GoodSession(t)
  BY <1>3 DEF GoodSession, IsSession, OwnParams
<1> QED BY <1>4 DEF y

-----------------------------------------------------------------------------
(* What each request leaves of the session. *)
LEMMA CalledGood ==
  ASSUME NEW s, GoodSession(s), NEW call_
  PROVE  GoodSession(Called(s, call_).session)
  BY SimChange DEF Called, Answer, Error

LEMMA AppendedGood ==
  ASSUME NEW s, GoodSession(s), NEW call_
  PROVE  GoodSession(Appended(s, call_).session)
  BY CalledGood, AckedChange DEF Appended, Answer

LEMMA FinishGood ==
  ASSUME NEW s, GoodSession(s), NEW writable
  PROVE  GoodSession(FinishSimulation(s, writable).session)
  BY FailedChange, NewSessionGood DEF FinishSimulation, Answer, Error, Reset

LEMMA InitGood ==
  ASSUME NEW s, GoodSession(s), NEW r
  PROVE  GoodSession(InitSession(s, r).session)
<1>0. PICK A : s \in SessionsOver(A)
  BY DEF GoodSession, IsSession
<1> DEFINE p == Assigned(s.params, r)
<1>1. CASE s.live \/ ~r.safe_name
  BY <1>1 DEF InitSession, Error
<1>2. CASE ~(s.live \/ ~r.safe_name) /\ r.wait_queue_overflow \notin {"", "abort", "grow"}
  <2> DEFINE t == [s EXCEPT !.params = p, !.id = sequence, !.clean = FALSE]
             B == A \cup {p, sequence}
  <2>1. InitSession(s, r).session = t
    BY <1>2 DEF InitSession, Error
  <2>2. s \in SessionsOver(B) /\ p \in B /\ sequence \in B
    BY <1>0, Wider
  <2> HIDE DEF B, p
  <2>3. t \in SessionsOver(B) /\ t.clean = FALSE
    BY <2>2 DEF SessionsOver
  <2> HIDE DEF t
  <2> QED BY <2>1, <2>3 DEF GoodSession, IsSession, OwnParams
<1>3. CASE ~(s.live \/ ~r.safe_name) /\ r.wait_queue_overflow \in {"", "abort", "grow"}
  <2> DEFINE sim == [NewSimulation(p) EXCEPT !.rows = IF r.redis THEN redis ELSE @]
             t == [s EXCEPT !.live = TRUE, !.sim = sim, !.params = p, !.id = sequence,
                            !.request = r]
             B == A \cup {sim, p, sequence, r}
  <2>1. InitSession(s, r).session = t
    BY <1>3 DEF InitSession, Answer
  <2>2. s \in SessionsOver(B) /\ sim \in B /\ p \in B /\ sequence \in B /\ r \in B
    BY <1>0, Wider
  <2>3. s.clean => p = Assigned(DefaultParams, r)
    BY <1>3 DEF GoodSession, OwnParams
  <2> HIDE DEF B, p, sim
  <2>4. /\ t \in SessionsOver(B) /\ t.clean = s.clean /\ t.live = TRUE
        /\ t.params = p /\ t.request = r
    BY <2>2 DEF SessionsOver
  <2> HIDE DEF t
  <2> QED BY <2>1, <2>3, <2>4 DEF GoodSession, IsSession, OwnParams
<1> QED BY <1>1, <1>2, <1>3

LEMMA StatusesGood ==
  ASSUME NEW s, GoodSession(s), NEW ids
  PROVE  GoodSession(Statuses(s, ids).session)
  BY DEF Statuses, Answer, Error

LEMMA QueryGood ==
  ASSUME NEW s, GoodSession(s), NEW type
  PROVE  GoodSession(Query(s, type).session)
  BY DEF Query, Answer

LEMMA HandledGood ==
  ASSUME NEW s, GoodSession(s), NEW r, NEW writable
  PROVE  GoodSession(Handled(s, r, writable).session)
<1>1. GoodSession(Error(s).session)
  BY DEF Error
<1> QED BY <1>1, InitGood, AppendedGood, CalledGood, QueryGood, StatusesGood, FinishGood
    DEF Handled

-----------------------------------------------------------------------------
(* One session changes and stays good: so does the invariant. *)
LEMMA OneChanges ==
  ASSUME SessionsInv, NEW i, NEW s, i \in Streams => GoodSession(s),
         session' = [session EXCEPT ![i] = s]
  PROVE  SessionsInv'
<1>1. session' = [k \in Streams |-> IF k = i THEN s ELSE session[k]]
  BY DEF SessionsInv
<1>2. \A k \in Streams : GoodSession(session'[k])
  BY <1>1 DEF SessionsInv
<1>3. session' = [k \in Streams |-> session'[k]]
  BY <1>1
<1> QED BY <1>2, <1>3 DEF SessionsInv, GoodSession, IsSession, SessionsOver, OwnParams

(* Every turn of a server loop. *)
LEMMA SessionKeeps ==
  ASSUME SessionsInv, NEW k \in Streams, Session(k)
  PROVE  SessionsInv'
<1>1. PICK writable : session' = [session EXCEPT ![k] =
                        Handled(session[k], Head(inbox[k]), writable).session]
  BY DEF Session
<1>2. GoodSession(session[k])
  BY DEF SessionsInv
<1>3. GoodSession(Handled(session[k], Head(inbox[k]), writable).session)
  BY <1>2, HandledGood
<1> QED BY <1>1, <1>3, OneChanges

(* A client that connects gets a stream of its own. *)
LEMMA StartClientKeeps ==
  ASSUME SessionsInv, NEW targets, StartClient(targets)
  PROVE  SessionsInv'
<1>1. session' = [session EXCEPT ![1] = NewSession]
  BY DEF StartClient
<1> QED BY <1>1, OneChanges, NewSessionGood

(* No other step reaches the locals of Session(). *)
LEMMA UntouchedKeeps ==
  ASSUME SessionsInv, UNCHANGED session
  PROVE  SessionsInv'
  BY DEF SessionsInv, GoodSession, IsSession, OwnParams

LEMMA ExperimentKeeps == Experiment => UNCHANGED session
  BY DEF Experiment, Connect, Raise, NextArrivalOf, AskWindows, AskHorizons, TakeHorizons,
         ChooseServer, SettleServer, CloseAll

LEMMA SessionsInvInit == RemoteInit => SessionsInv
<1> SUFFICES ASSUME RemoteInit PROVE SessionsInv
  OBVIOUS
<1>1. session = [k \in Streams |-> NewSession]
  BY DEF RemoteInit, SessionsInit
<1> QED BY <1>1, NewSessionGood DEF SessionsInv

LEMMA SessionsInvInductive == SessionsInv /\ [RemoteNext]_vars => SessionsInv'
<1> SUFFICES ASSUME SessionsInv, [RemoteNext]_vars PROVE SessionsInv'
  OBVIOUS
<1>1. CASE scenario = "dispatch" /\ Dispatch
           /\ UNCHANGED <<sessions, grpc, client, feeding, scenario, sent>>
  BY <1>1, UntouchedKeeps DEF sessions
<1>2. CASE scenario = "dispatch" /\ Experiment
           /\ UNCHANGED <<dispatch, client, feeding, scenario, sent>>
  BY <1>2, ExperimentKeeps, UntouchedKeeps
<1>3. CASE \E k \in Streams : Session(k) /\ UNCHANGED <<drivers, scenario, sent>>
  BY <1>3, SessionKeeps
<1>4. CASE scenario = "example" /\ ClientNext(Targets)
           /\ UNCHANGED <<dispatch, grpc, feeding, scenario, sent>>
  <2>1. CASE StartClient(Targets)
    BY <2>1, StartClientKeeps
  <2>2. CASE CallServer
    BY <2>2, UntouchedKeeps DEF CallServer
  <2>3. CASE Lookup
    BY <2>3, UntouchedKeeps DEF Lookup, sessions
  <2>4. CASE PrintFinalized
    BY <2>4, UntouchedKeeps DEF PrintFinalized, sessions
  <2>5. CASE TakeAnswer
    BY <2>5, UntouchedKeeps DEF TakeAnswer
  <2> QED BY <1>4, <2>1, <2>2, <2>3, <2>4, <2>5 DEF ClientNext
<1>5. CASE scenario = "feed" /\ FeederNext
           /\ UNCHANGED <<dispatch, sessions, grpc, client, scenario, sent>>
  BY <1>5, UntouchedKeeps DEF sessions
<1>6. CASE ClientWrites \/ ClientReads
  BY <1>6, UntouchedKeeps DEF ClientWrites, ClientReads
<1>7. CASE Over \/ UNCHANGED vars
  BY <1>7, UntouchedKeeps DEF Over, vars, sessions
<1> QED BY <1>1, <1>2, <1>3, <1>4, <1>5, <1>6, <1>7 DEF RemoteNext

(* However requests are pipelined and sessions interleaved, a simulation   *)
(* has the parameters of its own Init, and none of the simulation that was *)
(* finished before it on the same stream.                                  *)
THEOREM SimulationsIndependent == RemoteSpec => []Independent
<1>1. SessionsInv => Independent
  BY DEF SessionsInv, GoodSession, OwnParams, Independent
<1> QED BY <1>1, SessionsInvInit, SessionsInvInductive, PTL DEF RemoteSpec
=============================================================================
