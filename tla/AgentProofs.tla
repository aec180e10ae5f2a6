---------------------------- MODULE AgentProofs ----------------------------
(***************************************************************************)
(* The invariants of Agent for any number of callers, of RPCs and of       *)
(* faults.  None is inductive alone: that handlers have a log rests on the *)
(* order in which New opens the parts (SetupOrder) and on what the caller  *)
(* inside Shutdown has closed so far (ShutdownOrder); that nil means       *)
(* closed rests on the lock being held until all is done (Finished).       *)
(***************************************************************************)
EXTENDS Agent, TLAPS

SetupOrder ==
    /\ mux # "none" => setup = "done"
    /\ setup = "done" => membership # "none"
    /\ setup = "server" => log = "open"
    /\ server = "open" => log = "open"
    /\ shutdown => setup = "done"
    /\ \A c \in Callers : pc[c] # "idle" => setup = "done"

ShutdownOrder ==
    /\ shutdownLock # NoCaller => shutdown
    /\ \A c \in Callers :
        /\ pc[c] \in {"stop", "drain", "close"} => membership = "closed"
        /\ pc[c] \in {"drain", "close"} => server = "closed"
        /\ pc[c] = "close" => calls = {}

AllClosed == membership = "closed" /\ server = "closed" /\ log = "closed" /\ calls = {}

Finished ==
    /\ \A c \in Callers : pc[c] = "nil" => shutdown /\ shutdownLock = NoCaller
    /\ shutdown /\ shutdownLock = NoCaller /\ faults = 0 => AllClosed

IInv == TypeOK /\ SetupOrder /\ HandlersHaveLog /\ ShutdownOrder /\ Finished

(* All that the steps need to know of the names of the callers.            *)
LEMMA CallerNames ==
    NoCaller \notin Callers /\ Mux \in Callers /\ Grpc \in Callers /\ Users \subseteq Callers
  BY AgentAssumption DEF Callers

LEMMA Initially == Init => IInv
  <1> SUFFICES ASSUME Init PROVE IInv
    OBVIOUS
  <1>1. LockHeld
    BY CallerNames DEF Init, LockHeld, Inside
  <1>2. pc \in [Callers -> Inside \cup {"idle", "lock", "nil", "error"}]
    BY DEF Init
  <1>3. shutdownLock \in Callers \cup {NoCaller} /\ faults \in 0 .. MaxFaults
    BY AgentAssumption DEF Init
  <1>4. TypeOK
    BY <1>1, <1>2, <1>3 DEF Init, TypeOK, Part
  <1>5. SetupOrder /\ HandlersHaveLog /\ ShutdownOrder /\ Finished
    BY DEF Init, SetupOrder, HandlersHaveLog, ShutdownOrder, Finished
  <1> QED
    BY <1>4, <1>5 DEF IInv

(* New opens the log before the server and the membership before the mux.  *)
LEMMA SetupKeeps ==
    ASSUME IInv, setupMux \/ setupLog \/ setupServer \/ setupMembership \/ SetupFails
    PROVE  IInv'
  <1> USE DEF IInv
  <1>1. UNCHANGED <<pc, calls, shutdown, shutdownLock>>
    BY DEF setupMux, setupLog, setupServer, setupMembership, SetupFails
  <1>2. setup \in {"mux", "log", "server", "membership"}
    BY DEF setupMux, setupLog, setupServer, setupMembership, SetupFails, Setup
  <1>3. ~shutdown /\ \A c \in Callers : pc[c] = "idle"
    BY <1>2 DEF SetupOrder
  <1>4. LockHeld'
    BY <1>1 DEF TypeOK, LockHeld
  <1>5. TypeOK'
    BY <1>1, <1>4, AgentAssumption
       DEF TypeOK, Part, Setup, setupMux, setupLog, setupServer, setupMembership,
           SetupFails, Fault, parts
  <1>6. SetupOrder'
    BY <1>1, <1>3
       DEF SetupOrder, Setup, setupMux, setupLog, setupServer, setupMembership,
           SetupFails, parts
  <1>7. HandlersHaveLog'
    BY <1>1 DEF HandlersHaveLog, setupMux, setupLog, setupServer, setupMembership,
                SetupFails, parts
  <1>8. ShutdownOrder' /\ Finished'
    BY <1>1, <1>3 DEF ShutdownOrder, Finished
  <1> QED
    BY <1>5, <1>6, <1>7, <1>8

(* A call that begins finds the server open, and so the log.               *)
LEMMA CallsKeep ==
    ASSUME IInv, NEW x \in Calls, CallBegins(x) \/ CallEnds(x)
    PROVE  IInv'
  <1> USE DEF IInv
  <1>1. UNCHANGED <<setup, parts, mux, shutdown, shutdownLock, pc, faults>>
    BY DEF CallBegins, CallEnds
  <1>2. calls' \subseteq Calls /\ (calls' # {} => server = "open" \/ calls # {})
    BY DEF CallBegins, CallEnds, TypeOK
  <1>3. TypeOK'
    BY <1>1, <1>2 DEF TypeOK, LockHeld, parts
  <1>4. SetupOrder'
    BY <1>1 DEF SetupOrder, parts
  <1>5. HandlersHaveLog'
    BY <1>1, <1>2 DEF HandlersHaveLog, SetupOrder, parts
  <1>6. ShutdownOrder'
    BY <1>1, <1>2 DEF ShutdownOrder, parts
  <1>7. Finished'
    BY <1>1, <1>2 DEF Finished, AllClosed, parts
  <1> QED
    BY <1>3, <1>4, <1>5, <1>6, <1>7

(* A broken socket counts as a fault.                                      *)
LEMMA SocketKeeps == ASSUME IInv, SocketFails PROVE IInv'
  <1> USE DEF IInv
  <1>1. UNCHANGED <<setup, log, server, membership, mux, calls, shutdown, shutdownLock, pc>>
    BY DEF SocketFails
  <1>2. listener' = "closed" /\ faults' \in 0 .. MaxFaults /\ faults' # 0
    BY AgentAssumption DEF SocketFails, Fault, TypeOK
  <1>3. TypeOK'
    BY <1>1, <1>2 DEF TypeOK, LockHeld, Part
  <1>4. SetupOrder' /\ HandlersHaveLog' /\ ShutdownOrder' /\ Finished'
    BY <1>1, <1>2 DEF SetupOrder, HandlersHaveLog, ShutdownOrder, Finished
  <1> QED
    BY <1>3, <1>4

(* Whoever calls Shutdown does so after New returned.                      *)
LEMMA EnterKeeps ==
    ASSUME IInv, NEW c \in Callers, Enter(c), setup = "done",
           mux' \in {"none", "serving", "returned"}
    PROVE  IInv'
  <1> USE DEF IInv, Enter
  <1>1. pc' \in [Callers -> Inside \cup {"idle", "lock", "nil", "error"}]
    BY DEF TypeOK
  <1>2. \A d \in Callers : pc'[d] = pc[d] \/ (pc[d] = "idle" /\ pc'[d] = "lock")
    BY DEF TypeOK
  <1>3. LockHeld'
    BY <1>2 DEF TypeOK, LockHeld, Inside
  <1>4. TypeOK'
    BY <1>1, <1>3 DEF TypeOK, parts
  <1>5. SetupOrder'
    BY <1>2 DEF SetupOrder, parts
  <1>6. HandlersHaveLog' /\ ShutdownOrder'
    BY <1>2 DEF HandlersHaveLog, ShutdownOrder, parts
  <1>7. Finished'
    BY <1>2 DEF Finished, AllClosed, parts
  <1> QED
    BY <1>4, <1>5, <1>6, <1>7

(* Where a step of one caller leaves the others.                           *)
LEMMA OthersStay ==
    ASSUME TypeOK, NEW c \in Callers, NEW to \in Inside \cup {"lock", "nil", "error"},
           pc' = [pc EXCEPT ![c] = to]
    PROVE  /\ pc' \in [Callers -> Inside \cup {"idle", "lock", "nil", "error"}]
           /\ pc'[c] = to
           /\ \A d \in Callers : d # c => pc'[d] = pc[d]
  BY DEF TypeOK

LEMMA BeginsKeeps == ASSUME IInv, NEW c \in Callers, ShutdownBegins(c) PROVE IInv'
  <1> USE CallerNames DEF IInv, ShutdownBegins
  <1>1. UNCHANGED <<setup, parts, mux, calls, faults>> /\ shutdown' = TRUE
    OBVIOUS
  <1>2. setup = "done"
    BY DEF SetupOrder
  <1>3. CASE shutdown
    <2>1. /\ pc' \in [Callers -> Inside \cup {"idle", "lock", "nil", "error"}]
          /\ pc'[c] = "nil"
          /\ \A d \in Callers : d # c => pc'[d] = pc[d]
      BY <1>3, OthersStay
    <2>2. shutdownLock = NoCaller /\ shutdownLock' = NoCaller
      BY <1>3
    <2>3. LockHeld'
      BY <2>1, <2>2 DEF TypeOK, LockHeld, Inside
    <2>4. TypeOK'
      BY <1>1, <2>1, <2>2, <2>3 DEF TypeOK, parts
    <2>5. SetupOrder' /\ HandlersHaveLog' /\ ShutdownOrder'
      BY <1>1, <1>2, <2>1, <2>2 DEF SetupOrder, HandlersHaveLog, ShutdownOrder, parts
    <2>6. Finished'
      BY <1>1, <1>3, <2>1, <2>2 DEF Finished, AllClosed, parts
    <2> QED
      BY <2>4, <2>5, <2>6
  <1>4. CASE ~shutdown
    <2>1. /\ pc' \in [Callers -> Inside \cup {"idle", "lock", "nil", "error"}]
          /\ pc'[c] = "leave"
          /\ \A d \in Callers : d # c => pc'[d] = pc[d]
      BY <1>4, OthersStay DEF Inside
    <2>2. shutdownLock = NoCaller /\ shutdownLock' = c
      BY <1>4
    <2>3. LockHeld'
      BY <2>1, <2>2 DEF TypeOK, LockHeld, Inside
    <2>4. TypeOK'
      BY <1>1, <2>1, <2>2, <2>3 DEF TypeOK, parts
    <2>5. SetupOrder' /\ HandlersHaveLog' /\ ShutdownOrder'
      BY <1>1, <1>2, <2>1, <2>2 DEF SetupOrder, HandlersHaveLog, ShutdownOrder, parts
    <2>6. \A d \in Callers : pc'[d] # "nil"
      BY <1>4, <2>1 DEF Finished
    <2>7. Finished'
      BY <2>2, <2>6 DEF Finished
    <2> QED
      BY <2>4, <2>5, <2>7
  <1> QED
    BY <1>3, <1>4 DEF TypeOK

(* What holds of the caller that has the lock, and of the others.          *)
LEMMA Alone ==
    ASSUME IInv, NEW c \in Callers, pc[c] \in Inside
    PROVE  /\ shutdownLock = c /\ c # NoCaller /\ shutdown /\ setup = "done"
           /\ \A d \in Callers : d # c => pc[d] \notin Inside
           /\ \A d \in Callers : pc[d] # "nil"
  BY CallerNames DEF IInv, TypeOK, LockHeld, ShutdownOrder, SetupOrder, Finished

LEMMA FailsKeeps == ASSUME IInv, NEW c \in Callers, ShutdownFails(c) PROVE IInv'
  <1> USE CallerNames DEF IInv, ShutdownFails, Returns
  <1>1. UNCHANGED <<setup, parts, mux, calls, shutdown>> /\ shutdownLock' = NoCaller
    OBVIOUS
  <1>2. faults' \in 0 .. MaxFaults /\ faults' # 0
    BY AgentAssumption DEF Fault, TypeOK
  <1>3. /\ pc' \in [Callers -> Inside \cup {"idle", "lock", "nil", "error"}]
        /\ pc'[c] = "error"
        /\ \A d \in Callers : d # c => pc'[d] = pc[d]
    BY OthersStay
  <1>4. /\ shutdownLock = c /\ shutdown /\ setup = "done"
        /\ \A d \in Callers : d # c => pc[d] \notin Inside
        /\ \A d \in Callers : pc[d] # "nil"
    BY Alone DEF Inside
  <1>5. LockHeld'
    BY <1>1, <1>3, <1>4 DEF LockHeld, Inside
  <1>6. TypeOK'
    BY <1>1, <1>2, <1>3, <1>5 DEF TypeOK, parts
  <1>7. SetupOrder' /\ HandlersHaveLog'
    BY <1>1, <1>3, <1>4 DEF SetupOrder, HandlersHaveLog, parts
  <1>8. ShutdownOrder' /\ Finished'
    BY <1>1, <1>2, <1>3, <1>4 DEF ShutdownOrder, Finished, Inside
  <1> QED
    BY <1>6, <1>7, <1>8

(* The steps of Shutdown that keep the lock: Leave, then GracefulStop, and *)
(* the wait of GracefulStop for the calls that run.                        *)
LEMMA InsideKeeps ==
    ASSUME IInv, NEW c \in Callers,
           ShutdownLeaves(c) \/ ShutdownStops(c) \/ ShutdownDrains(c)
    PROVE  IInv'
  <1> USE DEF IInv
  <1>1. UNCHANGED <<setup, log, mux, calls, shutdown, shutdownLock, faults>>
    BY DEF ShutdownLeaves, ShutdownStops, ShutdownDrains, parts
  <1>2. /\ pc' \in [Callers -> Inside \cup {"idle", "lock", "nil", "error"}]
        /\ pc'[c] \in Inside
        /\ \A d \in Callers : d # c => pc'[d] = pc[d]
    <2>1. \/ pc' = [pc EXCEPT ![c] = "stop"]
          \/ pc' = [pc EXCEPT ![c] = "drain"]
          \/ pc' = [pc EXCEPT ![c] = "close"]
      BY DEF ShutdownLeaves, ShutdownStops, ShutdownDrains
    <2> QED
      BY <2>1, OthersStay DEF Inside
  <1>3. /\ shutdownLock = c /\ c # NoCaller /\ shutdown /\ setup = "done"
        /\ \A d \in Callers : d # c => pc[d] \notin Inside
        /\ \A d \in Callers : pc[d] # "nil"
    BY Alone DEF ShutdownLeaves, ShutdownStops, ShutdownDrains, Inside
  <1>4. LockHeld'
    BY <1>1, <1>2, <1>3 DEF TypeOK, LockHeld
  <1>5. listener' \in Part /\ server' \in Part /\ membership' \in Part
    BY DEF TypeOK, Part, ShutdownLeaves, ShutdownStops, ShutdownDrains, parts
  <1>6. TypeOK'
    BY <1>1, <1>2, <1>4, <1>5 DEF TypeOK
  <1>7. SetupOrder'
    <2>1. server' = "open" => server = "open"
      BY DEF ShutdownLeaves, ShutdownStops, ShutdownDrains, parts
    <2>2. membership # "none" => membership' # "none"
      BY DEF ShutdownLeaves, ShutdownStops, ShutdownDrains, parts
    <2> QED
      BY <1>1, <1>3, <2>1, <2>2 DEF SetupOrder
  <1>8. HandlersHaveLog'
    BY <1>1 DEF HandlersHaveLog
  <1>9. ShutdownOrder'
    <2>1. /\ pc'[c] \in {"stop", "drain", "close"} => membership' = "closed"
          /\ pc'[c] \in {"drain", "close"} => server' = "closed"
          /\ pc'[c] = "close" => calls' = {}
      BY DEF TypeOK, ShutdownOrder, ShutdownLeaves, ShutdownStops, ShutdownDrains,
             Drained, parts
    <2>2. \A d \in Callers : d # c => pc'[d] \notin Inside
      BY <1>2, <1>3
    <2> QED
      BY <1>1, <1>3, <2>1, <2>2 DEF ShutdownOrder, Inside
  <1>10. Finished'
    BY <1>1, <1>2, <1>3 DEF Finished, Inside
  <1> QED
    BY <1>6, <1>7, <1>8, <1>9, <1>10

(* The log is the last: no call runs, and none can begin.                  *)
LEMMA ClosesKeeps == ASSUME IInv, NEW c \in Callers, ShutdownCloses(c) PROVE IInv'
  <1> USE CallerNames DEF IInv, ShutdownCloses, Returns
  <1>1. /\ UNCHANGED <<setup, listener, server, membership, mux, calls, shutdown, faults>>
        /\ log' = "closed" /\ shutdownLock' = NoCaller
    OBVIOUS
  <1>2. membership = "closed" /\ server = "closed" /\ calls = {}
    BY DEF ShutdownOrder
  <1>3. /\ pc' \in [Callers -> Inside \cup {"idle", "lock", "nil", "error"}]
        /\ pc'[c] = "nil"
        /\ \A d \in Callers : d # c => pc'[d] = pc[d]
    BY OthersStay
  <1>4. /\ shutdownLock = c /\ shutdown /\ setup = "done"
        /\ \A d \in Callers : d # c => pc[d] \notin Inside
        /\ \A d \in Callers : pc[d] # "nil"
    BY Alone DEF Inside
  <1>5. LockHeld'
    BY <1>1, <1>3, <1>4 DEF LockHeld, Inside
  <1>6. TypeOK'
    BY <1>1, <1>3, <1>5 DEF TypeOK, Part
  <1>7. SetupOrder' /\ HandlersHaveLog'
    BY <1>1, <1>2, <1>4 DEF SetupOrder, HandlersHaveLog
  <1>8. ShutdownOrder'
    BY <1>1, <1>2, <1>3, <1>4 DEF ShutdownOrder, Inside
  <1>9. Finished'
    BY <1>1, <1>2, <1>4 DEF Finished, AllClosed
  <1> QED
    BY <1>6, <1>7, <1>8, <1>9

LEMMA Stutters == ASSUME IInv, UNCHANGED vars PROVE IInv'
  BY DEF IInv, vars, parts, TypeOK, LockHeld, SetupOrder, HandlersHaveLog,
         ShutdownOrder, Finished, AllClosed

LEMMA Inductive == ASSUME IInv, [Next]_vars PROVE IInv'
  <1>1. CASE setupMux \/ setupLog \/ setupServer \/ setupMembership \/ SetupFails
    BY <1>1, SetupKeeps
  <1>2. ASSUME NEW x \in Calls, CallBegins(x) \/ CallEnds(x) PROVE IInv'
    BY <1>2, CallsKeep
  <1>3. CASE SocketFails
    BY <1>3, SocketKeeps
  <1>4. CASE MuxReturns
    <2>1. setup = "done"
      BY <1>4 DEF MuxReturns, IInv, SetupOrder
    <2> QED
      BY <1>4, <2>1, EnterKeeps, CallerNames DEF MuxReturns
  <1>5. CASE GrpcReturns
    <2>1. setup = "done" /\ mux' \in {"none", "serving", "returned"}
      BY <1>5 DEF GrpcReturns, IInv, SetupOrder
    <2> QED
      BY <1>5, <2>1, EnterKeeps, CallerNames DEF GrpcReturns
  <1>6. ASSUME NEW c \in Users, UserShutdown(c) PROVE IInv'
    <2>1. setup = "done" /\ mux' \in {"none", "serving", "returned"}
      BY <1>6 DEF UserShutdown, IInv, TypeOK
    <2> QED
      BY <1>6, <2>1, EnterKeeps, CallerNames DEF UserShutdown
  <1>7. ASSUME NEW c \in Callers, Proceeds(c) PROVE IInv'
    BY <1>7, BeginsKeeps, FailsKeeps, InsideKeeps, ClosesKeeps DEF Proceeds
  <1>8. CASE UNCHANGED vars
    BY <1>8, Stutters
  <1> QED
    BY <1>1, <1>2, <1>3, <1>4, <1>5, <1>6, <1>7, <1>8 DEF Next

(* The inductive invariant holds in every state of the agent, whoever      *)
(* calls Shutdown and whatever fails (agent.go, New and Shutdown).         *)
THEOREM AgentInvariant == Spec => []IInv
  BY Initially, Inductive, PTL DEF Spec

(* The state keeps its shape, and whoever is inside Shutdown holds the     *)
(* lock, alone (agent.go, New and Shutdown).                               *)
THEOREM AgentTypeOK == Spec => []TypeOK
  <1>1. IInv => TypeOK
    BY DEF IInv
  <1> QED
    BY <1>1, AgentInvariant, PTL

(* No handler of the gRPC server runs on a log that is closed or not there *)
(* yet (agent.go, New and Shutdown).                                       *)
THEOREM AgentHandlersHaveLog == Spec => []HandlersHaveLog
  <1>1. IInv => HandlersHaveLog
    BY DEF IInv
  <1> QED
    BY <1>1, AgentInvariant, PTL

(* Shutdown never goes through a membership that is not set yet (agent.go, *)
(* New, serve and Shutdown).                                               *)
THEOREM AgentMembershipSet == Spec => []MembershipSet
  <1>1. IInv => MembershipSet
    BY DEF IInv, SetupOrder, MembershipSet
  <1> QED
    BY <1>1, AgentInvariant, PTL

(* When nothing failed, a Shutdown that returned nil returned after all    *)
(* was shut down (agent.go, Shutdown).                                     *)
THEOREM AgentNilMeansClosed == Spec => []NilMeansClosed
  <1>1. IInv => NilMeansClosed
    BY DEF IInv, Finished, AllClosed, NilMeansClosed
  <1> QED
    BY <1>1, AgentInvariant, PTL
=============================================================================
