---------------------------- MODULE ConnectionCap ----------------------------
(***************************************************************************)
(* The per-address cap on sockets (apps/realtime/src/security/ipLimiter.ts)*)
(* and the life of a socket that takes a slot and gives it back: the /ws   *)
(* route (main.ts), upgradeWebSocket, bindSocket, attachSession and        *)
(* registerHandlers (ws/gateway.ts).                                       *)
(*                                                                         *)
(* The route takes the slot before it has looked at the request; the       *)
(* listeners that give it back are registered last, after the token was    *)
(* verified and the session created.  A name of Socket stands for one      *)
(* request after the other.                                                *)
(***************************************************************************)
EXTENDS Naturals, FiniteSets

CONSTANTS
  Socket,
  Ip,
  IpOf,       \* [Socket -> Ip]: the address a request comes from
  MaxPerIp,   \* config.maxConnectionsPerIp
  Errors,     \* the sockets that may end with a transport error
  EarlyEnds   \* the requests that may lack a good token, and the sockets that
              \* may fail to attach or end before they have listeners

ASSUME CapAssumption ==
  /\ IsFiniteSet(Socket)
  /\ IpOf \in [Socket -> Ip]
  /\ MaxPerIp \in Nat
  /\ Errors \subseteq Socket
  /\ EarlyEnds \subseteq Socket

VARIABLES
  counts,     \* IpLimiter.counts; an address that is not in the map has 0
  ws,         \* the request: "none", "refused", "unauthorized", or readyState
  bind        \* how far bindSocket and attachSession have come

capVars == <<counts, ws, bind>>

CapTypeOK ==
  /\ counts \in [Ip -> Nat]
  /\ ws \in [Socket -> {"none", "refused", "unauthorized",
                        "connecting", "open", "closing", "closed"}]
  /\ bind \in [Socket -> {"none", "verify", "waitOpen", "create", "bound", "ended"}]

CapInit ==
  /\ counts = [ip \in Ip |-> 0]
  /\ ws = [s \in Socket |-> "none"]
  /\ bind = [s \in Socket |-> "none"]

----------------------------------------------------------------------------
\* A connection there is: it ends with the close event.
Live(s) == ws[s] \in {"connecting", "open", "closing"}

LiveAt(ip) == {s \in Socket : IpOf[s] = ip /\ Live(s)}

\* The request before is over and nothing of it is under way.
Over(s) == ~Live(s) /\ bind[s] \notin {"verify", "create"}

\* Defect: one more than the cap.
TryAcquire_OneMore(ip) ==
  /\ counts[ip] <= MaxPerIp
  /\ counts' = [counts EXCEPT ![ip] = @ + 1]

\* IpLimiter.tryAcquire returns true.
TryAcquire(ip) ==
  /\ counts[ip] < MaxPerIp
  /\ counts' = [counts EXCEPT ![ip] = @ + 1]

\* Defect: the last slot of an address is not given back.
AfterRelease_KeepsLast(n) == IF n <= 1 THEN n ELSE n - 1

\* Defect: nothing stops a count at nothing.
AfterRelease_Unguarded(n) == n - 1

\* IpLimiter.release; the entry of an address is deleted, not counted below 1.
AfterRelease(n) == IF n <= 1 THEN 0 ELSE n - 1

----------------------------------------------------------------------------
\* The /ws route: 429.
Refuse(s) ==
  /\ Over(s)
  /\ counts[IpOf[s]] >= MaxPerIp
  /\ ws' = [ws EXCEPT ![s] = "refused"]
  /\ bind' = [bind EXCEPT ![s] = "none"]
  /\ UNCHANGED counts

\* upgradeWebSocket answers 401 where there is no token.
RefuseNoToken(s) ==
  /\ s \in EarlyEnds
  /\ Over(s)
  /\ TryAcquire(IpOf[s])
  /\ ws' = [ws EXCEPT ![s] = "unauthorized"]
  /\ bind' = [bind EXCEPT ![s] = "none"]

\* Deno.upgradeWebSocket, and bindSocket up to its await.
Upgrade(s) ==
  /\ Over(s)
  /\ TryAcquire(IpOf[s])
  /\ ws' = [ws EXCEPT ![s] = "connecting"]
  /\ bind' = [bind EXCEPT ![s] = "verify"]

\* The open event, which is what bindSocket may be waiting for.
Open(s) ==
  /\ ws[s] = "connecting"
  /\ ws' = [ws EXCEPT ![s] = "open"]
  /\ bind' = [bind EXCEPT ![s] = IF @ = "waitOpen" THEN "create" ELSE @]
  /\ UNCHANGED counts

\* verifyToken returns.
Verified(s) ==
  /\ bind[s] = "verify"
  /\ bind' = [bind EXCEPT ![s] = CASE ws[s] = "open" -> "create"
                                   [] ws[s] = "connecting" -> "waitOpen"
                                   [] OTHER -> "ended"]
  /\ UNCHANGED <<counts, ws>>

\* verifyToken or createSession throws: the socket is closed.
GiveUp(s) ==
  /\ s \in EarlyEnds
  /\ bind[s] \in {"verify", "create"}
  /\ bind' = [bind EXCEPT ![s] = "ended"]
  /\ ws' = [ws EXCEPT ![s] = IF @ \in {"connecting", "open"} THEN "closing" ELSE @]
  /\ UNCHANGED counts

\* createSession returns: Hub.attach and registerHandlers.
RegisterHandlers(s) ==
  /\ bind[s] = "create"
  /\ bind' = [bind EXCEPT ![s] = "bound"]
  /\ UNCHANGED <<counts, ws>>

\* The server closes a bound socket: the event is concluded, the welcome fails.
ServerClose(s) ==
  /\ ws[s] = "open" /\ bind[s] = "bound"
  /\ ws' = [ws EXCEPT ![s] = "closing"]
  /\ UNCHANGED <<counts, bind>>

\* The close event; a socket without listeners ends unnoticed.
CloseEvent(s) ==
  /\ Live(s)
  /\ s \in EarlyEnds \/ bind[s] = "bound"
  /\ ws' = [ws EXCEPT ![s] = "closed"]
  /\ bind' = [bind EXCEPT ![s] = IF @ = "bound" THEN "ended" ELSE @]
  /\ counts' = [counts EXCEPT ![IpOf[s]] = IF bind[s] = "bound" THEN AfterRelease(@) ELSE @]

\* The error event, and the close event that follows every error: both
\* listeners call onClose.
ErrorEvent(s) ==
  /\ s \in Errors
  /\ Live(s)
  /\ s \in EarlyEnds \/ bind[s] = "bound"
  /\ ws' = [ws EXCEPT ![s] = "closed"]
  /\ bind' = [bind EXCEPT ![s] = IF @ = "bound" THEN "ended" ELSE @]
  /\ counts' = [counts EXCEPT ![IpOf[s]] =
                  IF bind[s] = "bound" THEN AfterRelease(AfterRelease(@)) ELSE @]

CapNext ==
  \E s \in Socket :
    \/ Refuse(s) \/ RefuseNoToken(s) \/ Upgrade(s)
    \/ Open(s) \/ Verified(s) \/ GiveUp(s) \/ RegisterHandlers(s)
    \/ ServerClose(s) \/ CloseEvent(s) \/ ErrorEvent(s)

CapSpec == CapInit /\ [][CapNext]_capVars

----------------------------------------------------------------------------
(* An address none of whose sockets reports an error, and one all of whose *)
(* sockets live until they have listeners.                                 *)
ErrorFree(ip) == \A s \in Errors : IpOf[s] # ip
Patient(ip) == \A s \in EarlyEnds : IpOf[s] # ip

(* No address has more sockets than the cap, through any sequence of       *)
(* requests, failures and closes (tryAcquire before the upgrade, release   *)
(* once the socket is closed), whatever the sockets of other addresses do. *)
(* Needs sockets that end without an error: the error listener and the     *)
(* close listener both release.                                            *)
CapRespected ==
  \A ip \in Ip : ErrorFree(ip) => Cardinality(LiveAt(ip)) <= MaxPerIp

(* An address is refused only while it has as many sockets as the cap: a   *)
(* slot comes back when its socket ends, with an error or without.  Needs  *)
(* the address's sockets to live until their listeners are registered.     *)
RefusedOnlyAtCap ==
  [][\A s \in Socket : Refuse(s) /\ Patient(IpOf[s])
        => Cardinality(LiveAt(IpOf[s])) >= MaxPerIp]_capVars

(* The latter of every address: `concurrent WS per IP' (README.md:99).     *)
NoNeedlessRefusal ==
  [][\A s \in Socket : Refuse(s) => Cardinality(LiveAt(IpOf[s])) >= MaxPerIp]_capVars
=============================================================================
