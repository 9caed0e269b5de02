---------------------------- MODULE HttpClients ----------------------------
(***************************************************************************)
(* The pooled HTTP clients of app/httpclient.py and the collectors of      *)
(* app/collectors/kubernetes.py that use them.  A client that verifies     *)
(* with certificates is rebuilt when a file it was built from changes; the *)
(* one it replaces may have requests in flight and is kept until shutdown. *)
(*                                                                         *)
(* Looking up or building a client does not suspend, so no coroutine runs  *)
(* in between, but whoever rotates the files does: they may change between *)
(* the os.stat of each file and the reading of it.                         *)
(***************************************************************************)
EXTENDS Naturals, FiniteSets, Functions

CONSTANTS
  Requests,    (* coroutines that talk to the API server, etcd, a component   *)
  MaxVersion,  (* model bound: how often files are written, all in all        *)
  MaxClients   (* model bound: clients built                                  *)

ASSUME ClientsAssumption == MaxVersion \in Nat /\ MaxClients \in Nat

\* The certificate files, and those each client is built from; a client of no
\* file verifies nothing.
Files == {"sa ca", "etcd ca", "etcd cert", "etcd key"}
Keys == {"kubernetes", "local", "etcd", "insecure"}
FilesOf == [k \in Keys |-> IF k = "etcd" THEN {"etcd ca", "etcd cert", "etcd key"}
                           ELSE IF k = "insecure" THEN {} ELSE {"sa ca"}]
Verified == {"kubernetes", "local"}   \* checked against the cluster's CA

Ids == 1..MaxClients
NoClient == 0
Gone == 0        \* version of a file that is not there

\* What the coroutines want: _k8s_get, the probe of the API server on localhost,
\* the probe of another component, etcd, the health of the API endpoint.
Kinds == {"get", "apiserver", "component", "etcd", "endpoint"}
Idle == [pc |-> "idle", token |-> FALSE, client |-> NoClient]

VARIABLES
  version,  (* file -> what is on disk                                       *)
  clients,  (* _clients                                                      *)
  stamps,   (* _stamps: key -> the mtimes of the files of its client         *)
  retired,  (* _retired                                                      *)
  made,     (* client -> key, the contents it was built from, closed or not  *)
  call,     (* request -> where it is, if it sends the token, its client      *)
  shut,     (* close_clients: "no", "closing", "done"                        *)
  todo      (* clients close_clients has still to look at                    *)

pool == <<clients, stamps, retired, made>>
vars == <<version, pool, call, shut, todo>>

NoFiles == [f \in {} |-> Gone]
NotMade == [key |-> "insecure", built |-> NoFiles, state |-> "none"]

Init ==
  /\ version \in [Files -> {Gone, 1}]
  /\ version["etcd cert"] = version["etcd key"]
  /\ version["etcd cert"] = version["etcd ca"]
  /\ clients = [k \in Keys |-> NoClient]
  /\ stamps = [k \in Keys |-> NoFiles]
  /\ retired = {}
  /\ made = [i \in Ids |-> NotMade]
  /\ call = [r \in Requests |-> Idle]
  /\ shut = "no" /\ todo = {}

Open(i) == i # NoClient /\ made[i].state = "open"
InUse == {call[r].client : r \in Requests} \ {NoClient}
NewId == CHOOSE i \in Ids : made[i].state = "none"

-----------------------------------------------------------------------------
(* The files.                                                                *)

\* Whoever owns the files replaces one, or writes one that was not there yet.
CanRotate == SumFunction(version) < MaxVersion

Rotate(f) ==
  /\ CanRotate
  /\ version' = [version EXCEPT ![f] = @ + 1]
  /\ UNCHANGED <<pool, call, shut, todo>>

\* What the files can be a moment later: at most one of them was replaced.
Later == {version} \cup {[version EXCEPT ![f] = @ + 1] : f \in {g \in Files : CanRotate}}

\* The context can be built: all files are there, and the key fits the
\* certificate.
Loads(k, on) ==
  /\ \A f \in FilesOf[k] : on[f] # Gone
  /\ k = "etcd" => on["etcd cert"] = on["etcd key"]

On(k, disk) == [f \in FilesOf[k] |-> disk[f]]

-----------------------------------------------------------------------------
(* httpclient.py.  A lookup is described by what it returns and leaves.      *)

Kept(k) == [client |-> clients[k], pool |-> pool]
Refused == [client |-> NoClient, pool |-> pool]

\* Mutant: the client that is replaced is dropped.
ReplacedForgotten(k) == {}

\* The client that is replaced, if it is open.
Replaced(k) == {i \in {clients[k]} : Open(i)}

\* Mutant: the client that is replaced is closed at once.
BuiltClosing(k, stamp, disk) ==
  [client |-> NewId,
   pool |-> <<[clients EXCEPT ![k] = NewId],
              [stamps EXCEPT ![k] = stamp],
              retired,
              [i \in Ids |-> IF i = NewId
                             THEN [key |-> k, built |-> On(k, disk), state |-> "open"]
                             ELSE IF i \in Replaced(k) THEN [made[i] EXCEPT !.state = "closed"]
                             ELSE made[i]]>>]

Built(k, stamp, disk) ==
  [client |-> NewId,
   pool |-> <<[clients EXCEPT ![k] = NewId],
              [stamps EXCEPT ![k] = stamp],
              retired \cup Replaced(k),
              [made EXCEPT ![NewId] = [key |-> k, built |-> On(k, disk), state |-> "open"]]>>]

\* Mutant: the stamp is taken after the files are read.
CertClientStatLast(k, before, after) ==
  IF Open(clients[k]) /\ stamps[k] = On(k, after) THEN Kept(k)
  ELSE IF ~Loads(k, before) THEN Refused
  ELSE Built(k, On(k, after), before)

\* _cert_client: the files are before when they are stat'ed, after when read.
CertClient(k, before, after) ==
  IF \E f \in FilesOf[k] : before[f] = Gone THEN Refused
  ELSE IF Open(clients[k]) /\ stamps[k] = On(k, before) THEN Kept(k)
  ELSE IF ~Loads(k, after) THEN Refused
  ELSE Built(k, On(k, before), after)

\* _client, for the clients that verify nothing.
PlainClient(k) == IF Open(clients[k]) THEN Kept(k) ELSE Built(k, NoFiles, version)

-----------------------------------------------------------------------------
(* kubernetes.py.                                                            *)

\* Mutant: the fallback keeps the token.
FallbackWithToken(found, plain, token) ==
  IF found.client # NoClient THEN [lookup |-> found, token |-> token]
  ELSE [lookup |-> plain, token |-> token]

\* The verified client with the token, or the one that verifies nothing without.
Fallback(found, plain, token) ==
  IF found.client # NoClient THEN [lookup |-> found, token |-> token]
  ELSE [lookup |-> plain, token |-> FALSE]

\* The client each kind of request picks and whether it sends the token.
Pick(kind, token, after) ==
  LET cert(k) == CertClient(k, version, after)
      insecure == PlainClient("insecure")
  IN  CASE kind = "get" ->
             LET found == cert("kubernetes")
             IN  [lookup |-> IF token THEN found ELSE [found EXCEPT !.client = NoClient],
                  token |-> token]
        [] kind = "apiserver" -> Fallback(cert("local"), insecure, token)
        [] kind = "endpoint" ->
             Fallback(IF token THEN cert("kubernetes") ELSE Refused, insecure, token)
        [] kind = "etcd" -> [lookup |-> cert("etcd"), token |-> FALSE]
        [] kind = "component" -> [lookup |-> insecure, token |-> FALSE]

\* A coroutine has read the service account token, which may not be there, picks
\* its client and sends the request, or gives up.
Ask(r, kind) ==
  /\ call[r].pc = "idle" /\ shut # "done"
  /\ \E i \in Ids : made[i].state = "none"
  /\ \E token \in BOOLEAN, after \in Later :
       LET picked == Pick(kind, token, after)
           id == picked.lookup.client
       IN  /\ version' = after
           /\ clients' = picked.lookup.pool[1] /\ stamps' = picked.lookup.pool[2]
           /\ retired' = picked.lookup.pool[3] /\ made' = picked.lookup.pool[4]
           /\ call' = [call EXCEPT ![r] =
                         IF id = NoClient THEN Idle
                         ELSE [pc |-> "sending", token |-> picked.token, client |-> id]]
  /\ UNCHANGED <<shut, todo>>

\* An answer, an error or the timeout of the client.
Answered(r) ==
  /\ call[r].pc = "sending"
  /\ call' = [call EXCEPT ![r] = Idle]
  /\ UNCHANGED <<version, pool, shut, todo>>

-----------------------------------------------------------------------------
(* Shutdown: the lifespan of the application ends.  A computation whose       *)
(* request is gone may still run.                                            *)

BeginClose ==
  /\ shut = "no"
  /\ shut' = "closing"
  /\ todo' = ({clients[k] : k \in Keys} \ {NoClient}) \cup retired
  /\ UNCHANGED <<version, pool, call>>

CloseOne(i) ==
  /\ shut = "closing" /\ i \in todo
  /\ todo' = todo \ {i}
  /\ made' = [made EXCEPT ![i].state = "closed"]
  /\ UNCHANGED <<version, clients, stamps, retired, call, shut>>

CloseEnds ==
  /\ shut = "closing" /\ todo = {}
  /\ shut' = "done"
  /\ clients' = [k \in Keys |-> NoClient]
  /\ stamps' = [k \in Keys |-> NoFiles]
  /\ retired' = {}
  /\ UNCHANGED <<version, made, call, todo>>

Next ==
  \/ \E f \in Files : Rotate(f)
  \/ \E r \in Requests : \/ \E kind \in Kinds : Ask(r, kind)
                         \/ Answered(r)
  \/ BeginClose \/ \E i \in Ids : CloseOne(i)
  \/ CloseEnds

Spec == Init /\ [][Next]_vars

-----------------------------------------------------------------------------
\* "a rotated cert was never picked up": a request that goes out on a client built
\* from files uses contents at least as new as those on disk when it picked the
\* client, whatever is rotated meanwhile.
UsesCurrentFiles ==
  [][\A r \in Requests :
       call[r].pc = "idle" /\ call'[r].pc = "sending" =>
         LET client == made'[call'[r].client]
         IN  \A f \in DOMAIN client.built : client.built[f] >= version[f]]_vars

\* "Requests may still be in flight on them, so they are only closed at shutdown".
InFlightStaysOpen == \A i \in InUse : made[i].state = "closed" => shut # "no"

\* No open client is lost: until close_clients has emptied the tables, each is in one
\* of them, so that shutdown finds it.
NoneLost ==
  shut # "done" => \A i \in Ids : Open(i) => i \in retired \/ \E k \in Keys : clients[k] = i

\* "Never send the service account token through this client": the token only goes
\* to a peer checked against the cluster's CA, though CA and token come and go.
TokenOnlyVerified ==
  \A r \in Requests : call[r].pc = "sending" /\ call[r].token =>
    made[call[r].client].key \in Verified
=============================================================================
