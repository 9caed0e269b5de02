------------------------- MODULE HttpClientsProofs -------------------------
(***************************************************************************)
(* What the table of HTTP clients guarantees for any number of requests,   *)
(* clients and rotations: requests use the files on disk, keep their       *)
(* client, no open client is lost, the token goes to verified peers only.  *)
(***************************************************************************)
EXTENDS HttpClients, TLAPS

\* Contents or mtimes of some of the files.
Contents == UNION {[fs -> Nat] : fs \in SUBSET Files}
Client == [key : Keys, built : Contents, state : {"none", "open", "closed"}]
Call == [pc : {"idle", "sending"}, token : BOOLEAN, client : Ids \cup {NoClient}]

TypeOK ==
  /\ version \in [Files -> Nat]
  /\ clients \in [Keys -> Ids \cup {NoClient}]
  /\ stamps \in [Keys -> Contents]
  /\ retired \subseteq Ids
  /\ made \in [Ids -> Client]
  /\ call \in [Requests -> Call]
  /\ shut \in {"no", "closing", "done"}
  /\ todo \subseteq Ids

\* The client in the table is one of its key, built from its files, each at least
\* as new as its stamp says.
TableInv ==
  \A k \in Keys : clients[k] # NoClient =>
    LET client == made[clients[k]]
    IN  /\ client.key = k /\ client.state # "none"
        /\ DOMAIN client.built = FilesOf[k]
        /\ \A f \in FilesOf[k] : client.built[f] >= stamps[k][f]

\* A request that is sent has a client that was built, and an idle one has none.
CallInv ==
  \A r \in Requests :
    IF call[r].pc = "sending" THEN call[r].client \in Ids /\ made[call[r].client].state # "none"
    ELSE call[r] = Idle

\* Nothing is closed before shutdown.
ClosedLate == \A i \in Ids : made[i].state = "closed" => shut # "no"

Inv == TypeOK /\ TableInv /\ CallInv /\ ClosedLate /\ NoneLost /\ TokenOnlyVerified

-----------------------------------------------------------------------------
(* What a lookup does.                                                       *)

\* The client of the key is open and was built after the last change of its files.
Current(k) == Open(clients[k]) /\ \A f \in FilesOf[k] : stamps[k][f] = version[f]

\* A client of the key is built, stamped with the files at the lookup's beginning and
\* made from those at its end.
Builds(k, lookup, after) ==
  \E stamp \in Contents :
    /\ \A f \in FilesOf[k] : stamp[f] = version[f]
    /\ lookup = Built(k, stamp, after)

Found(k, lookup, after) ==
  \/ lookup = Refused
  \/ lookup = Kept(k) /\ Current(k)
  \/ Builds(k, lookup, after)

LEMMA KeyFiles ==
  /\ \A k \in Keys : FilesOf[k] \subseteq Files
  /\ FilesOf["insecure"] = {}
  BY DEF Keys, FilesOf, Files

LEMMA OnContents ==
  ASSUME NEW k \in Keys, NEW disk \in [Files -> Nat]
  PROVE  /\ On(k, disk) \in Contents
         /\ DOMAIN On(k, disk) = FilesOf[k]
         /\ \A f \in FilesOf[k] : On(k, disk)[f] = disk[f]
<1>1. On(k, disk) \in [FilesOf[k] -> Nat]
  BY KeyFiles DEF On
<1>2. QED
  BY <1>1, KeyFiles DEF Contents, On

LEMMA NoFilesContents == NoFiles \in Contents
<1>1. NoFiles \in [{} -> Nat]
  BY DEF NoFiles
<1>2. QED
  BY <1>1 DEF Contents

LEMMA LaterFiles ==
  ASSUME TypeOK, NEW after \in Later
  PROVE  after \in [Files -> Nat] /\ \A f \in Files : after[f] >= version[f]
  BY DEF TypeOK, Later

LEMMA CertClientFinds ==
  ASSUME TypeOK, NEW k \in Keys, NEW after
  PROVE  Found(k, CertClient(k, version, after), after)
<1>1. /\ On(k, version) \in Contents
      /\ \A f \in FilesOf[k] : On(k, version)[f] = version[f]
  BY OnContents DEF TypeOK
<1>2. QED
  BY <1>1 DEF CertClient, Found, Current, Builds

LEMMA PlainClientFinds ==
  ASSUME TypeOK
  PROVE  LET lookup == PlainClient("insecure")
         IN  \/ lookup = Kept("insecure") /\ Current("insecure")
             \/ Builds("insecure", lookup, version)
  BY KeyFiles, NoFilesContents DEF PlainClient, Current, Builds

-----------------------------------------------------------------------------
(* What a request does, whatever its kind.                                   *)

\* It gives up.
GivesUp(r) == UNCHANGED pool /\ call' = [call EXCEPT ![r] = Idle]

Sends(r, k, token, i) ==
  /\ token => k \in Verified
  /\ call' = [call EXCEPT ![r] = [pc |-> "sending", token |-> token, client |-> i]]

\* It is sent on the client in the table.
SendsKept(r, k) ==
  /\ UNCHANGED pool
  /\ Current(k)
  /\ \E token \in BOOLEAN : Sends(r, k, token, clients[k])

\* A client is built, and the request sent on it or given up.
SendsNew(r, k, disk) ==
  /\ clients' = [clients EXCEPT ![k] = NewId]
  /\ \E stamp \in Contents :
       /\ \A f \in FilesOf[k] : stamp[f] = version[f]
       /\ stamps' = [stamps EXCEPT ![k] = stamp]
  /\ retired' = retired \cup Replaced(k)
  /\ made' = [made EXCEPT ![NewId] = [key |-> k, built |-> On(k, disk), state |-> "open"]]
  /\ \/ call' = [call EXCEPT ![r] = Idle]
     \/ \E token \in BOOLEAN : Sends(r, k, token, NewId)

\* A lookup for the key and what the request does with it.
Uses(r, k, lookup, token, after) ==
  /\ Found(k, lookup, after)
  /\ token => k \in Verified
  /\ clients' = lookup.pool[1] /\ stamps' = lookup.pool[2]
  /\ retired' = lookup.pool[3] /\ made' = lookup.pool[4]
  /\ \/ call' = [call EXCEPT ![r] = Idle]
     \/ /\ lookup.client # NoClient
        /\ call' = [call EXCEPT ![r] = [pc |-> "sending", token |-> token,
                                        client |-> lookup.client]]

LEMMA UsesCases ==
  ASSUME NEW r \in Requests, NEW k \in Keys, NEW lookup, NEW token \in BOOLEAN, NEW after,
         Uses(r, k, lookup, token, after)
  PROVE  GivesUp(r) \/ SendsKept(r, k) \/ SendsNew(r, k, after)
<1>1. CASE lookup = Refused
  BY <1>1 DEF Uses, Refused, GivesUp, pool
<1>2. CASE lookup = Kept(k) /\ Current(k)
  <2>1. UNCHANGED pool /\ lookup.client = clients[k]
    BY <1>2 DEF Uses, Kept, pool
  <2>2. QED
    BY <1>2, <2>1 DEF Uses, GivesUp, SendsKept, Sends
<1>3. CASE Builds(k, lookup, after)
  <2>1. PICK stamp \in Contents : /\ \A f \in FilesOf[k] : stamp[f] = version[f]
                                  /\ lookup = Built(k, stamp, after)
    BY <1>3 DEF Builds
  <2>2. /\ lookup.client = NewId
        /\ clients' = [clients EXCEPT ![k] = NewId]
        /\ stamps' = [stamps EXCEPT ![k] = stamp]
        /\ retired' = retired \cup Replaced(k)
        /\ made' = [made EXCEPT ![NewId] = [key |-> k, built |-> On(k, after), state |-> "open"]]
    BY <2>1 DEF Uses, Built
  <2>3. QED
    BY <2>1, <2>2 DEF Uses, SendsNew, Sends
<1>4. QED
  BY <1>1, <1>2, <1>3 DEF Uses, Found

\* What the request picked comes from a lookup for some key: the table is left as the
\* lookup left it, and the client, if any, is the lookup's, with the token if the peer
\* is verified.
PickedFrom(k, lookup, picked) ==
  /\ picked.lookup.pool = lookup.pool
  /\ picked.lookup.client \in {lookup.client, NoClient}
  /\ picked.token \in BOOLEAN
  /\ picked.lookup.client # NoClient /\ picked.token => k \in Verified

\* The verified client, or else the one that verifies nothing.
LEMMA FallbackPicks ==
  ASSUME NEW k \in Verified, NEW found, NEW plain, NEW token \in BOOLEAN
  PROVE  \/ PickedFrom(k, found, Fallback(found, plain, token))
         \/ PickedFrom("insecure", plain, Fallback(found, plain, token))
  BY DEF PickedFrom, Fallback

LEMMA PickFinds ==
  ASSUME TypeOK, NEW kind \in Kinds, NEW token \in BOOLEAN, NEW after \in Later
  PROVE  \E k \in Keys, disk \in Later :
           \E lookup : Found(k, lookup, disk) /\ PickedFrom(k, lookup, Pick(kind, token, after))
<1>1. PICK gets, local, etcd, plain :
        /\ gets = CertClient("kubernetes", version, after)
        /\ local = CertClient("local", version, after)
        /\ etcd = CertClient("etcd", version, after)
        /\ plain = PlainClient("insecure")
  OBVIOUS
<1>2. /\ Found("kubernetes", gets, after) /\ Found("local", local, after)
      /\ Found("etcd", etcd, after) /\ Found("insecure", plain, version)
  BY <1>1, CertClientFinds, PlainClientFinds DEF Found, Keys
<1>3. version \in Later /\ Found("kubernetes", Refused, after)
  BY DEF Later, Found
<1>4. \/ \E lookup \in {gets, Refused} : PickedFrom("kubernetes", lookup, Pick(kind, token, after))
      \/ PickedFrom("local", local, Pick(kind, token, after))
      \/ PickedFrom("etcd", etcd, Pick(kind, token, after))
      \/ PickedFrom("insecure", plain, Pick(kind, token, after))
  <2>1. CASE kind = "get"
    <3>1. Pick(kind, token, after) =
            [lookup |-> IF token THEN gets ELSE [gets EXCEPT !.client = NoClient], token |-> token]
      BY <1>1, <2>1 DEF Pick
    <3>2. gets = [client |-> gets.client, pool |-> gets.pool]
      BY <1>2 DEF Found, Refused, Kept, Builds, Built
    <3>3. [gets EXCEPT !.client = NoClient] = [client |-> NoClient, pool |-> gets.pool]
      BY <3>2
    <3>4. QED
      BY <3>1, <3>2, <3>3 DEF PickedFrom, Verified
  <2>2. CASE kind = "apiserver"
    <3>1. Pick(kind, token, after) = Fallback(local, plain, token)
      BY <1>1, <2>2 DEF Pick
    <3>2. QED
      BY <3>1, FallbackPicks DEF Verified
  <2>3. CASE kind = "endpoint"
    <3>1. Pick(kind, token, after) = Fallback(IF token THEN gets ELSE Refused, plain, token)
      BY <1>1, <2>3 DEF Pick
    <3>2. QED
      BY <3>1, FallbackPicks DEF Verified
  <2>4. CASE kind = "etcd"
    <3>1. Pick(kind, token, after) = [lookup |-> etcd, token |-> FALSE]
      BY <1>1, <2>4 DEF Pick
    <3>2. QED
      BY <3>1 DEF PickedFrom
  <2>5. CASE kind = "component"
    <3>1. Pick(kind, token, after) = [lookup |-> plain, token |-> FALSE]
      BY <1>1, <2>5 DEF Pick
    <3>2. QED
      BY <3>1 DEF PickedFrom
  <2>6. QED
    BY <2>1, <2>2, <2>3, <2>4, <2>5 DEF Kinds
<1>5. QED
  BY <1>2, <1>3, <1>4 DEF Keys

LEMMA AskCases ==
  ASSUME TypeOK, NEW r \in Requests, NEW kind \in Kinds, Ask(r, kind)
  PROVE  /\ version' \in Later
         /\ \E k \in Keys, disk \in Later :
              GivesUp(r) \/ SendsKept(r, k) \/ SendsNew(r, k, disk)
<1>1. PICK token \in BOOLEAN, after \in Later :
        LET picked == Pick(kind, token, after)
            id == picked.lookup.client
        IN  /\ version' = after
            /\ clients' = picked.lookup.pool[1] /\ stamps' = picked.lookup.pool[2]
            /\ retired' = picked.lookup.pool[3] /\ made' = picked.lookup.pool[4]
            /\ call' = [call EXCEPT ![r] =
                          IF id = NoClient THEN Idle
                          ELSE [pc |-> "sending", token |-> picked.token, client |-> id]]
  BY DEF Ask
<1>2. PICK picked : picked = Pick(kind, token, after)
  OBVIOUS
<1>3. PICK k \in Keys, disk \in Later :
        \E lookup : Found(k, lookup, disk) /\ PickedFrom(k, lookup, picked)
  BY <1>2, PickFinds
<1>4. PICK lookup : Found(k, lookup, disk) /\ PickedFrom(k, lookup, picked)
  BY <1>3
<1>5. PICK sent \in BOOLEAN : sent = (picked.token /\ picked.lookup.client # NoClient)
  OBVIOUS
<1>6. Uses(r, k, lookup, sent, disk)
  BY <1>1, <1>2, <1>4, <1>5 DEF Uses, PickedFrom
<1>7. QED
  BY <1>1, <1>6, UsesCases

-----------------------------------------------------------------------------
(* The invariant.                                                            *)

LEMMA IdleCall == Idle \in Call /\ Idle.pc = "idle"
  BY DEF Idle, Call

LEMMA InitInv == Init => Inv
<1> SUFFICES ASSUME Init PROVE Inv
  OBVIOUS
<1>1. NoFiles \in Contents
  BY NoFilesContents
<1>2. NotMade \in Client
  BY <1>1 DEF NotMade, Client, Keys
<1>3. TypeOK
  <2>1. version \in [Files -> Nat]
    <3>1. version \in [Files -> {Gone, 1}]
      BY DEF Init
    <3>2. {Gone, 1} \subseteq Nat
      BY DEF Gone
    <3>3. QED
      BY <3>1, <3>2
  <2>2. call \in [Requests -> Call]
    BY IdleCall DEF Init
  <2>3. QED
    BY <1>1, <1>2, <2>1, <2>2 DEF Init, TypeOK
<1>4. TableInv /\ CallInv /\ ClosedLate /\ NoneLost /\ TokenOnlyVerified
  BY DEF Init, TableInv, CallInv, ClosedLate, NoneLost, TokenOnlyVerified, Open, NotMade, Idle
<1>5. QED
  BY <1>3, <1>4 DEF Inv

LEMMA NewIdFree ==
  ASSUME \E i \in Ids : made[i].state = "none"
  PROVE  NewId \in Ids /\ made[NewId].state = "none"
  BY DEF NewId

LEMMA GivesUpKeeps ==
  ASSUME Inv, NEW r \in Requests, GivesUp(r), version' \in [Files -> Nat], UNCHANGED <<shut, todo>>
  PROVE  Inv'
<1> USE DEF GivesUp, pool
<1>1. TypeOK'
  BY DEF Inv, TypeOK, Idle, Call, NoClient
<1>2. TableInv' /\ ClosedLate' /\ NoneLost'
  BY DEF Inv, TableInv, ClosedLate, NoneLost, Open
<1>3. CallInv' /\ TokenOnlyVerified'
  BY DEF Inv, TypeOK, CallInv, TokenOnlyVerified, Idle
<1>4. QED
  BY <1>1, <1>2, <1>3 DEF Inv

LEMMA SendsKeptKeeps ==
  ASSUME Inv, NEW r \in Requests, NEW k \in Keys, SendsKept(r, k),
         version' \in [Files -> Nat], UNCHANGED <<shut, todo>>
  PROVE  Inv'
<1> USE DEF SendsKept, Sends, pool
<1>1. PICK token \in BOOLEAN : Sends(r, k, token, clients[k])
  OBVIOUS
<1>2. clients[k] \in Ids /\ made[clients[k]].key = k /\ made[clients[k]].state # "none"
  BY DEF Inv, TypeOK, TableInv, Current, Open
<1>3. TypeOK'
  BY <1>1, <1>2 DEF Inv, TypeOK, Call
<1>4. TableInv' /\ ClosedLate' /\ NoneLost'
  BY DEF Inv, TableInv, ClosedLate, NoneLost, Open
<1>5. CallInv' /\ TokenOnlyVerified'
  BY <1>1, <1>2 DEF Inv, TypeOK, CallInv, TokenOnlyVerified
<1>6. QED
  BY <1>3, <1>4, <1>5 DEF Inv

LEMMA SendsNewKeeps ==
  ASSUME Inv, NEW r \in Requests, NEW k \in Keys, NEW disk \in Later, SendsNew(r, k, disk),
         \E i \in Ids : made[i].state = "none",
         version' \in [Files -> Nat], UNCHANGED <<shut, todo>>, shut # "done"
  PROVE  Inv'
<1>1. NewId \in Ids /\ made[NewId].state = "none"
  BY NewIdFree
<1>2. PICK n : n = NewId
  OBVIOUS
<1>3. n \in Ids /\ made[n].state = "none" /\ n # NoClient
  BY <1>1, <1>2, ClientsAssumption DEF Ids, NoClient
<1>4. PICK built \in Contents :
        /\ built = On(k, disk) /\ DOMAIN built = FilesOf[k]
        /\ \A f \in FilesOf[k] : built[f] >= version[f]
  BY OnContents, LaterFiles, KeyFiles DEF Inv
<1>5. PICK stamp \in Contents : /\ \A f \in FilesOf[k] : stamp[f] = version[f]
                                /\ stamps' = [stamps EXCEPT ![k] = stamp]
  BY DEF SendsNew
<1>6. /\ clients' = [clients EXCEPT ![k] = n]
      /\ retired' = retired \cup Replaced(k)
      /\ made' = [made EXCEPT ![n] = [key |-> k, built |-> built, state |-> "open"]]
  BY <1>2, <1>4 DEF SendsNew
<1>7. \/ call' = [call EXCEPT ![r] = Idle]
      \/ \E token \in BOOLEAN : Sends(r, k, token, n)
  BY <1>2 DEF SendsNew
<1>8. TypeOK'
  <2>1. [key |-> k, built |-> built, state |-> "open"] \in Client
    BY DEF Client
  <2>2. made' \in [Ids -> Client] /\ clients' \in [Keys -> Ids \cup {NoClient}]
        /\ stamps' \in [Keys -> Contents]
    BY <1>3, <1>5, <1>6, <2>1 DEF Inv, TypeOK
  <2>3. retired' \subseteq Ids
    BY <1>6 DEF Inv, TypeOK, Replaced, Open, NoClient
  <2>4. call' \in [Requests -> Call]
    <3>1. CASE call' = [call EXCEPT ![r] = Idle]
      BY <3>1, IdleCall DEF Inv, TypeOK
    <3>2. ASSUME NEW token \in BOOLEAN, Sends(r, k, token, n) PROVE call' \in [Requests -> Call]
      <4>1. [pc |-> "sending", token |-> token, client |-> n] \in Call
        BY <1>3 DEF Call
      <4>2. QED
        BY <3>2, <4>1 DEF Inv, TypeOK, Sends
    <3>3. QED
      BY <1>7, <3>1, <3>2
  <2>5. QED
    BY <2>2, <2>3, <2>4 DEF Inv, TypeOK
<1>9. TableInv'
  BY <1>3, <1>4, <1>5, <1>6 DEF Inv, TypeOK, TableInv
<1>10. CallInv' /\ TokenOnlyVerified'
  <2>1. CASE call' = [call EXCEPT ![r] = Idle]
    BY <1>3, <1>6, <2>1, IdleCall DEF Inv, TypeOK, CallInv, TokenOnlyVerified
  <2>2. ASSUME NEW token \in BOOLEAN, Sends(r, k, token, n) PROVE CallInv' /\ TokenOnlyVerified'
    <3>1. made'[n].key = k /\ made'[n].state = "open"
      BY <1>3, <1>6 DEF Inv, TypeOK
    <3>2. \A q \in Requests \ {r} : call'[q] = call[q]
      BY <2>2 DEF Sends, Inv, TypeOK
    <3>3. \A i \in Ids \ {n} : made'[i] = made[i]
      BY <1>6 DEF Inv, TypeOK
    <3>4. /\ call'[r].pc = "sending" /\ call'[r].client = n
          /\ call'[r].token => k \in Verified
      BY <2>2 DEF Sends, Inv, TypeOK
    <3>5. \A q \in Requests \ {r} : call[q].pc = "sending" => call[q].client \in Ids \ {n}
      BY <1>3 DEF Inv, CallInv
    <3>6. QED
      BY <1>3, <3>1, <3>2, <3>3, <3>4, <3>5 DEF Inv, CallInv, TokenOnlyVerified
  <2>3. QED
    BY <1>7, <2>1, <2>2
<1>11. ClosedLate'
  BY <1>3, <1>6 DEF Inv, TypeOK, ClosedLate
<1>12. NoneLost'
  BY <1>3, <1>6 DEF Inv, TypeOK, NoneLost, Open, Replaced
<1>13. QED
  BY <1>8, <1>9, <1>10, <1>11, <1>12 DEF Inv

LEMMA AskKeeps ==
  ASSUME Inv, NEW r \in Requests, NEW kind \in Kinds, Ask(r, kind) PROVE Inv'
<1>1. /\ UNCHANGED <<shut, todo>> /\ shut # "done"
      /\ \E i \in Ids : made[i].state = "none"
  BY DEF Ask
<1>2. version' \in [Files -> Nat]
  BY AskCases, LaterFiles DEF Inv
<1>3. PICK k \in Keys, disk \in Later : GivesUp(r) \/ SendsKept(r, k) \/ SendsNew(r, k, disk)
  BY AskCases DEF Inv
<1>4. QED
  BY <1>1, <1>2, <1>3, GivesUpKeeps, SendsKeptKeeps, SendsNewKeeps

LEMMA RotateKeeps == ASSUME Inv, NEW f \in Files, Rotate(f) PROVE Inv'
<1> USE DEF Rotate, pool
<1>1. TypeOK'
  BY DEF Inv, TypeOK
<1>2. QED
  BY <1>1 DEF Inv, TableInv, CallInv, ClosedLate, NoneLost, TokenOnlyVerified, Open

LEMMA AnsweredKeeps == ASSUME Inv, NEW r \in Requests, Answered(r) PROVE Inv'
  BY GivesUpKeeps DEF Answered, GivesUp, Inv, TypeOK

LEMMA BeginCloseKeeps == ASSUME Inv, BeginClose PROVE Inv'
<1> USE DEF BeginClose, pool
<1>1. TypeOK'
  BY DEF Inv, TypeOK
<1>2. QED
  BY <1>1 DEF Inv, TableInv, CallInv, ClosedLate, NoneLost, TokenOnlyVerified, Open

\* Closing changes nothing of a client but its state.
LEMMA CloseOneKeeps == ASSUME Inv, NEW i \in Ids, CloseOne(i) PROVE Inv'
<1> USE DEF CloseOne
<1>1. PICK client \in Client :
        /\ client = [made[i] EXCEPT !.state = "closed"]
        /\ client.key = made[i].key /\ client.built = made[i].built /\ client.state = "closed"
  BY DEF Inv, TypeOK, Client
<1>2. made' = [made EXCEPT ![i] = client]
  BY <1>1
<1>3. TypeOK'
  BY <1>2 DEF Inv, TypeOK
<1>4. TableInv'
  BY <1>1, <1>2 DEF Inv, TypeOK, TableInv
<1>5. CallInv' /\ TokenOnlyVerified'
  BY <1>1, <1>2 DEF Inv, TypeOK, CallInv, TokenOnlyVerified
<1>6. ClosedLate' /\ NoneLost'
  BY <1>1, <1>2 DEF Inv, TypeOK, ClosedLate, NoneLost, Open
<1>7. QED
  BY <1>3, <1>4, <1>5, <1>6 DEF Inv

LEMMA CloseEndsKeeps == ASSUME Inv, CloseEnds PROVE Inv'
<1> USE DEF CloseEnds
<1>1. TypeOK'
  BY NoFilesContents DEF Inv, TypeOK
<1>2. QED
  BY <1>1 DEF Inv, TableInv, CallInv, ClosedLate, NoneLost, TokenOnlyVerified

LEMMA StutterKeeps == ASSUME Inv, UNCHANGED vars PROVE Inv'
  BY DEF vars, pool, Inv, TypeOK, TableInv, CallInv, ClosedLate, NoneLost, TokenOnlyVerified, Open

THEOREM Invariant == Spec => []Inv
<1>1. Inv /\ [Next]_vars => Inv'
  BY RotateKeeps, AskKeeps, AnsweredKeeps, BeginCloseKeeps, CloseOneKeeps, CloseEndsKeeps,
     StutterKeeps DEF Next
<1>2. QED
  BY InitInv, <1>1, PTL DEF Spec

-----------------------------------------------------------------------------
(* What it gives.                                                            *)

\* The tables of httpclient.py and the requests of kubernetes.py stay well typed.
THEOREM ClientsTypeCorrect == Spec => []TypeOK
  BY Invariant, PTL DEF Inv

\* The service account token goes to peers checked against the cluster's CA only,
\* whatever files are missing or rotated while kubernetes.py picks its client.
THEOREM TokenStaysHome == Spec => []TokenOnlyVerified
  BY Invariant, PTL DEF Inv

\* Until close_clients has emptied the tables of httpclient.py, no open client is
\* outside them.
THEOREM NoClientLost == Spec => []NoneLost
  BY Invariant, PTL DEF Inv

\* No request loses its client before shutdown: _cert_client retires what it replaces.
THEOREM StaysOpen == Spec => []InFlightStaysOpen
<1>1. Inv => InFlightStaysOpen
  BY DEF Inv, TypeOK, ClosedLate, InFlightStaysOpen, InUse, Call
<1>2. QED
  BY Invariant, <1>1, PTL

\* A request goes out on a client made from files at least as new as those on disk
\* when _cert_client was asked for it.
THEOREM FilesAreCurrent == Spec => UsesCurrentFiles
<1> DEFINE Fresh(r) ==
      call[r].pc = "idle" /\ call'[r].pc = "sending" =>
        LET client == made'[call'[r].client]
        IN  \A f \in DOMAIN client.built : client.built[f] >= version[f]
<1>1. ASSUME Inv, NEW r \in Requests, NEW q \in Requests, NEW kind \in Kinds, Ask(q, kind)
      PROVE  Fresh(r)
  <2> SUFFICES ASSUME call[r].pc = "idle", call'[r].pc = "sending"
               PROVE  \A f \in DOMAIN made'[call'[r].client].built :
                        made'[call'[r].client].built[f] >= version[f]
    OBVIOUS
  <2>1. PICK k \in Keys, disk \in Later : GivesUp(q) \/ SendsKept(q, k) \/ SendsNew(q, k, disk)
    BY <1>1, AskCases DEF Inv
  <2>2. ~GivesUp(q)
    BY <1>1, IdleCall DEF GivesUp, Inv, TypeOK
  <2>3. CASE SendsKept(q, k)
    <3>1. r = q /\ call'[r].client = clients[k] /\ made' = made
      BY <1>1, <2>3 DEF SendsKept, Sends, pool, Inv, TypeOK
    <3>2. /\ DOMAIN made[clients[k]].built = FilesOf[k]
          /\ \A f \in FilesOf[k] : made[clients[k]].built[f] >= version[f]
      BY <1>1, <2>3 DEF SendsKept, Current, Open, Inv, TableInv
    <3>3. QED
      BY <3>1, <3>2
  <2>4. CASE SendsNew(q, k, disk)
    <3>1. NewId \in Ids
      BY <1>1, NewIdFree DEF Ask
    <3>2. r = q /\ call'[r].client = NewId
      BY <1>1, <2>4 DEF SendsNew, Sends, Inv, TypeOK, Idle
    <3>3. made'[NewId].built = On(k, disk)
      BY <1>1, <2>4, <3>1 DEF SendsNew, Inv, TypeOK
    <3>4. /\ DOMAIN On(k, disk) = FilesOf[k]
          /\ \A f \in FilesOf[k] : On(k, disk)[f] >= version[f]
      BY <1>1, OnContents, LaterFiles, KeyFiles DEF Inv
    <3>5. QED
      BY <3>2, <3>3, <3>4
  <2>5. QED
    BY <2>1, <2>2, <2>3, <2>4
<1>2. ASSUME Inv, [Next]_vars, NEW r \in Requests
      PROVE  Fresh(r)
  <2>1. CASE \E q \in Requests, kind \in Kinds : Ask(q, kind)
    BY <1>1, <1>2, <2>1
  <2>2. CASE \E q \in Requests : Answered(q)
    BY <1>2, <2>2 DEF Answered, Idle, Inv, TypeOK
  <2>3. CASE call' = call
    BY <1>2, <2>3
  <2>4. QED
    BY <1>2, <2>1, <2>2, <2>3 DEF Next, Rotate, BeginClose, CloseOne, CloseEnds, vars
<1>3. Inv /\ [Next]_vars =>
        [\A r \in Requests :
           call[r].pc = "idle" /\ call'[r].pc = "sending" =>
             LET client == made'[call'[r].client]
             IN  \A f \in DOMAIN client.built : client.built[f] >= version[f]]_vars
  BY <1>2
<1>4. QED
  BY Invariant, <1>3, PTL DEF Spec, UsesCurrentFiles
=============================================================================
