----------------------------- MODULE HttpClient -----------------------------
(***************************************************************************)
(* DrogonHttpClient: blocking requests of the worker threads over a fixed  *)
(* number of persistent connections per host, taken in turn by one counter *)
(* that all hosts share.                                                   *)
(*                                                                         *)
(* A connection serves its requests one after the other (drogon without    *)
(* pipelining).  A request whose caller has given up stays in the line:    *)
(* its answer is discarded.  Answers and time-outs are events of the       *)
(* client's own loop; the caller goes on when it is given one.             *)
(***************************************************************************)
EXTENDS Integers, Sequences

CONSTANTS
  Callers,      \* the threads that make requests
  Hosts,
  PoolSize,     \* kPoolSize
  CounterSize,  \* values of std::size_t
  GivenUp,      \* a request in line whose caller has given up
  MaxRequests   \* bound: requests made

VARIABLES
  pools,       \* _pools: the hosts that have connections
  roundRobin,  \* _roundRobin
  stage,       \* where each caller is in makeRequest
  client,      \* the connection each caller has leased
  line,        \* requests on each connection, the one being served first
  leases,      \* history: leases of each connection
  requests     \* requests made so far

vars == <<pools, roundRobin, stage, client, line, leases, requests>>

Connections == Hosts \X (0..PoolSize - 1)

(* Seeded slip: the last connection of a pool is never used. *)
TurnSkippingLast(counter) == counter % (PoolSize - 1)

Turn(counter) == counter % PoolSize

-----------------------------------------------------------------------------
(* leaseClient, all of it under _poolsMutex: the first request to a host   *)
(* opens its pool; fetch_add wraps.                                        *)
LeaseClient(w, h) ==
  LET c == <<h, Turn(roundRobin)>>
  IN  /\ stage[w] = "idle"
      /\ requests < MaxRequests
      /\ requests' = requests + 1
      /\ pools' = pools \cup {h}
      /\ roundRobin' = (roundRobin + 1) % CounterSize
      /\ client' = [client EXCEPT ![w] = c]
      /\ leases' = [leases EXCEPT ![c] = @ + 1]
      /\ stage' = [stage EXCEPT ![w] = "leased"]
      /\ UNCHANGED line

(* client->sendRequest(request, timeout): the caller blocks. *)
SendRequest(w) ==
  /\ stage[w] = "leased"
  /\ stage' = [stage EXCEPT ![w] = "sent"]
  /\ line' = [line EXCEPT ![client[w]] = Append(@, w)]
  /\ UNCHANGED <<pools, roundRobin, client, leases, requests>>

(* The host answers the request at the front. *)
Respond(c) ==
  /\ line[c] # <<>>
  /\ line' = [line EXCEPT ![c] = Tail(@)]
  /\ stage' = [w \in Callers |->
                 IF w = Head(line[c]) THEN "answered" ELSE stage[w]]
  /\ UNCHANGED <<pools, roundRobin, client, leases, requests>>

(* Seeded slip: the time a request spends waiting for others to be served  *)
(* does not count.                                                         *)
TimeOutServed(w) ==
  /\ stage[w] = "sent"
  /\ Head(line[client[w]]) = w
  /\ stage' = [stage EXCEPT ![w] = "failed"]
  /\ line' = [line EXCEPT ![client[w]] = <<GivenUp>> \o Tail(@)]
  /\ UNCHANGED <<pools, roundRobin, client, leases, requests>>

(* Seeded slip: the request of a caller that has given up is still taken   *)
(* for one of that caller.                                                 *)
TimeOutKeepingPlace(w) ==
  /\ stage[w] = "sent"
  /\ stage' = [stage EXCEPT ![w] = "failed"]
  /\ UNCHANGED <<pools, roundRobin, client, line, leases, requests>>

(* The timeout of the caller passes. *)
TimeOut(w) ==
  /\ stage[w] = "sent"
  /\ stage' = [stage EXCEPT ![w] = "failed"]
  /\ line' = [line EXCEPT ![client[w]] =
                [i \in DOMAIN @ |-> IF @[i] = w THEN GivenUp ELSE @[i]]]
  /\ UNCHANGED <<pools, roundRobin, client, leases, requests>>

(* The connection breaks, for every caller that waits on it. *)
Break(c) ==
  /\ line[c] # <<>>
  /\ line' = [line EXCEPT ![c] = <<>>]
  /\ stage' = [w \in Callers |->
                 IF \E i \in DOMAIN line[c] : line[c][i] = w
                   THEN "failed" ELSE stage[w]]
  /\ UNCHANGED <<pools, roundRobin, client, leases, requests>>

(* makeRequest returns the body, or throws TgException. *)
Return(w) ==
  /\ stage[w] \in {"answered", "failed"}
  /\ stage' = [stage EXCEPT ![w] = "idle"]
  /\ UNCHANGED <<pools, roundRobin, client, line, leases, requests>>

-----------------------------------------------------------------------------
Init ==
  /\ pools = {}
  /\ roundRobin = 0
  /\ stage = [w \in Callers |-> "idle"]
  /\ client = [w \in Callers |-> CHOOSE c \in Connections : TRUE]
  /\ line = [c \in Connections |-> <<>>]
  /\ leases = [c \in Connections |-> 0]
  /\ requests = 0

Next ==
  \/ \E w \in Callers :
       \/ \E h \in Hosts : LeaseClient(w, h)
       \/ SendRequest(w) \/ TimeOut(w) \/ Return(w)
  \/ \E c \in Connections : Respond(c) \/ Break(c)

Spec == Init /\ [][Next]_vars

-----------------------------------------------------------------------------
(* The places in the lines that hold a request of caller w. *)
Places(w) ==
  {p \in UNION {{c} \X DOMAIN line[c] : c \in Connections} :
     line[p[1]][p[2]] = w}

(* Types; and a caller that waits has one request, on the connection that  *)
(* it leased, so that a late answer to an earlier one is not taken for its *)
(* own.                                                                    *)
HttpTypeOK ==
  /\ pools \subseteq Hosts
  /\ roundRobin \in 0..CounterSize - 1
  /\ stage \in [Callers -> {"idle", "leased", "sent", "answered", "failed"}]
  /\ client \in [Callers -> Connections]
  /\ line \in [Connections -> Seq(Callers \cup {GivenUp})]
  /\ leases \in [Connections -> 0..MaxRequests]
  /\ requests \in 0..MaxRequests
  /\ \A c \in Connections : leases[c] > 0 => c[1] \in pools
  /\ \A w \in Callers :
       IF stage[w] = "sent"
         THEN \E i \in DOMAIN line[client[w]] : Places(w) = {<<client[w], i>>}
         ELSE Places(w) = {}

(* Requests to the host are spread over its connections evenly, whichever  *)
(* threads make them and also after the counter has wrapped.  This is of a *)
(* client with one host, as the bot's is: several share the counter.       *)
LeasesAreBalanced ==
  \A c, d \in Connections : c[1] = d[1] => leases[c] <= leases[d] + 1

=============================================================================
