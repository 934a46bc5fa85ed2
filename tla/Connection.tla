------------------------------ MODULE Connection ------------------------------
(***************************************************************************)
(* NodeClient::new (src/client/mod.rs): the list of endpoints, and the     *)
(* attempt to connect to one of them after the other.  A node may answer   *)
(* one attempt and not the next.  Program goes on from there.              *)
(***************************************************************************)
EXTENDS Naturals, Sequences

CONSTANTS
    Url,           \* every URL that may be tried
    Reachable,     \* those a node may answer at; the others are malformed
    Rpcx, Rpc,     \* "wss://rpcx.selendra.org" and "wss://rpc.selendra.org"
    Names          \* Names[u]: which of the two host names u contains

ASSUME UrlAssumption ==
    /\ Reachable \subseteq Url
    /\ Rpcx \in Url /\ Rpc \in Url /\ Rpcx # Rpc
    /\ Names \in [Url -> SUBSET {Rpcx, Rpc}]
    /\ Names[Rpcx] = {Rpcx} /\ Names[Rpc] = {Rpc}

VARIABLES
    given,         \* the list: --node-url split at its commas, --backup-url
    pc,            \* where main() is
    at,            \* the endpoint that is tried, or that is connected to
    silent,        \* history: the endpoints that did not answer when tried
    link           \* the client's connection: none, open or lost

connVars == <<at, silent, link>>

(* A standard endpoint serves as a backup unless the primary names it.     *)
Unless(named, standard) == IF standard \in named THEN <<>> ELSE <<standard>>

(* MUTANT: only the first of the two is added.                             *)
FirstDefault(primary) == Unless(Names[primary], Rpcx)

(* The endpoints used when no backup is given.                             *)
DefaultBackups(primary) ==
    Unless(Names[primary], Rpcx) \o Unless(Names[primary], Rpc)

Backups(urls) == IF Len(urls) > 1 THEN Tail(urls) ELSE DefaultBackups(Head(urls))

Endpoints == <<Head(given)>> \o Backups(given)

ConnInit ==
    /\ at = 1
    /\ silent = {}
    /\ link = "none"

Opened ==
    /\ Endpoints[at] \in Reachable
    /\ link' = "open"
    /\ UNCHANGED <<at, silent>>

(* MUTANT: an endpoint that does not answer is tried again.                *)
PassedAgain ==
    /\ silent' = silent \cup {Endpoints[at]}
    /\ UNCHANGED <<at, link>>

(* MUTANT: when the primary fails the first backup is passed over.         *)
PassedTwo ==
    /\ silent' = silent \cup {Endpoints[at]}
    /\ at' = IF at = 1 /\ Len(Endpoints) > 2 THEN 3 ELSE at + 1
    /\ UNCHANGED link

Passed ==
    /\ silent' = silent \cup {Endpoints[at]}
    /\ at' = at + 1
    /\ UNCHANGED link

(* One endpoint is tried: its node answers and the connection is opened,   *)
(* or it does not and the next endpoint is due.                            *)
TryEndpoint ==
    /\ pc = "connect"
    /\ at <= Len(Endpoints)
    /\ Opened \/ Passed

(* Every endpoint has been tried in vain.                                  *)
NoneLeft == pc = "connect" /\ at > Len(Endpoints)

(* The connection is lost.  Nothing in the program opens another one.      *)
LoseLink ==
    /\ pc # "ended"
    /\ link = "open"
    /\ link' = "lost"
    /\ UNCHANGED <<at, silent>>
=============================================================================
