------------------------------ MODULE NetConnect ------------------------------
(***************************************************************************)
(* One outgoing connection request (net/connect.lua) over a service        *)
(* resolver (net/resolvers/service.lua) that gives every SRV record a      *)
(* basic resolver (net/resolvers/basic.lua).  Several attempts may be      *)
(* under way at once: the next target is tried when an attempt fails, and  *)
(* also when a quarter of a second has passed.                             *)
(*                                                                         *)
(* target_resolver:next(cb) either calls cb at once or starts a lookup     *)
(* whose answer does.  asking is set while such a call is to be made; the  *)
(* event loop turns only when it is not.                                   *)
(***************************************************************************)
EXTENDS Integers, Sequences

CONSTANT Addresses    \* Addresses[i]: how many addresses the i-th SRV record has

ASSUME AddressesAssumption == Addresses \in Seq(Nat \ {0}) /\ Addresses # <<>>

Record == DOMAIN Addresses

VARIABLES
  asking,     \* attempt_connection is about to ask the resolver
  phase,      \* the SRV lookup: "new", "lookup" or "answered"
  records,    \* the records _get_next_target has left
  resolver,   \* self.resolver: the record in use, 0 for nil
  left,       \* left[i]: addresses in the targets of record i, -1 for nil
  lookups,    \* lookups[i]: address lookups under way for record i
  timers,     \* parallel-attempt timers running
  attempts,   \* connection attempts made so far
  conns,      \* p.conns
  map,        \* pending_connections_map: the attempts without an outcome
  winner,     \* the attempt that was handed to the caller, 0 for none
  fails       \* calls of onfail

resolverVars == <<phase, records, resolver, left, lookups>>
requestVars == <<timers, attempts, conns, map, winner, fails>>
connectVars == <<asking, resolverVars, requestVars>>

connected == winner # 0

ConnectInit ==
  /\ asking = TRUE
  /\ phase = "new"
  /\ records = {} /\ resolver = 0
  /\ left = [i \in Record |-> -1]
  /\ lookups = [i \in Record |-> 0]
  /\ timers = 0 /\ attempts = 0
  /\ conns = {} /\ map = {}
  /\ winner = 0 /\ fails = 0
-----------------------------------------------------------------------------
(* attempt_connection's callback. *)

(* Mutant: leaves it to somebody else to report failure. *)
no_target_silent == asking' = FALSE /\ UNCHANGED requestVars

no_target ==
  /\ asking' = FALSE
  /\ fails' = IF conns = {} THEN fails + 1 ELSE fails
  /\ UNCHANGED <<timers, attempts, conns, map, winner>>

(* addclient fails at once and the next target is asked for, or an attempt *)
(* is under way.                                                           *)
target(more) ==
  \/ asking' = TRUE /\ UNCHANGED requestVars
  \/ /\ asking' = FALSE
     /\ attempts' = attempts + 1
     /\ conns' = conns \union {attempts + 1}
     /\ map' = map \union {attempts + 1}
     /\ timers' = IF more THEN timers + 1 ELSE timers
     /\ UNCHANGED <<winner, fails>>

(* next() of the service resolver: a name that is no host name has no      *)
(* targets, otherwise the SRV records are looked up, ...                   *)
bad_hostname ==
  /\ asking /\ phase = "new"
  /\ no_target
  /\ UNCHANGED resolverVars

lookup_records ==
  /\ asking /\ phase = "new"
  /\ phase' = "lookup" /\ asking' = FALSE
  /\ UNCHANGED <<records, resolver, left, lookups, requestVars>>

(* ... the next of them gets a basic resolver, ... *)
next_record ==
  /\ asking /\ phase # "new" /\ resolver = 0 /\ records # {}
  /\ \E i \in records : resolver' = i /\ records' = records \ {i}
  /\ UNCHANGED <<asking, phase, left, lookups, requestVars>>

(* ... or there is none left. *)
no_more_records ==
  /\ asking /\ phase # "new" /\ resolver = 0 /\ records = {}
  /\ no_target
  /\ UNCHANGED resolverVars

(* next() of the basic resolver in use. *)
lookup_addresses ==
  /\ asking /\ resolver # 0 /\ left[resolver] = -1
  /\ lookups' = [lookups EXCEPT ![resolver] = @ + 1] /\ asking' = FALSE
  /\ UNCHANGED <<phase, records, resolver, left, requestVars>>

no_more_addresses ==
  /\ asking /\ resolver # 0 /\ left[resolver] = 0
  /\ resolver' = 0
  /\ UNCHANGED <<asking, phase, records, left, lookups, requestVars>>

next_address ==
  /\ asking /\ resolver # 0 /\ left[resolver] > 0
  /\ left' = [left EXCEPT ![resolver] = @ - 1]
  /\ target(left[resolver] > 1)
  /\ UNCHANGED <<phase, records, resolver, lookups>>
-----------------------------------------------------------------------------
(* Events. *)

(* The SRV answer: records, none (then the domain itself is used if there  *)
(* is a default port), or an error.                                        *)
records_answer ==
  /\ ~asking /\ phase = "lookup"
  /\ phase' = "answered" /\ asking' = TRUE
  /\ \/ records' = Record /\ UNCHANGED resolver
     \/ resolver' = 1 /\ UNCHANGED records
     \/ UNCHANGED <<records, resolver>>
  /\ UNCHANGED <<left, lookups, requestVars>>

(* The addresses of record i replace the targets, and the first is handed  *)
(* out at once.  Without any, the service resolver drops the basic         *)
(* resolver it is using, which may be another one by now.                  *)
addresses_answer(i) ==
  /\ ~asking /\ lookups[i] > 0
  /\ lookups' = [lookups EXCEPT ![i] = @ - 1]
  /\ \/ /\ left' = [left EXCEPT ![i] = Addresses[i] - 1]
        /\ target(Addresses[i] > 1)
        /\ UNCHANGED resolver
     \/ /\ left' = [left EXCEPT ![i] = 0]
        /\ resolver' = 0 /\ asking' = TRUE
        /\ UNCHANGED requestVars
  /\ UNCHANGED <<phase, records>>

parallel_timer ==
  /\ ~asking /\ timers > 0
  /\ timers' = timers - 1
  /\ asking' = ~connected
  /\ UNCHANGED <<resolverVars, attempts, conns, map, winner, fails>>

(* Mutant: the connection handed over leaves p.conns too. *)
onconnect_drop(c) ==
  /\ ~asking /\ c \in map
  /\ map' = map \ {c}
  /\ conns' = conns \ {c}
  /\ winner' = IF connected THEN winner ELSE c
  /\ UNCHANGED <<asking, resolverVars, timers, attempts, fails>>

(* Mutant: hands over every connection. *)
onconnect_all(c) ==
  /\ ~asking /\ c \in map
  /\ map' = map \ {c}
  /\ winner' = c
  /\ UNCHANGED <<conns, asking, resolverVars, timers, attempts, fails>>

(* The first attempt that succeeds is handed to the caller, later ones are *)
(* closed.                                                                 *)
onconnect(c) ==
  /\ ~asking /\ c \in map
  /\ map' = map \ {c}
  /\ conns' = IF connected THEN conns \ {c} ELSE conns
  /\ winner' = IF connected THEN winner ELSE c
  /\ UNCHANGED <<asking, resolverVars, timers, attempts, fails>>

(* When the last attempt has failed the next target is asked for. *)
ondisconnect(c) ==
  /\ ~asking /\ c \in map
  /\ map' = map \ {c}
  /\ conns' = conns \ {c}
  /\ asking' = (~connected /\ conns' = {})
  /\ UNCHANGED <<resolverVars, timers, attempts, winner, fails>>

ConnectNext ==
  \/ bad_hostname \/ lookup_records \/ next_record \/ no_more_records
  \/ lookup_addresses \/ no_more_addresses \/ next_address
  \/ records_answer \/ parallel_timer
  \/ \E i \in Record : addresses_answer(i)
  \/ \E c \in map : onconnect(c) \/ ondisconnect(c)

ConnectSpec == ConnectInit /\ [][ConnectNext]_connectVars
-----------------------------------------------------------------------------
(* Types: an address lookup that is answered twice never leaves more       *)
(* targets than the record has.                                            *)
ConnectTypeOK ==
  /\ asking \in BOOLEAN
  /\ phase \in {"new", "lookup", "answered"}
  /\ records \subseteq Record /\ resolver \in Record \union {0}
  /\ left \in [Record -> Int] /\ \A i \in Record : left[i] \in -1..(Addresses[i] - 1)
  /\ lookups \in [Record -> Nat]
  /\ timers \in Nat /\ attempts \in Nat /\ fails \in Nat
  /\ conns \subseteq 1..attempts /\ map \subseteq 1..attempts /\ winner \in 0..attempts

(* p.conns is what p still answers for: the attempts without an outcome    *)
(* and the connection handed over.  Whatever succeeds after that is closed *)
(* and forgotten, and what failed is forgotten.                            *)
NoLeak ==
  /\ conns = map \union ({winner} \ {0})
  /\ winner \notin map

(* Once a connection has been handed over, failure is never reported,      *)
(* although lookups and attempts that were under way go on.                *)
NoFailAfterSuccess == [][connected => fails' = fails /\ winner' = winner]_connectVars

(* When no lookup and no attempt is under way any more the caller has been *)
(* told of its connection or of failure; a timer that still runs is not    *)
(* what it waits for.                                                      *)
CallerIsTold ==
  (~asking /\ phase # "lookup" /\ map = {} /\ \A i \in Record : lookups[i] = 0)
    => connected \/ fails > 0

(* Failure is final (attempt_connection: "No more targets, no pending      *)
(* connections. Connection failed.").                                      *)
FailureIsFinal == fails > 0 => map = {} /\ ~connected
=============================================================================
