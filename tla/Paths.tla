------------------------------- MODULE Paths -------------------------------
(***************************************************************************)
(* The network paths of a connection (quiche/src/path.rs).  A path map is  *)
(* a function from path identifiers to path records; `addrs` stands for    *)
(* the pair of addresses a path connects.  Challenges in flight are        *)
(* counted.  Sizes are choices: whether the largest answered challenge had *)
(* MIN_CLIENT_INITIAL_LEN bytes, and whether a server may still send to an *)
(* address it has not verified.  The events for the application, and the   *)
(* challenges of the peer, which are only echoed, are left out.            *)
(***************************************************************************)
EXTENDS ConnectionIds

CONSTANTS MAX_PROBING_TIMEOUTS,
          max_concurrent_paths

ASSUME PathsAssumption ==
  /\ MAX_PROBING_TIMEOUTS \in Nat \ {0}
  /\ max_concurrent_paths \in Nat \ {0}

(* PathState, in the order the code compares them.                         *)
Failed == 0
Unknown == 1
Validating == 2
ValidatingMTU == 3
Validated == 4

NewPath(addrs) ==
  [addrs |-> addrs, state |-> Unknown, active |-> FALSE,
   dcid |-> NoSeq, in_flight |-> 0,
   probing_lost |-> 0, probe_was_lost |-> FALSE,
   challenge_requested |-> FALSE]

Active(p) == p.active /\ p.state > Failed /\ p.dcid # NoSeq

Usable(p) == Active(p) \/ (p.state = Validated /\ p.dcid # NoSeq)

(* Slip: a path that holds an identifier counts as unused.                 *)
Unused_Inactive(p) == ~Active(p)

Unused(p) == ~Active(p) /\ p.dcid = NoSeq

UnderValidation(p) == p.state \in {Validating, ValidatingMTU}

promote_to(p, state) == [p EXCEPT !.state = IF @ < state THEN state ELSE @]

request_validation(p) == [p EXCEPT !.challenge_requested = TRUE]

add_challenge_sent(p) ==
  [promote_to(p, Validating) EXCEPT !.challenge_requested = FALSE,
                                    !.in_flight = @ + 1]

(* The response to a challenge arrives.  `full`: some challenge answered   *)
(* so far was large enough to prove the path's MTU.                        *)
on_response_received(p, full) ==
  LET q == [promote_to(p, ValidatingMTU) EXCEPT !.probing_lost = 0, !.in_flight = @ - 1]
  IN IF q.state # ValidatingMTU THEN q
     ELSE IF full THEN [q EXCEPT !.state = Validated]
     ELSE request_validation(q)

(* The loss timer of a path fires.  `starved`: on a server, max_send_bytes *)
(* does not allow another probe.  `an_rtt_later`: the lost challenge was   *)
(* sent at least one round trip after the last one that counted.  Losses   *)
(* beyond MAX_PROBING_TIMEOUTS need not be told apart.                     *)
on_loss_detection_timeout(p, starved, an_rtt_later) ==
  LET lost == IF an_rtt_later \/ ~p.probe_was_lost
                THEN Min({p.probing_lost + 1, MAX_PROBING_TIMEOUTS}) ELSE p.probing_lost
      q == [p EXCEPT !.in_flight = 0, !.probe_was_lost = TRUE,
                     !.probing_lost = lost]
  IN IF p.in_flight = 0 THEN p
     ELSE IF lost >= MAX_PROBING_TIMEOUTS \/ starved
       THEN [q EXCEPT !.state = Failed, !.active = FALSE]
     ELSE request_validation(q)

-----------------------------------------------------------------------------
(* PathMap.                                                                *)

InitialPaths(addrs) ==
  [pid \in {0} |-> [NewPath(addrs) EXCEPT
     !.state = Validated, !.active = TRUE, !.dcid = 0]]

PathsWith(paths, P(_)) == {pid \in DOMAIN paths : P(paths[pid])}

get_active_path_id(paths) == Lowest(PathsWith(paths, Active))

find_candidate_path(paths) == Lowest(PathsWith(paths, Usable))

path_id_from_addrs(paths, addrs) ==
  Lowest(PathsWith(paths, LAMBDA p : p.addrs = addrs))

(* The identifier a new path gets: a fresh one, or that of the first       *)
(* unused path, which is removed; NoPath when there is neither.            *)
insert_pid(paths) ==
  IF Cardinality(DOMAIN paths) < max_concurrent_paths
    THEN Min((0..max_concurrent_paths) \ DOMAIN paths)
    ELSE Lowest(PathsWith(paths, Unused))

insert_path(paths, pid, path) ==
  [i \in DOMAIN paths \cup {pid} |-> IF i = pid THEN path ELSE paths[i]]

set_active_path(paths, pid, is_server) ==
  LET old == get_active_path_id(paths)
      superseded == IF old = NoPath THEN paths ELSE [paths EXCEPT ![old].active = FALSE]
      p == [superseded[pid] EXCEPT !.active = TRUE]
  IN [superseded EXCEPT ![pid] =
        IF ~is_server \/ p.state = Validated \/ UnderValidation(p) THEN p
        ELSE request_validation(p)]

=============================================================================
